SPECIFICATION Spec
CONSTANTS
    Width <- MCWidth
    MaxCalls = 3
    MaxAddresses = 2
    Peers = {"carrot", "lenient"}
    Responses <- MCResponses
    Faults = {"resolve", "connect", "oom", "serialize", "close", "interrupt", "sigpipe"}
INVARIANTS
    TypeOK
    OwnResponse
    SuccessIsEarned
    NoSocketLeaked
PROPERTY
    CallsReturn
CHECK_DEADLOCK FALSE
