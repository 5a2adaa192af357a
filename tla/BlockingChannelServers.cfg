SPECIFICATION Spec
CONSTANTS
    Width <- MCWidth
    MaxCalls = 3
    MaxAddresses = 2
    Peers = {"carrot"}
    Responses <- MCHealthy
    Faults = {"connect"}
INVARIANT MethodsCalled
CHECK_DEADLOCK FALSE
