SPECIFICATION Spec
CONSTANTS
    MaxCalls = 3
    Timed = {2}
    Verdict <- MCVerdict
    Faults = {"resolve", "connect", "read", "write", "oom", "garbled"}
INVARIANTS
    TypeOK
    RunsOnce
    NoLostCall
    TimerGuard
    ConnectionState
    ResultIsVerdict
PROPERTIES
    TeardownCompletes
    CallsSpec
    TimedCallsReturn
    CallsReturn
CHECK_DEADLOCK FALSE
