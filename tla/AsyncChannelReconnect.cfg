SPECIFICATION Spec
CONSTANTS
    MaxCalls = 2
    Timed = {}
    Verdict <- MCVerdict
    Faults = {}
INVARIANT HealthyCallsSucceed
CHECK_DEADLOCK FALSE
