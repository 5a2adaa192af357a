SPECIFICATION Spec
CONSTANTS
    Clients = {c1, c2, c3}
    None = None
    MaxFds = 1
    MaxRequests = 1
    Requests <- MCHealthy
    Services = {"arith"}
    Faults = {}
INVARIANT AnswersReachCaller
CHECK_DEADLOCK FALSE
