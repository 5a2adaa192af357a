SPECIFICATION Spec
CONSTANTS
    Clients = {c1, c2}
    None = None
    MaxFds = 2
    MaxRequests = 1
    Requests <- MCRequests
    Services = {"arith"}
    Faults = {"accept", "read", "oom", "write", "sigpipe", "signal", "socket", "thread"}
INVARIANTS
    TypeOK
    Confined
    Released
    OneLateClient
PROPERTY
    ThreadsEnd
CHECK_DEADLOCK FALSE
