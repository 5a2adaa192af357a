SPECIFICATION Spec
CONSTANTS
    Clients = {c1, c2}
    None = None
    MaxObjects = 2
    MaxRequests <- MCMaxRequests
    Requests <- MCRequests
    Faults = {"read", "write", "oom", "event", "sigpipe", "signal", "flags"}
INVARIANTS
    TypeOK
    PoolSound
    OpenIsHeld
    Watched
PROPERTIES
    CallFits
    RequestsServed
CHECK_DEADLOCK FALSE
