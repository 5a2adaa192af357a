SPECIFICATION Spec
CONSTANTS
    MaxConns = 2
    MaxRequests = 1
    Requests <- MCUnknown
    PacketSize = 2
    MetaSize = 1
    Faults = {}
INVARIANT UnknownMethodsSurvived
CHECK_DEADLOCK FALSE
