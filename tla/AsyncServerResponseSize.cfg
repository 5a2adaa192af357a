SPECIFICATION Spec
CONSTANTS
    MaxConns = 2
    MaxRequests = 1
    Requests <- MCLarge
    PacketSize = 2
    MetaSize = 1
    Faults = {}
INVARIANT ResponseFits
CHECK_DEADLOCK FALSE
