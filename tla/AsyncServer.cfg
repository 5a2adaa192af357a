SPECIFICATION Spec
CONSTANTS
    MaxConns = 3
    MaxRequests = 2
    Requests <- MCRequests
    PacketSize = 2
    MetaSize = 1
    Faults = {"accept", "read", "write", "oom", "serialize", "shutdown"}
INVARIANTS
    TypeOK
    AnswersInOrder
    ExecutedOnce
    Tracked
    KeepsAccepting
PROPERTY EveryRequestAnswered
CHECK_DEADLOCK FALSE
