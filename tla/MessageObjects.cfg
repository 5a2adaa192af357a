SPECIFICATION Spec
CONSTANTS
    Width <- MCWidth
    Values <- MCValues
    Wires <- MCWires
    MaxUnknown = 1
INVARIANTS
    TypeOK
    ParseForgets
    RoundTrip
    ConcatIsMerge
    SizeIsWritten
CHECK_DEADLOCK FALSE
