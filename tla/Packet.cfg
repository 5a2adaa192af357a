SPECIFICATION RunSpec
CONSTANTS
    Limit <- MCLimit
    Lengths <- MCAll
    Exhausts = TRUE
INVARIANTS
    TypeOK
    Contract
PROPERTY ReturnsIfRepresentable
