SPECIFICATION Spec
CONSTANTS
    Chars = {"a", "b"}
    MaxDes = 5
    MaxSrc = 7
INVARIANTS
    TypeOK
    TableIsBorders
    FirstOccurrence
PROPERTY
    SearchEnds
    LinearTime
CHECK_DEADLOCK FALSE
