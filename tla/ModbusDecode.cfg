SPECIFICATION Spec
CONSTANTS
    R = 4
    IntVals = 32
    CountVals = 16
    MaxRegs = 4
    MaxBits = 6
    Counts <- MCCounts
INVARIANTS
    TypeOK
    StaysInArrays
    BitsExact
    RangeOfType
    MisfitIsZero
CHECK_DEADLOCK FALSE
