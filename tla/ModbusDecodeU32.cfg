SPECIFICATION Spec
CONSTANTS
    R = 4
    IntVals = 32
    CountVals = 16
    MaxRegs = 4
    MaxBits = 6
    Counts <- MCCounts
INVARIANT
    U32IsUnsigned
CHECK_DEADLOCK FALSE
