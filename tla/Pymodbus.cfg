SPECIFICATION Spec
CONSTANTS
    Handles = {h1, h2}
    NULL = NULL
    Bus = Bus
    MaxSlave = 2
    Present = {1, 2}
    AddrArgs = {0, 2, 3}
    Shapes = {s1}
    MaxReads = 3
INVARIANTS
    TypeOK
    AnswersItsRequest
    SlaveInForce
    OutcomeHolds
PROPERTIES
    NoUseAfterFree
    ImplementsExchange
CHECK_DEADLOCK FALSE
SYMMETRY HandleSymmetry
