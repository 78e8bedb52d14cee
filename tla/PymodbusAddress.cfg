SPECIFICATION Spec
CONSTANTS
    Handles = {h1, h2}
    NULL = NULL
    Bus = Bus
    MaxSlave = 2
    Present = {1, 2}
    AddrArgs = {0, 1, 2, 3}
    Shapes = {s1, s2}
    MaxReads = 2
INVARIANT
    ReadsItsAddress
CHECK_DEADLOCK FALSE
