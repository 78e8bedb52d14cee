SPECIFICATION FairSpec
CONSTANTS
    Calls = {"status", "online", "init"}
    InitCount = 2
    MaxCmd = 2
    MaxLines = 2
    RxCap = 3
    LineCap = 1
INVARIANT
    StateReport
PROPERTY
    CallReturns
    BoundedWait
CHECK_DEADLOCK FALSE
