SPECIFICATION Spec
CONSTANTS
    Calls = {"status"}
    InitCount = 2
    MaxCmd = 2
    MaxLines = 2
    RxCap = 3
    LineCap = 5
INVARIANT
    StatusIsCurrent
CHECK_DEADLOCK FALSE
