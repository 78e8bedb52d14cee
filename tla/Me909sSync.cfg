SPECIFICATION Spec
CONSTANTS
    Calls = {"init", "cmd", "led", "restart", "call", "hangup"}
    InitCount = 2
    MaxCmd = 2
    MaxLines = 2
    RxCap = 5
    LineCap = 1
INVARIANTS
    TypeOK
    InSync
PROPERTY
    ImplementsExchange
CHECK_DEADLOCK FALSE
