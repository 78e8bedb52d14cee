SPECIFICATION LteSpec
CONSTANTS
    NULL = NULL
    Handles = {h1, h2}
    Configs <- MCConfigs
    OrigLine <- MCOrigLine
    Calls = {"cmd", "offline"}
    InitCount = 2
    MaxCmd = 1
    MaxLines = 2
    RxCap = 3
    LineCap = 1
SYMMETRY MCSymmetry
INVARIANT
    LteTypeOK
PROPERTY
    ImplementsDialogue
    CommandsFollowConnect
CHECK_DEADLOCK FALSE
