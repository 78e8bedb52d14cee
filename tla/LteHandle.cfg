SPECIFICATION HandleSpec
CONSTANTS
    NULL = NULL
    Handles = {h1, h2, h3}
    Configs <- MCConfigs
    OrigLine <- MCOrigLine
INVARIANTS
    HandleTypeOK
    SettingsStack
    NoOrphanDescriptor
    OutcomeHolds
PROPERTY
    NoUseAfterFree
CHECK_DEADLOCK FALSE
