SPECIFICATION Spec
CONSTANTS
    Order <- MCOrder
    Absent = {"LED_0_RED"}
INVARIANTS
    TypeOK
    PrefixDark
PROPERTY
    TrueMeansDark
