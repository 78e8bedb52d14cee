SPECIFICATION Spec
CONSTANTS
    Chips = {c1, c2}
    NoPath = NoPath
    Word = 8
    NsPerMs = 2
    NsPerSec = 4
    Args <- MCArgs
INVARIANTS
    TypeOK
    Applied
    OneSecondOrLonger
    NoForeignRatio
    StoppedAtExit
PROPERTY
    OneChip
