CONSTANTS
    W = 3
    ValueLen = 2
    Size = 3
    Values = {0, 21, 46, 63}
SPECIFICATION BitSpec
INVARIANTS
    BitTypeOK
    PutsOnlyItsBits
    GetsItsBits
