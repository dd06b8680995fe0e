CONSTANTS
    Key = {1, 2, 3}
    Readers = {r1}
    kMaxHeight = 2
    MaxNodes = 3
    StoresSuccessor = TRUE
SPECIFICATION FairSpec
INVARIANTS
    TypeOK
    LoadsAreSafe
    AccessesInBounds
PROPERTIES
    ReadsAreLinearizable
    CallsReturn
