CONSTANTS
    Key = {1, 2}
    Readers = {r1}
    kMaxHeight = 2
    MaxNodes = 2
    StoresSuccessor = FALSE
SPECIFICATION Spec
INVARIANT
    PublishedInitialised
CHECK_DEADLOCK FALSE
