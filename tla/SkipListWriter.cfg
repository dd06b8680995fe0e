CONSTANTS
    Key = {1, 2, 3, 4}
    Readers = {}
    kMaxHeight = 3
    MaxNodes = 4
    StoresSuccessor = TRUE
SPECIFICATION Spec
INVARIANTS
    BottomListSorted
    LevelsComplete
\* The writer is done after MaxNodes inserts.
CHECK_DEADLOCK FALSE
