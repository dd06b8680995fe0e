CONSTANTS
    BlockSizes = {0, 1, 3, 4, 7}
    Lengths = {0, 1, 3, 9}
    MaxFileSize = 30
    SizeChanges = FALSE
SPECIFICATION FileSpec
INVARIANTS
    FileTypeOK
    AllocatesOnce
PROPERTY
    WritesAreCovered
\* The file is full.
CHECK_DEADLOCK FALSE
