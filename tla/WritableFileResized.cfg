CONSTANTS
    BlockSizes = {0, 3, 4}
    Lengths = {0, 1}
    MaxFileSize = 12
    SizeChanges = TRUE
SPECIFICATION FileSpec
PROPERTY
    WritesAreCovered
CHECK_DEADLOCK FALSE
