CONSTANTS
    kBlockSize = 32
    Sizes = {1, 5, 8, 9, 20}
    Bases = {16, 64, 112}
    MaxAllocs = 4
SPECIFICATION Spec
INVARIANTS
    TypeOK
    RegionsDisjoint
    RegionsAllocated
    AlignedRegions
    UsageCoversRequests
PROPERTY
    WasteBounded
\* The arena's life ends with its destructor.
CHECK_DEADLOCK FALSE
