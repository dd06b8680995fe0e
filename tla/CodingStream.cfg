CONSTANTS
    G = 2
    Bits32 = 9
    Bits64 = 15
    kMaxVarint32Length = 5
    kMaxVarint64Length = 8
    Values32 <- MCValues32
    Values64 <- MCValues64
    Slices <- MCSlices
    MaxItems = 2
SPECIFICATION Spec
INVARIANTS
    TypeOK
    GetsReturnWhatWasPut
    GetsStopAtTheCut
\* A record is read once.
CHECK_DEADLOCK FALSE
