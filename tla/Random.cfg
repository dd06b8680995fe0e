CONSTANTS
    M = 7
    A = 5
    Seeds = {0, 1, 3, 6, 7, 8, 10, 15}
    Ns = {1, 3, 4}
    Ns64 = {1, 3, 20}
    MaxLogs = {0, 2, 3, 4}
    Range64 = 32
SPECIFICATION Spec
INVARIANTS
    SeedInRange
    CyclesThroughAll
    ReturnsInRange
PROPERTY
    DrawsAreModular
