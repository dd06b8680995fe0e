CONSTANTS
    Threads = {t1, t2, t3}
    Recorded = {8, 17}
    Counts <- MCCounts
    IntRange = 8
    CountRange = 16
    MaxTicks = 6
SYMMETRY Symmetric
SPECIFICATION TickerSpec
INVARIANTS
    TypeOK
    TicksAddUp
    EveryTickIsNamed
\* The threads stop at the bound.
CHECK_DEADLOCK FALSE
