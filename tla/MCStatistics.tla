---------------------------- MODULE MCStatistics ----------------------------
(* Three threads, an int of 3 bits and a counter of 4: a few ticks of 3     *)
(* wrap the counter, -1 passes through all three types, and 5 does not.     *)
EXTENDS Statistics, TLC

MCCounts == {-1, 1, 3, 5}
Symmetric == Permutations(Threads)
=============================================================================
