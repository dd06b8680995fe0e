---------------------------- MODULE MCSkipList ----------------------------
(* Instances of SkipList for TLC.  One reader is enough: readers share      *)
(* nothing with each other.  Three keys and three nodes give the hint good  *)
(* and bad, repeated keys, and a level that the hint leaves out of order.   *)
EXTENDS SkipListRefinement
=============================================================================
