------------------------------ MODULE MCRandom ------------------------------
(* M = 2^3 - 1, a prime as 2^31 - 1 is, and A = 5, which generates all      *)
(* numbers modulo it as 16807 does modulo the other; the two seeds that     *)
(* are fixed points, with and without the bit that the mask clears.  An int *)
(* has 4 bits: Skewed is asked for fewer, for its sign bit and for more.    *)
EXTENDS Random
=============================================================================
