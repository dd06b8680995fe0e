------------------------------ MODULE MCArena ------------------------------
(* Instances of Arena for TLC: kBlockSize is 32, so that a quarter of it is *)
(* 8 = align and sizes just below, at and above both limits are small.      *)
EXTENDS Arena
=============================================================================
