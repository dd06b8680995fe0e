----------------------------- MODULE Arithmetic -----------------------------
(***************************************************************************)
(* Shifts, masks and sums, by recursion that the provers can follow.       *)
(***************************************************************************)
EXTENDS Integers

(* 1 << k, where the type is wide enough *)
Pow2(k) ==
    LET power[i \in 0 .. k] == IF i = 0 THEN 1 ELSE 2 * power[i - 1]
    IN power[k]

(* e[1] + ... + e[k] *)
Sum(e, k) ==
    LET sum[i \in 0 .. k] == IF i = 0 THEN 0 ELSE sum[i - 1] + e[i]
    IN sum[k]

(* (x >> at) & mask, where the mask has n bits *)
Field(x, at, n) == (x \div Pow2(at)) % Pow2(n)
=============================================================================
