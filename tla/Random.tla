------------------------------- MODULE Random -------------------------------
(***************************************************************************)
(* Random (src/src/util/random.h): the multiplicative congruential         *)
(* generator, computed with a shift and a mask, and the draws made from    *)
(* it.  M is 2^31 - 1 in the code and 2^p - 1 for a smaller p here, so     *)
(* that x >> 31 is x \div (M + 1) and x & M is x % (M + 1); an int and a   *)
(* uint32_t have 2 * (M + 1) values.  Random64 is modelled with them: its  *)
(* generator, std::mt19937_64, returns any number.                         *)
(***************************************************************************)
EXTENDS Integers, Arithmetic

CONSTANTS
    M, A,        \* 2147483647 and 16807 in the code
    Seeds,       \* arguments of the constructor, uint32_t
    Ns,          \* arguments of Uniform and OneIn, positive ints
    Ns64,        \* those of Random64, positive uint64_ts
    MaxLogs,     \* arguments of Skewed of both, ints
    Range64      \* 2^64

ASSUME MultiplierAssumption == M \in Nat \ {0} /\ A \in 1 .. M - 1

(* A multiplied k times, modulo M *)
PowerOfA(k) ==
    LET power[i \in 0 .. k] == IF i = 0 THEN 1 ELSE (power[i - 1] * A) % M
    IN power[k]

(* M is a prime, and A generates all numbers modulo it. *)
ASSUME PrimeAssumption == \A s, t \in 1 .. M - 1 : (s * t) % M # 0
ASSUME GeneratorAssumption ==
    PowerOfA(M - 1) = 1 /\ \A k \in 1 .. M - 2 : PowerOfA(k) # 1

ASSUME SeedsAssumption == Seeds \subseteq 0 .. 2 * (M + 1) - 1
ASSUME ArgumentsAssumption ==
    /\ Ns \subseteq 1 .. M /\ MaxLogs \subseteq 0 .. M - 1
    /\ Range64 \in Nat /\ 2 * (M + 1) <= Range64
    /\ Ns64 \subseteq 1 .. Range64 - 1

VARIABLES
    seed_,
    first,     \* what the constructor set seed_ to
    draws,     \* how often Next was called, modulo M - 1
    pending,   \* inside Skewed: max_log, base and the argument of the second draw
    ret        \* the last value returned, with the largest allowed; fits says
               \* that 1 << base, from which it was drawn, is a value of its type

vars == <<seed_, first, draws, pending, ret>>

NotSkewed == [max_log |-> -1, base |-> 0, n |-> 0]

Returned(value, max) == [value |-> value, max |-> max, fits |-> TRUE]

Init ==
    /\ seed_ \in {s % (M + 1) : s \in Seeds}
    /\ first = seed_ /\ draws = 0
    /\ pending = NotSkewed
    /\ ret = Returned(0, 0)

(* (product >> 31) + (product & M), cut to 32 bits *)
Reduced(product) ==
    ((product \div (M + 1)) + (product % (M + 1))) % (2 * (M + 1))

(* A mutant: the second reduction is forgotten. *)
ReducedOnce(seed) == Reduced(seed * A)

(* A mutant: subtracts M + 1, the modulus of the mask. *)
ReducedTooFar(seed) ==
    LET r == Reduced(seed * A) IN IF r > M THEN r - (M + 1) ELSE r

Successor(seed) ==
    LET r == Reduced(seed * A) IN IF r > M THEN r - M ELSE r

(* Next() *)
Draw ==
    /\ seed_' = Successor(seed_)
    /\ draws' = (draws + 1) % (M - 1)
    /\ UNCHANGED first

Next ==
    /\ pending = NotSkewed
    /\ Draw
    /\ ret' = Returned(seed_', M)
    /\ UNCHANGED pending

(* An int that becomes a uint32_t or, in Random64, a uint64_t *)
ToUnsigned(n, range) == n % range

(* Next() % n *)
Uniform(n) ==
    /\ pending = NotSkewed
    /\ Draw
    /\ ret' = Returned(seed_' % ToUnsigned(n, 2 * (M + 1)), n - 1)
    /\ UNCHANGED pending

OneIn(n) ==
    /\ pending = NotSkewed
    /\ Draw
    /\ ret' = Returned(IF seed_' % n = 0 THEN 1 ELSE 0, 1)
    /\ UNCHANGED pending

(* A mutant: one bit more than was drawn. *)
OneBitMore(k) == {IF Pow2(k) > M THEN -Pow2(k) ELSE Pow2(k + 1)}

(* 1 << k in an int: negative when it reaches the sign bit, and undefined  *)
(* from there on.                                                          *)
ShiftedOnes(k) ==
    IF Pow2(k) <= M THEN {Pow2(k)}
    ELSE IF Pow2(k) = M + 1 THEN {-Pow2(k)}
    ELSE -(M + 1) .. M

(* Skewed(max_log): Uniform(max_log + 1), then Uniform(1 << that).  An     *)
(* undefined shift that gives 0 ends the program in Uniform's division.    *)
BeginSkewed(max_log) ==
    LET base == seed_' % (max_log + 1)
    IN /\ pending = NotSkewed
       /\ Draw
       /\ \E n \in ShiftedOnes(base) \ {0} :
             pending' = [max_log |-> max_log, base |-> base, n |-> n]
       /\ UNCHANGED ret

EndSkewed ==
    /\ pending # NotSkewed
    /\ Draw
    /\ ret' = [value |-> seed_' % ToUnsigned(pending.n, 2 * (M + 1)),
               max |-> Pow2(pending.max_log) - 1,
               fits |-> Pow2(pending.base) <= M + 1]
    /\ pending' = NotSkewed

-----------------------------------------------------------------------------
(* Random64, between the calls of Random.  Its generator_ has no state     *)
(* here: it may return any number.                                         *)
Next64 ==
    /\ pending = NotSkewed
    /\ \E v \in 0 .. Range64 - 1 : ret' = Returned(v, Range64 - 1)
    /\ UNCHANGED <<seed_, first, draws, pending>>

(* std::uniform_int_distribution<uint64_t>(0, n - 1) *)
Distribution(n) == 0 .. ToUnsigned(n - 1, Range64)

Uniform64(n) ==
    /\ pending = NotSkewed
    /\ \E v \in Distribution(n) : ret' = Returned(v, n - 1)
    /\ UNCHANGED <<seed_, first, draws, pending>>

OneIn64(n) ==
    /\ pending = NotSkewed
    /\ \E v \in Distribution(n) : ret' = Returned(IF v = 0 THEN 1 ELSE 0, 1)
    /\ UNCHANGED <<seed_, first, draws, pending>>

(* The int becomes a uint64_t: a negative one nearly 2^64. *)
Skewed64(max_log) ==
    /\ pending = NotSkewed
    /\ \E base \in Distribution(max_log + 1) : \E n \in ShiftedOnes(base) :
          \E v \in Distribution(ToUnsigned(n, Range64)) :
              ret' = [value |-> v, max |-> Pow2(max_log) - 1, fits |-> Pow2(base) <= M]
    /\ UNCHANGED <<seed_, first, draws, pending>>

Step ==
    \/ Next
    \/ \E n \in Ns : Uniform(n) \/ OneIn(n)
    \/ \E l \in MaxLogs : BeginSkewed(l)
    \/ EndSkewed
    \/ Next64
    \/ \E n \in Ns64 : Uniform64(n) \/ OneIn64(n)
    \/ \E l \in MaxLogs : Skewed64(l)

Spec == Init /\ [][Step]_vars

-----------------------------------------------------------------------------
(* "seed_ must not be zero or M, or else all subsequent computed values    *)
(* will be zero or M respectively": from those two seeds, which the        *)
(* constructor lets through, the generator never moves; from any other it  *)
(* never gets there ("mod == M is not possible"), whatever is drawn.       *)
SeedInRange ==
    IF first \in {0, M} THEN seed_ = first ELSE seed_ \in 1 .. M - 1

(* The shift, the mask and the one conditional subtraction compute         *)
(* "seed_ = (seed_ * A) % M" exactly, for all seeds but M, in every draw   *)
(* of every member.                                                        *)
DrawsAreModular ==
    [][seed_' = IF seed_ = M THEN M ELSE (seed_ * A) % M]_<<seed_, draws>>

(* "For all other values, seed_ will end up cycling through every number   *)
(* in [1,M-1]": seed_ is back where it started after M - 1 draws and not   *)
(* before.                                                                 *)
CyclesThroughAll ==
    first \notin {0, M} => (seed_ = first <=> draws = 0)

(* Uniform(n) of both classes is in "[0..n-1]", and Skewed(max_log) in     *)
(* "[0,2^max_log-1]" as long as the base that was drawn leaves 1 << base   *)
(* in the type: up to 31 in Random, where the negative int becomes 2^31    *)
(* again, and only up to 30 in Random64.  Beyond, the range is not kept.   *)
ReturnsInRange == ret.fits => ret.value \in 0 .. ret.max
=============================================================================
