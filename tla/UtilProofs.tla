----------------------------- MODULE UtilProofs -----------------------------
(***************************************************************************)
(* Arithmetic in integers of a fixed width: the generator and the tickers. *)
(* The reduction in Random::Next is exact, and the seeds are one cycle,    *)
(* for every prime modulus of the form that its shift and mask need and    *)
(* every multiplier that generates all numbers modulo it.  No tick is      *)
(* lost, for any number of threads and tickers, any counts and any widths  *)
(* of the integer types; the invariant is TicksAddUp without its choice of the    *)
(* thread in progress, with the mutual exclusion of the                    *)
(* read-modify-writes, the fact that the value read is still current and   *)
(* the fact that no assert has stopped a thread.                           *)
(***************************************************************************)
EXTENDS Random, Statistics, ArithmeticProofs

(* M divides no product s * A. *)
LEMMA NoMultiple ==
    ASSUME NEW s \in 1 .. M - 1, NEW k \in Int, s * A = k * M
    PROVE  FALSE
<1>0. M \in Nat \ {0} /\ A \in 1 .. M - 1 /\ 0 \in 0 .. M - 1
  BY MultiplierAssumption
<1>1. (k * M + 0) % M = 0
  BY <1>0, Remainder
<1>2. k * M + 0 = s * A
  BY <1>0
<1> QED
  BY <1>0, <1>1, <1>2, PrimeAssumption

(* What one call of Next computes. *)
LEMMA SuccessorIsModular ==
    ASSUME NEW s \in 1 .. M - 1
    PROVE  Successor(s) = (s * A) % M /\ Successor(s) \in 1 .. M - 1
<1> DEFINE p == s * A
           q == p \div (M + 1)
           r == p % (M + 1)
<1>0. M \in Nat \ {0} /\ A \in 1 .. M - 1
  BY MultiplierAssumption
<1>1. p \in Nat /\ p < A * (M + 1)
  BY <1>0
<1>2. q \in Nat /\ r \in 0 .. M /\ p = q * (M + 1) + r
  <2> HIDE DEF p
  <2>1. M + 1 \in Nat \ {0} /\ (M + 1) - 1 = M
    BY <1>0
  <2>2. q \in Nat /\ r \in 0 .. (M + 1) - 1 /\ p = q * (M + 1) + r
    BY <1>1, <2>1, NatDivision, Zenon
  <2> QED
    BY <2>1, <2>2
<1> DEFINE u == (q + r) % (2 * (M + 1))
<1>3. Successor(s) = IF u > M THEN u - M ELSE u
  BY DEF Successor, Reduced
<1> HIDE DEF p, q, r, u
<1>4. q < A
  <2> SUFFICES ASSUME q >= A PROVE FALSE
    BY <1>0, <1>2
  <2>1. q * (M + 1) >= A * (M + 1)
    BY <1>0, <1>2
  <2> QED
    BY <1>0, <1>1, <1>2, <2>1
<1>5. q + r \in 0 .. 2 * M - 1
  BY <1>0, <1>2, <1>4
<1>6. u = q + r
  <2>1. 2 * (M + 1) \in Nat \ {0} /\ q + r \in 0 .. (2 * (M + 1)) - 1
    BY <1>0, <1>5
  <2>2. (0 * (2 * (M + 1)) + (q + r)) % (2 * (M + 1)) = q + r
    BY <2>1, Remainder
  <2> QED
    BY <2>1, <2>2 DEF u
<1>7. Successor(s) = IF q + r > M THEN q + r - M ELSE q + r
  BY <1>0, <1>2, <1>3, <1>6
<1>8. p = q * M + (q + r)
  BY <1>0, <1>2
<1>9. q + r # 0
  BY <1>0, <1>2, <1>8, NoMultiple DEF p
<1>10. q + r # M
  <2> SUFFICES ASSUME q + r = M PROVE FALSE
    OBVIOUS
  <2>1. q + 1 \in Int /\ s * A = (q + 1) * M
    BY <1>0, <1>2, <1>8 DEF p
  <2> QED
    BY <2>1, NoMultiple
<1>11. CASE q + r > M
  <2>1. q + r - M \in 1 .. M - 1
    BY <1>0, <1>2, <1>5, <1>11
  <2>2. p = (q + 1) * M + (q + r - M) /\ q + 1 \in Int
    BY <1>0, <1>2, <1>8
  <2>3. q + r - M \in 0 .. M - 1
    BY <2>1
  <2>4. ((q + 1) * M + (q + r - M)) % M = q + r - M
    BY <1>0, <2>2, <2>3, Remainder, Zenon
  <2>5. p % M = q + r - M
    BY <2>2, <2>4
  <2> QED
    BY <1>7, <1>11, <2>1, <2>5 DEF p
<1>12. CASE ~(q + r > M)
  <2>1. q + r \in 1 .. M - 1
    BY <1>0, <1>2, <1>5, <1>9, <1>10, <1>12
  <2>2. p % M = q + r
    BY <1>0, <1>2, <1>8, <2>1, Remainder
  <2> QED
    BY <1>7, <1>12, <2>1, <2>2 DEF p
<1> QED
  BY <1>11, <1>12

(* The two seeds from which Next never moves. *)
LEMMA FixedPoints == Successor(0) = 0 /\ Successor(M) = M
<1>0. M \in Nat \ {0} /\ A \in 1 .. M - 1
  BY MultiplierAssumption
<1>1. Successor(0) = 0
  <2>1. 0 * A = 0 /\ 0 = 0 * (M + 1) + 0 /\ 0 = 0 * (2 * (M + 1)) + 0
    BY <1>0
  <2>2. (0 * (M + 1) + 0) % (M + 1) = 0 /\ (0 * (M + 1) + 0) \div (M + 1) = 0
    BY <1>0, Quotient
  <2>3. (0 * (2 * (M + 1)) + 0) % (2 * (M + 1)) = 0
    BY <1>0, Quotient
  <2>4. Reduced(0) = 0
    BY <2>1, <2>2, <2>3 DEF Reduced
  <2> QED
    BY <1>0, <2>1, <2>4 DEF Successor
<1>2. Successor(M) = M
  <2>1. A - 1 \in Int /\ M + 1 - A \in 0 .. (M + 1) - 1 /\ M + 1 \in Nat \ {0}
    BY <1>0
  <2>2. M * A = (A - 1) * (M + 1) + (M + 1 - A)
    BY <1>0
  <2>3. /\ (M * A) % (M + 1) = M + 1 - A
        /\ (M * A) \div (M + 1) = A - 1
    BY <2>1, <2>2, Quotient
  <2>4. Reduced(M * A) = M % (2 * (M + 1))
    <3>1. (A - 1) + (M + 1 - A) = M
      BY <1>0
    <3> QED
      BY <2>3, <3>1 DEF Reduced
  <2>5. M \in 0 .. (2 * (M + 1)) - 1 /\ 2 * (M + 1) \in Nat \ {0}
    BY <1>0
  <2>6. (0 * (2 * (M + 1)) + M) % (2 * (M + 1)) = M
    BY <2>5, Quotient
  <2>7. 0 * (2 * (M + 1)) + M = M
    BY <1>0
  <2>8. Reduced(M * A) = M
    BY <2>4, <2>6, <2>7
  <2> QED
    BY <1>0, <2>8 DEF Successor
<1> QED
  BY <1>1, <1>2

(* Every step either draws one number or leaves the generator alone. *)
LEMMA OneDraw ==
    ASSUME [Step]_vars
    PROVE  Draw \/ UNCHANGED <<seed_, first, draws>>
<1> USE DEF Step, Next, Uniform, OneIn, BeginSkewed, EndSkewed,
            Next64, Uniform64, OneIn64, Skewed64, vars
<1> QED
  OBVIOUS

(* seed_ stays on the fixed points 0 and M, which only a constructor that  *)
(* was given them reaches, and among 1 .. M - 1 otherwise, however many    *)
(* numbers are drawn and by which members.                                 *)
THEOREM Range == Spec => []SeedInRange
<1>1. Init => SeedInRange
  <2> SUFFICES ASSUME Init PROVE SeedInRange
    OBVIOUS
  <2>1. PICK s \in Seeds : seed_ = s % (M + 1)
    BY DEF Init
  <2>2. s \in Int /\ M \in Nat \ {0} /\ first = seed_
    BY SeedsAssumption, MultiplierAssumption DEF Init
  <2>3. seed_ \in 0 .. M
    BY <2>1, <2>2
  <2> QED
    BY <2>2, <2>3 DEF SeedInRange
<1>2. SeedInRange /\ [Step]_vars => SeedInRange'
  <2> SUFFICES ASSUME SeedInRange, [Step]_vars PROVE SeedInRange'
    OBVIOUS
  <2>1. CASE Draw
    <3>1. CASE first \in {0, M}
      BY <2>1, <3>1, FixedPoints DEF SeedInRange, Draw
    <3>2. CASE first \notin {0, M}
      BY <2>1, <3>2, SuccessorIsModular DEF SeedInRange, Draw
    <3> QED
      BY <3>1, <3>2
  <2>2. CASE UNCHANGED <<seed_, first, draws>>
    BY <2>2 DEF SeedInRange
  <2> QED
    BY <2>1, <2>2, OneDraw
<1> QED
  BY <1>1, <1>2, PTL DEF Spec

(* The shift, the mask and the conditional subtraction of Next compute     *)
(* (seed_ * A) % M, and leave M alone.                                     *)
THEOREM Modular == Spec => DrawsAreModular
<1> DEFINE Target == IF seed_ = M THEN M ELSE (seed_ * A) % M
<1>1. SeedInRange /\ [Step]_vars => [seed_' = Target]_<<seed_, draws>>
  <2> SUFFICES ASSUME SeedInRange, Draw PROVE seed_' = Target
    BY OneDraw
  <2>0. M \in Nat \ {0} /\ A \in Nat /\ 0 # M
    BY MultiplierAssumption
  <2>1. CASE seed_ = M
    BY <2>1, FixedPoints DEF Draw
  <2>2. CASE seed_ = 0
    <3>1. (0 * M + 0) % M = 0
      BY <2>0, Remainder
    <3>2. 0 * M + 0 = 0 * A
      BY <2>0
    <3> QED
      BY <2>0, <2>2, <3>1, <3>2, FixedPoints DEF Draw
  <2>3. CASE seed_ \in 1 .. M - 1
    <3>1. seed_ # M
      BY <2>0, <2>3
    <3> QED
      BY <2>3, <3>1, SuccessorIsModular DEF Draw
  <2> QED
    BY <2>1, <2>2, <2>3 DEF SeedInRange
<1>2. Spec => []SeedInRange
  BY Range
<1> QED
  BY <1>1, <1>2, PTL DEF Spec, DrawsAreModular

-----------------------------------------------------------------------------
(* 1 << k, as an int that becomes a uint32_t again, is a power of two up   *)
(* to the sign bit.                                                        *)
LEMMA ShiftComesBack ==
    ASSUME NEW k \in Nat, Pow2(k) <= M + 1, NEW n \in ShiftedOnes(k)
    PROVE  ToUnsigned(n, 2 * (M + 1)) = Pow2(k)
<1> DEFINE p == Pow2(k)
           r == 2 * (M + 1)
<1>1. M \in Nat \ {0} /\ r \in Nat \ {0} /\ p \in Nat \ {0} /\ p <= M + 1
  BY MultiplierAssumption, Powers
<1>2. n = IF p <= M THEN p ELSE -p
  BY <1>1 DEF ShiftedOnes
<1>3. CASE ~(p <= M)
  <2>1. p = M + 1 /\ -p = (-1) * r + p /\ p \in 0 .. r - 1
    BY <1>1, <1>3
  <2> HIDE DEF p, r
  <2>2. ((-1) * r + p) % r = p
    BY <1>1, <2>1, Remainder
  <2> QED
    BY <1>2, <1>3, <2>1, <2>2 DEF p, r, ToUnsigned
<1>4. CASE p <= M
  <2>1. p \in 0 .. r - 1
    BY <1>1, <1>4
  <2> HIDE DEF p, r
  <2>2. p % r = p
    BY <1>1, <2>1, Small
  <2> QED
    BY <1>2, <1>4, <2>2 DEF p, r, ToUnsigned
<1> QED
  BY <1>3, <1>4

(* Inside Skewed, what was drawn first is at most max_log. *)
Drawn ==
    pending # NotSkewed =>
        \E l \in MaxLogs : \E k \in 0 .. l : \E n \in ShiftedOnes(k) :
            pending = [max_log |-> l, base |-> k, n |-> n]

(* What Uniform and OneIn return. *)
LEMMA UniformStep ==
    ASSUME SeedInRange', NEW n \in Ns, Uniform(n) \/ OneIn(n)
    PROVE  ReturnsInRange'
<1>0. M \in Nat \ {0} /\ n \in 1 .. M /\ n \in Nat \ {0}
  BY MultiplierAssumption, ArgumentsAssumption
<1>1. seed_' \in 0 .. M /\ seed_' \in Int
  BY <1>0 DEF SeedInRange
<1>2. CASE Uniform(n)
  <2>1. 2 * (M + 1) \in Nat \ {0} /\ n \in 0 .. 2 * (M + 1) - 1
    BY <1>0
  <2>2. ToUnsigned(n, 2 * (M + 1)) = n
    BY <2>1, Small DEF ToUnsigned
  <2>3. seed_' % n \in 0 .. n - 1
    BY <1>0, <1>1, Division, Zenon
  <2>4. ret' = Returned(seed_' % n, n - 1)
    BY <1>2, <2>2 DEF Uniform
  <2> QED
    BY <2>3, <2>4 DEF ReturnsInRange, Returned
<1>3. CASE OneIn(n)
  BY <1>3 DEF OneIn, ReturnsInRange, Returned
<1> QED
  BY <1>2, <1>3

(* What the second draw of Skewed returns. *)
LEMMA SkewedStep ==
    ASSUME SeedInRange', Drawn, EndSkewed
    PROVE  ReturnsInRange'
<1>1. PICK l \in MaxLogs : \E k \in 0 .. l : \E n \in ShiftedOnes(k) :
          pending = [max_log |-> l, base |-> k, n |-> n]
  BY DEF Drawn, EndSkewed
<1>2. PICK k \in 0 .. l : \E n \in ShiftedOnes(k) :
          pending = [max_log |-> l, base |-> k, n |-> n]
  BY <1>1
<1>3. PICK n \in ShiftedOnes(k) : pending = [max_log |-> l, base |-> k, n |-> n]
  BY <1>2
<1>4. l \in Nat /\ k \in Nat /\ k <= l /\ M \in Nat \ {0}
  BY MultiplierAssumption, ArgumentsAssumption
<1>5. /\ Pow2(k) \in Nat \ {0} /\ Pow2(l) \in Nat \ {0} /\ Pow2(k) <= Pow2(l)
  BY <1>4, Powers, PowerGrows, Zenon
<1>6. ret' = [value |-> seed_' % ToUnsigned(n, 2 * (M + 1)),
              max |-> Pow2(l) - 1, fits |-> Pow2(k) <= M + 1]
  BY <1>3 DEF EndSkewed
<1> SUFFICES ASSUME Pow2(k) <= M + 1
             PROVE  seed_' % ToUnsigned(n, 2 * (M + 1)) \in 0 .. Pow2(l) - 1
  BY <1>6 DEF ReturnsInRange
<1>7. ToUnsigned(n, 2 * (M + 1)) = Pow2(k)
  BY <1>4, ShiftComesBack
<1>8. seed_' \in Int
  BY <1>4 DEF SeedInRange
<1>9. seed_' % Pow2(k) \in 0 .. Pow2(k) - 1
  BY <1>5, <1>8, Division, Zenon
<1> QED
  BY <1>5, <1>7, <1>9

(* What Random64::Uniform, OneIn and Next return. *)
LEMMA Uniform64Step ==
    ASSUME Next64 \/ \E n \in Ns64 : Uniform64(n) \/ OneIn64(n)
    PROVE  ReturnsInRange'
<1>1. CASE Next64
  BY <1>1 DEF Next64, ReturnsInRange, Returned
<1>2. ASSUME NEW n \in Ns64, Uniform64(n) PROVE ReturnsInRange'
  <2>1. Range64 \in Nat \ {0} /\ n - 1 \in 0 .. Range64 - 1
    BY ArgumentsAssumption
  <2>2. (n - 1) % Range64 = n - 1
    BY <2>1, Small
  <2>3. \E v \in 0 .. n - 1 : ret' = Returned(v, n - 1)
    BY <1>2, <2>2 DEF Uniform64, Distribution, ToUnsigned
  <2> QED
    BY <2>3 DEF ReturnsInRange, Returned
<1>3. ASSUME NEW n \in Ns64, OneIn64(n) PROVE ReturnsInRange'
  BY <1>3 DEF OneIn64, ReturnsInRange, Returned
<1> QED
  BY <1>1, <1>2, <1>3

(* What Random64::Skewed returns. *)
LEMMA Skewed64Step ==
    ASSUME NEW l \in MaxLogs, Skewed64(l)
    PROVE  ReturnsInRange'
<1>1. PICK k \in Distribution(l + 1) : \E n \in ShiftedOnes(k) :
         \E v \in Distribution(ToUnsigned(n, Range64)) :
             ret' = [value |-> v, max |-> Pow2(l) - 1, fits |-> Pow2(k) <= M]
  BY DEF Skewed64
<1>2. PICK n \in ShiftedOnes(k) : \E v \in Distribution(ToUnsigned(n, Range64)) :
             ret' = [value |-> v, max |-> Pow2(l) - 1, fits |-> Pow2(k) <= M]
  BY <1>1
<1>3. PICK v \in Distribution(ToUnsigned(n, Range64)) :
             ret' = [value |-> v, max |-> Pow2(l) - 1, fits |-> Pow2(k) <= M]
  BY <1>2
<1>4. /\ l \in Nat /\ l < M /\ M \in Nat \ {0}
      /\ Range64 \in Nat \ {0} /\ 2 * (M + 1) <= Range64
  BY MultiplierAssumption, ArgumentsAssumption
<1>5. l % Range64 = l /\ (l + 1) - 1 = l
  <2>1. l \in 0 .. Range64 - 1
    BY <1>4
  <2> QED
    BY <1>4, <2>1, Small
<1>6. k \in 0 .. l
  BY <1>1, <1>5 DEF Distribution, ToUnsigned
<1>7. /\ k \in Nat /\ Pow2(k) \in Nat \ {0}
      /\ Pow2(l) \in Nat \ {0} /\ Pow2(k) <= Pow2(l)
  BY <1>4, <1>6, Powers, PowerGrows
<1> SUFFICES ASSUME Pow2(k) <= M PROVE v \in 0 .. Pow2(l) - 1
  BY <1>3 DEF ReturnsInRange
<1>8. n = Pow2(k)
  BY DEF ShiftedOnes
<1>9. Pow2(k) % Range64 = Pow2(k) /\ (Pow2(k) - 1) % Range64 = Pow2(k) - 1
  <2>1. Pow2(k) \in 0 .. Range64 - 1 /\ Pow2(k) - 1 \in 0 .. Range64 - 1
    BY <1>4, <1>7
  <2> QED
    BY <1>4, <2>1, Small
<1>10. v \in 0 .. Pow2(k) - 1
  BY <1>3, <1>8, <1>9 DEF Distribution, ToUnsigned
<1> QED
  BY <1>7, <1>10

(* Uniform of both classes stays below its argument, and both Skewed below *)
(* 2^max_log for every base whose 1 << base is a value of the type that it *)
(* becomes: up to 31 in Random, up to 30 in Random64.                      *)
THEOREM Returns == Spec => []ReturnsInRange
<1>1. Init => ReturnsInRange /\ Drawn
  BY DEF Init, ReturnsInRange, Drawn, Returned
<1>2. ReturnsInRange /\ Drawn /\ SeedInRange' /\ [Step]_vars => (ReturnsInRange /\ Drawn)'
  <2> SUFFICES ASSUME ReturnsInRange, Drawn, SeedInRange', [Step]_vars
               PROVE  ReturnsInRange' /\ Drawn'
    OBVIOUS
  <2>0. M \in Nat \ {0} /\ seed_' \in 0 .. M /\ seed_' \in Int
    BY MultiplierAssumption DEF SeedInRange
  <2>1. CASE Next
    BY <2>0, <2>1 DEF Next, ReturnsInRange, Drawn, Returned
  <2>2. ASSUME NEW n \in Ns, Uniform(n) \/ OneIn(n) PROVE ReturnsInRange' /\ Drawn'
    BY <2>2, UniformStep DEF Uniform, OneIn, Drawn
  <2>3. ASSUME NEW l \in MaxLogs, BeginSkewed(l) PROVE ReturnsInRange' /\ Drawn'
    <3>1. l + 1 \in Nat \ {0} /\ (l + 1) - 1 = l
      BY MultiplierAssumption, ArgumentsAssumption
    <3>2. seed_' % (l + 1) \in 0 .. l
      BY <2>0, <3>1, Division, Zenon
    <3>3. Drawn'
      BY <2>3, <3>2 DEF BeginSkewed, Drawn
    <3> QED
      BY <2>3, <3>3 DEF BeginSkewed, ReturnsInRange
  <2>4. CASE EndSkewed
    BY <2>4, SkewedStep DEF EndSkewed, Drawn
  <2>5. CASE Next64 \/ \E n \in Ns64 : Uniform64(n) \/ OneIn64(n)
    BY <2>5, Uniform64Step DEF Next64, Uniform64, OneIn64, Drawn
  <2>6. ASSUME NEW l \in MaxLogs, Skewed64(l) PROVE ReturnsInRange' /\ Drawn'
    BY <2>6, Skewed64Step DEF Skewed64, Drawn
  <2>7. CASE UNCHANGED vars
    BY <2>7 DEF vars, ReturnsInRange, Drawn
  <2> QED
    BY <2>1, <2>2, <2>3, <2>4, <2>5, <2>6, <2>7 DEF Step
<1>3. Spec => []SeedInRange
  BY Range
<1> QED
  BY <1>1, <1>2, <1>3, PTL DEF Spec

-----------------------------------------------------------------------------
(* The recursive function inside PowerOfA. *)
IsPowerOfA(p, k) == p = [i \in 0 .. k |-> IF i = 0 THEN 1 ELSE (p[i - 1] * A) % M]

(* It exists. *)
LEMMA PowerOfAExists ==
    ASSUME NEW k \in Nat
    PROVE  \E p : IsPowerOfA(p, k)
<1> DEFINE step == [x \in Nat \X Nat |-> (x[2] * A) % M]
<1>0. M \in Nat \ {0} /\ A \in Nat
  BY MultiplierAssumption
<1>1. \A i, v \in Nat : step[<<i, v>>] = (v * A) % M
  OBVIOUS
<1> HIDE DEF step
<1>2. ASSUME NEW i \in 1 .. k, NEW v \in Nat PROVE step[<<i, v>>] \in Nat
  <2>1. i \in Nat /\ v * A \in Nat
    BY <1>0
  <2>2. (v * A) % M \in Nat
    BY <1>0, <2>1
  <2>3. step[<<i, v>>] = (v * A) % M
    BY <1>1, <2>1
  <2> QED
    BY <2>2, <2>3, Zenon
<1>3. PICK p \in [0 .. k -> Nat] : Iterates(p, 1, step, k)
  BY <1>2, Iteration, Zenon
<1>4. p[0] = 1
  BY <1>3 DEF Iterates
<1>5. \A i \in 1 .. k : p[i] = (p[i - 1] * A) % M
  <2> SUFFICES ASSUME NEW i \in 1 .. k PROVE p[i] = (p[i - 1] * A) % M
    OBVIOUS
  <2>1. i \in Nat /\ p[i - 1] \in Nat
    BY <1>3
  <2> QED
    BY <1>1, <1>3, <2>1, Zenon DEF Iterates
<1>6. p = [i \in 0 .. k |-> IF i = 0 THEN 1 ELSE (p[i - 1] * A) % M]
  <2>1. \A i \in 0 .. k : p[i] = IF i = 0 THEN 1 ELSE (p[i - 1] * A) % M
    BY <1>4, <1>5
  <2> QED
    BY <1>3, <2>1, Zenon
<1> QED
  BY <1>6 DEF IsPowerOfA

(* It is determined. *)
LEMMA PowerOfADetermined ==
    ASSUME NEW k \in Nat, NEW l \in Nat, k <= l, NEW p, NEW q,
           IsPowerOfA(p, k), IsPowerOfA(q, l)
    PROVE  \A i \in 0 .. k : p[i] = q[i]
<1> DEFINE S == {i \in Nat : i <= k => p[i] = q[i]}
<1>0. /\ p[0] = 1 /\ \A i \in 1 .. k : p[i] = (p[i - 1] * A) % M
      /\ q[0] = 1 /\ \A i \in 1 .. k : q[i] = (q[i - 1] * A) % M
  BY DEF IsPowerOfA
<1>1. 0 \in S
  BY <1>0
<1>2. ASSUME NEW i \in S PROVE i + 1 \in S
  <2>1. i \in Nat
    BY <1>2
  <2>2. ASSUME i + 1 <= k PROVE p[i + 1] = q[i + 1]
    <3>1. i + 1 \in 1 .. k /\ (i + 1) - 1 = i /\ p[i] = q[i]
      BY <1>2, <2>1, <2>2
    <3>2. p[i + 1] = (p[i] * A) % M /\ q[i + 1] = (q[i] * A) % M
      BY <1>0, <3>1
    <3> QED
      BY <3>1, <3>2
  <2> QED
    BY <2>1, <2>2
<1>3. S \in SUBSET Nat
  OBVIOUS
<1>4. S = Nat
  <2> HIDE DEF S
  <2> QED
    BY <1>1, <1>2, <1>3, Induction
<1>5. \A i \in 0 .. k : i \in S /\ i <= k
  BY <1>4
<1> QED
  BY <1>5

(* PowerOfA multiplies by A from 1 on. *)
LEMMA PowersOfA ==
    /\ PowerOfA(0) = 1
    /\ \A k \in Nat : /\ PowerOfA(k) \in 0 .. M - 1
                      /\ PowerOfA(k + 1) = (PowerOfA(k) * A) % M
<1> DEFINE P(k) == CHOOSE p : IsPowerOfA(p, k)
<1>0. M \in Nat \ {0} /\ M >= 2 /\ A \in Nat
  BY MultiplierAssumption
<1>1. \A k : PowerOfA(k) = P(k)[k]
  BY Zenon DEF PowerOfA, IsPowerOfA
<1>2. \A k \in Nat : IsPowerOfA(P(k), k)
  BY PowerOfAExists, Zenon
<1> HIDE DEF P
<1>3. PowerOfA(0) = 1
  <2>1. P(0)[0] = 1
    BY <1>2 DEF IsPowerOfA
  <2> QED
    BY <1>1, <2>1
<1>4. ASSUME NEW k \in Nat PROVE PowerOfA(k + 1) = (PowerOfA(k) * A) % M
  <2>1. k + 1 \in Nat /\ k <= k + 1 /\ k \in 0 .. k /\ k + 1 \in 0 .. k + 1
    OBVIOUS
  <2>2. IsPowerOfA(P(k), k) /\ IsPowerOfA(P(k + 1), k + 1)
    BY <1>2, <2>1
  <2>3. P(k)[k] = P(k + 1)[k]
    BY <2>1, <2>2, PowerOfADetermined
  <2>4. P(k + 1)[k + 1] = (P(k + 1)[k] * A) % M
    <3>1. (k + 1) - 1 = k /\ k + 1 # 0
      OBVIOUS
    <3> QED
      BY <2>1, <2>2, <3>1 DEF IsPowerOfA
  <2> QED
    BY <1>1, <2>3, <2>4
<1> DEFINE S == {k \in Nat : PowerOfA(k) \in 0 .. M - 1}
<1>5. 0 \in S
  BY <1>0, <1>3
<1>6. ASSUME NEW k \in S PROVE k + 1 \in S
  <2>1. k \in Nat /\ k + 1 \in Nat /\ PowerOfA(k) \in Nat
    BY <1>0, <1>6
  <2>2. PowerOfA(k) * A \in Nat
    BY <1>0, <2>1
  <2>3. (PowerOfA(k) * A) % M \in 0 .. M - 1
    BY <1>0, <2>2, NatDivision, Zenon
  <2>4. PowerOfA(k + 1) \in 0 .. M - 1
    BY <1>4, <2>1, <2>3
  <2> QED
    BY <2>1, <2>4
<1>7. S = Nat
  <2>1. S \in SUBSET Nat
    OBVIOUS
  <2> HIDE DEF S
  <2> QED
    BY <1>5, <1>6, <2>1, Induction
<1>8. \A k \in Nat : PowerOfA(k) \in 0 .. M - 1
  BY <1>7
<1> QED
  BY <1>3, <1>4, <1>8

(* The remainder of a product. *)
LEMMA MultiplyRemainder ==
    ASSUME NEW m \in Nat \ {0}, NEW a \in Nat, NEW c \in Nat
    PROVE  ((a % m) * c) % m = (a * c) % m
<1> DEFINE q == a \div m
           r == a % m
           y == r * c
           p == y \div m
           s == y % m
<1>0. q \in Nat /\ r \in 0 .. m - 1 /\ a = q * m + r
  BY NatDivision, Zenon
<1> HIDE DEF q, r
<1>1. q \in Nat /\ r \in Nat /\ a = q * m + r
  BY <1>0
<1>2. y \in Nat /\ p \in Nat /\ s \in 0 .. m - 1 /\ y = p * m + s
  <2>1. y \in Nat
    BY <1>1
  <2> HIDE DEF y
  <2> QED
    BY <2>1, NatDivision, Zenon
<1> HIDE DEF p, s
<1>3. a * c = (q * c) * m + y
  <2>1. (q * m + r) * c = (q * c) * m + r * c
    BY <1>1
  <2> QED
    BY <1>1, <2>1
<1> HIDE DEF y
<1> DEFINE x == q * c
<1>4. x \in Nat /\ a * c = x * m + y
  BY <1>1, <1>3
<1> HIDE DEF x
<1>5. a * c = (x + p) * m + s /\ x + p \in Int
  <2>1. (x + p) * m = x * m + p * m /\ x + p \in Int
    BY <1>2, <1>4
  <2> QED
    BY <1>2, <1>4, <2>1
<1>6. ((x + p) * m + s) % m = s
  BY <1>2, <1>5, Remainder, Zenon
<1> QED
  BY <1>5, <1>6, Zenon DEF s, y, r

(* After that many draws, the seed is the first one times a power of A. *)
Cycle ==
    /\ first \in 0 .. M
    /\ first \notin {0, M} => /\ draws \in 0 .. M - 2
                              /\ seed_ = (first * PowerOfA(draws)) % M

(* One draw multiplies by A once more. *)
LEMMA CycleStep ==
    ASSUME SeedInRange, Cycle, Draw
    PROVE  Cycle'
<1>0. /\ M \in Nat \ {0} /\ M >= 2 /\ A \in Nat /\ M - 1 \in Nat \ {0}
      /\ first' = first /\ first \in 0 .. M /\ first \in Nat
  BY MultiplierAssumption DEF Cycle, Draw
<1> SUFFICES ASSUME first \notin {0, M}
             PROVE  draws' \in 0 .. M - 2 /\ seed_' = (first * PowerOfA(draws')) % M
  BY <1>0 DEF Cycle
<1> DEFINE p == PowerOfA(draws)
           n == PowerOfA(draws + 1)
<1>1. /\ draws \in 0 .. M - 2 /\ draws \in Nat /\ seed_ = (first * p) % M
      /\ seed_ \in 1 .. M - 1
  BY <1>0 DEF Cycle, SeedInRange
<1>2. p \in Nat /\ n = (p * A) % M
  <2>1. p \in 0 .. M - 1 /\ n = (p * A) % M
    BY <1>1, PowersOfA
  <2> QED
    BY <1>0, <2>1
<1>3. seed_' = (seed_ * A) % M /\ draws' = (draws + 1) % (M - 1)
  BY <1>1, SuccessorIsModular DEF Draw
<1> HIDE DEF p, n
<1>4. seed_' = (first * n) % M
  <2>1. first * p \in Nat /\ p * A \in Nat
    BY <1>0, <1>2
  <2>2. (((first * p) % M) * A) % M = ((first * p) * A) % M
    BY <1>0, <2>1, MultiplyRemainder
  <2>3. (((p * A) % M) * first) % M = ((p * A) * first) % M
    BY <1>0, <2>1, MultiplyRemainder
  <2>4. (first * p) * A = (p * A) * first
    BY <1>0, <1>2
  <2>5. ((p * A) % M) * first = first * ((p * A) % M)
    <3>1. (p * A) % M \in Nat
      BY <1>0, <2>1
    <3> DEFINE z == (p * A) % M
    <3> HIDE DEF z
    <3>2. z * first = first * z
      BY <1>0, <3>1 DEF z
    <3> QED
      BY <3>2 DEF z
  <2> QED
    BY <1>1, <1>2, <1>3, <2>2, <2>3, <2>4, <2>5
<1>5. CASE draws + 1 < M - 1
  <2>1. draws + 1 \in 0 .. (M - 1) - 1 /\ draws + 1 \in 0 .. M - 2
    BY <1>0, <1>1, <1>5
  <2>2. draws' = draws + 1
    BY <1>0, <1>3, <2>1, Small
  <2> QED
    BY <1>4, <2>1, <2>2 DEF n
<1>6. CASE ~(draws + 1 < M - 1)
  <2>1. draws + 1 = M - 1 /\ 0 \in 0 .. M - 2 /\ 0 \in 0 .. (M - 1) - 1
    BY <1>0, <1>1, <1>6
  <2>2. 1 * (M - 1) + 0 = draws + 1
    BY <1>0, <2>1
  <2>3. (1 * (M - 1) + 0) % (M - 1) = 0
    BY <1>0, <2>1, Remainder
  <2>4. draws' = 0
    BY <1>3, <2>2, <2>3
  <2>5. n = 1 /\ PowerOfA(0) = 1
    BY <2>1, GeneratorAssumption, PowersOfA DEF n
  <2> QED
    BY <1>4, <2>1, <2>4, <2>5
<1> QED
  BY <1>5, <1>6

(* The power of A tells whether the seed is the first one. *)
LEMMA CycleCloses ==
    ASSUME Cycle, SeedInRange
    PROVE  CyclesThroughAll
<1> SUFFICES ASSUME first \notin {0, M} PROVE seed_ = first <=> draws = 0
  BY DEF CyclesThroughAll
<1> DEFINE p == PowerOfA(draws)
<1>0. M \in Nat \ {0} /\ M >= 2 /\ first \in 0 .. M
  BY MultiplierAssumption DEF Cycle
<1>1. first \in 1 .. M - 1 /\ first \in Nat /\ first \in 0 .. M - 1
  BY <1>0
<1>2. draws \in 0 .. M - 2 /\ draws \in Nat /\ seed_ = (first * p) % M
  BY <1>0 DEF Cycle
<1>3. p \in 0 .. M - 1 /\ p \in Nat
  <2>1. p \in 0 .. M - 1
    BY <1>2, PowersOfA
  <2> QED
    BY <1>0, <2>1
<1>4. CASE draws = 0
  <2>1. p = 1
    BY <1>4, PowersOfA
  <2>2. first * 1 = first
    BY <1>1
  <2>3. first % M = first
    BY <1>0, <1>1, Small
  <2> QED
    BY <1>2, <1>4, <2>1, <2>2, <2>3
<1>5. CASE draws # 0
  <2>1. draws \in 1 .. M - 2
    BY <1>0, <1>2, <1>5
  <2>2. p # 1
    BY <2>1, GeneratorAssumption
  <2> HIDE DEF p
  <2> SUFFICES ASSUME seed_ = first PROVE FALSE
    BY <1>5
  <2>3. CASE p = 0
    <3>1. first * 0 = 0 /\ 0 \in 0 .. M - 1
      BY <1>0, <1>1
    <3>2. 0 % M = 0
      BY <1>0, <3>1, Small
    <3> QED
      BY <1>1, <1>2, <2>3, <3>1, <3>2
  <2>4. CASE p # 0
    <3> DEFINE y == first * p
               q == y \div M
               t == p - 1
    <3>1. t \in 1 .. M - 1 /\ t \in Nat /\ p = t + 1
      BY <1>0, <1>3, <2>2, <2>4
    <3>2. y \in Nat
      BY <1>1, <1>3
    <3>3. q \in Nat /\ y = q * M + first
      <4> HIDE DEF y
      <4>1. q \in Nat /\ y = q * M + (y % M)
        BY <1>0, <3>2, NatDivision
      <4>2. y % M = first
        BY <1>2 DEF y
      <4> QED
        BY <4>1, <4>2
    <3> HIDE DEF q, t
    <3>4. first * t = q * M
      <4>1. first * p = first * t + first
        BY <1>1, <3>1
      <4>2. q * M \in Nat /\ first * t \in Nat
        BY <1>0, <1>1, <3>1, <3>3
      <4> QED
        BY <1>1, <3>3, <4>1, <4>2
    <3>5. (q * M + 0) % M = 0
      <4>1. q \in Int /\ 0 \in 0 .. M - 1
        BY <1>0, <3>3
      <4> QED
        BY <1>0, <4>1, Remainder
    <3>6. q * M + 0 = first * t
      BY <1>0, <3>3, <3>4
    <3> QED
      BY <1>1, <3>1, <3>5, <3>6, PrimeAssumption
  <2> QED
    BY <2>3, <2>4
<1> QED
  BY <1>4, <1>5

(* From a seed that is neither 0 nor M, Next goes through M - 1 seeds      *)
(* before it returns to the first, because A generates all numbers modulo  *)
(* M: the 31-bit reduction does not shorten the cycle.                     *)
THEOREM Period == Spec => []CyclesThroughAll
<1>1. Init => Cycle
  <2> SUFFICES ASSUME Init PROVE Cycle
    OBVIOUS
  <2>0. M \in Nat \ {0} /\ M >= 2 /\ 0 \in 0 .. M - 2
    BY MultiplierAssumption
  <2>1. PICK s \in Seeds : seed_ = s % (M + 1)
    BY DEF Init
  <2>2. s \in Int /\ first = seed_ /\ draws = 0
    BY SeedsAssumption, <2>0 DEF Init
  <2>3. first \in 0 .. M
    BY <2>0, <2>1, <2>2
  <2>4. ASSUME first \notin {0, M} PROVE seed_ = (first * PowerOfA(draws)) % M
    <3>1. first \in 0 .. M - 1 /\ first \in Nat
      BY <2>0, <2>3, <2>4
    <3>2. PowerOfA(draws) = 1
      BY <2>2, PowersOfA
    <3>3. first * 1 = first
      BY <3>1
    <3>4. first % M = first
      BY <2>0, <3>1, Small
    <3> QED
      BY <2>2, <3>2, <3>3, <3>4
  <2> QED
    BY <2>0, <2>2, <2>3, <2>4 DEF Cycle
<1>2. SeedInRange /\ Cycle /\ [Step]_vars => Cycle'
  <2> SUFFICES ASSUME SeedInRange, Cycle, [Step]_vars PROVE Cycle'
    OBVIOUS
  <2>1. CASE Draw
    BY <2>1, CycleStep
  <2>2. CASE UNCHANGED <<seed_, first, draws>>
    BY <2>2 DEF Cycle
  <2> QED
    BY <2>1, <2>2, OneDraw
<1>3. Cycle /\ SeedInRange => CyclesThroughAll
  BY CycleCloses
<1>4. Spec => []SeedInRange
  BY Range
<1> QED
  BY <1>1, <1>2, <1>3, <1>4, PTL DEF Spec

-----------------------------------------------------------------------------
(* Tickers *)

Half == IntRange \div 2

Adding(u, k) == pc[u] = "adding" /\ call[u].ticker = k

IInv ==
    /\ statistics \in BOOLEAN /\ ticks \in Nat
    /\ count_ \in [Recorded -> 0 .. CountRange - 1]
    /\ pc \in [Threads -> {"ready", "adding"}]
    /\ call \in [Threads -> [ticker : Int, count : Int, read : Int]]
    /\ sum \in [Recorded -> Int] /\ exact \in [Recorded -> BOOLEAN]
    /\ \A u \in Threads : pc[u] = "adding" =>
          /\ call[u].ticker \in Recorded
          /\ call[u].count \in Ints
          /\ call[u].read = count_[call[u].ticker]
    /\ \A k \in Recorded : \A u, v \in Threads : Adding(u, k) /\ Adding(v, k) => u = v
    /\ \A k \in Recorded : \A u \in Threads :
          Adding(u, k) => Agrees(count_[k], sum[k] - call[u].count, exact[k])
    /\ \A k \in Recorded :
          (\A u \in Threads : ~Adding(u, k)) => Agrees(count_[k], sum[k], exact[k])

-----------------------------------------------------------------------------
(* The ranges of the two types. *)
LEMMA Widths ==
    /\ IntRange \in Nat \ {0} /\ CountRange \in Nat \ {0}
    /\ Half \in Nat /\ IntRange = 2 * Half
    /\ CountRange \div IntRange \in Nat
    /\ CountRange = (CountRange \div IntRange) * IntRange
<1>1. IntRange \in Nat \ {0} /\ CountRange \in Nat \ {0}
  BY RangeAssumption
<1>2. Half \in Nat /\ IntRange = Half * 2 + (IntRange % 2)
  BY <1>1 DEF Half
<1>3. Half \in Nat /\ IntRange = 2 * Half
  BY <1>2, RangeAssumption
<1>4. /\ CountRange \div IntRange \in Nat
      /\ CountRange = (CountRange \div IntRange) * IntRange + (CountRange % IntRange)
  BY <1>1
<1>5. CountRange % IntRange = 0
  BY RangeAssumption
<1> HIDE DEF Half
<1>6. CountRange = (CountRange \div IntRange) * IntRange
  BY <1>1, <1>4, <1>5
<1> QED
  BY <1>1, <1>3, <1>4, <1>6

(* Remainders add up. *)
LEMMA AddRemainder ==
    ASSUME NEW m \in Nat \ {0}, NEW a \in Int, NEW c \in Int
    PROVE  ((a % m) + c) % m = (a + c) % m
<1> DEFINE r == a % m
           q == a \div m
           y == r + c
           s == y % m
           p == y \div m
<1>1. q \in Int /\ r \in 0 .. m - 1 /\ a = q * m + r
  OBVIOUS
<1>2. y \in Int /\ p \in Int /\ s \in 0 .. m - 1 /\ y = p * m + s
  BY <1>1
<1>3. y = r + c
  OBVIOUS
<1> HIDE DEF q, r, y, p, s
<1>4. a + c = (q + p) * m + s
  <2>1. (q + p) * m = q * m + p * m
    BY <1>1, <1>2
  <2> QED
    BY <1>1, <1>2, <1>3, <2>1
<1>5. ((q + p) * m + s) % m = s
  BY <1>1, <1>2, Remainder
<1> QED
  BY <1>4, <1>5 DEF s, y, r

(* A multiple of the range of an int does not show in an int. *)
LEMMA SameRemainder ==
    ASSUME NEW x \in Int, NEW m \in Int
    PROVE  (x + m * IntRange) % IntRange = x % IntRange
<1> DEFINE q == x \div IntRange
           r == x % IntRange
<1>1. IntRange \in Nat \ {0}
  BY Widths
<1>2. q \in Int /\ r \in 0 .. IntRange - 1 /\ x = q * IntRange + r
  BY <1>1
<1> HIDE DEF q, r
<1>3. x + m * IntRange = (q + m) * IntRange + r
  <2>1. (q + m) * IntRange = q * IntRange + m * IntRange
    BY <1>1, <1>2
  <2> QED
    BY <1>1, <1>2, <2>1
<1>4. ((q + m) * IntRange + r) % IntRange = r
  BY <1>1, <1>2, Remainder
<1> QED
  BY <1>3, <1>4 DEF r

(* A uint64_t differs from the number by such a multiple. *)
LEMMA Wraps ==
    ASSUME NEW x \in Int
    PROVE  ToUint64(x) \in 0 .. CountRange - 1 /\ \E m \in Int : ToUint64(x) = x + m * IntRange
<1> DEFINE u == x % CountRange
           q == x \div CountRange
           p == CountRange \div IntRange
           z == q * p
<1>1. IntRange \in Nat \ {0} /\ CountRange \in Nat \ {0}
  BY Widths
<1>2. /\ p \in Nat /\ CountRange = p * IntRange
      /\ q \in Int /\ u \in 0 .. CountRange - 1 /\ x = q * CountRange + u
  BY <1>1, Widths
<1>3. ToUint64(x) = u
  BY DEF ToUint64
<1> HIDE DEF u, q, p
<1>4. z \in Int /\ q * CountRange = z * IntRange
  BY <1>1, <1>2
<1> HIDE DEF z
<1>5. -z \in Int /\ (-z) * IntRange = -(z * IntRange)
  BY <1>1, <1>4
<1>6. u = x + (-z) * IntRange
  BY <1>1, <1>2, <1>4, <1>5
<1> QED
  BY <1>2, <1>3, <1>5, <1>6

(* What the int of recordTick gets differs by such a multiple too, and not *)
(* at all when the count is a value of an int.                             *)
LEMMA Conversions ==
    ASSUME NEW n \in Int
    PROVE  /\ ToInt(ToUint64(n)) \in Ints
           /\ \E m \in Int : ToInt(ToUint64(n)) = n + m * IntRange
           /\ n \in Ints => ToInt(ToUint64(n)) = n
<1> DEFINE u == ToUint64(n)
           low == u % IntRange
           q == u \div IntRange
           c == ToInt(u)
<1>1. Half \in Nat /\ IntRange = 2 * Half /\ IntRange \in Nat \ {0} /\ Ints = -Half .. Half - 1
  BY Widths DEF Ints, Half
<1>2. PICK m \in Int : u \in Int /\ u = n + m * IntRange
  BY Wraps
<1> HIDE DEF u, Half
<1>3. q \in Int /\ low \in 0 .. IntRange - 1 /\ u = q * IntRange + low
  BY <1>1, <1>2
<1>4. c = IF low < Half THEN low ELSE low - IntRange
  BY DEF ToInt, Half
<1> HIDE DEF q, low, c
<1>5. PICK d \in {0, 1} : c = low - d * IntRange
  BY <1>1, <1>3, <1>4
<1>6. c \in -Half .. Half - 1
  BY <1>1, <1>3, <1>4
<1>7. c = n + (m - q - d) * IntRange
  <2>1. (m - q - d) * IntRange = m * IntRange - q * IntRange - d * IntRange
    BY <1>1, <1>2, <1>3, <1>5
  <2> QED
    BY <1>1, <1>2, <1>3, <1>5, <2>1
<1>8. m - q - d \in Int
  BY <1>2, <1>3, <1>5
<1>9. n \in -Half .. Half - 1 => c = n
  <2> DEFINE e == m - q - d
  <2>1. e \in Int /\ c = n + e * IntRange
    BY <1>7, <1>8
  <2> HIDE DEF e
  <2>2. e >= 1 => e * IntRange >= IntRange
    BY <1>1, <2>1
  <2>3. e <= -1 => e * IntRange <= -IntRange
    BY <1>1, <2>1
  <2> QED
    BY <1>1, <1>6, <2>1, <2>2, <2>3
<1> QED
  BY <1>1, <1>6, <1>7, <1>8, <1>9 DEF c, u

(* A count that begins takes out of the sum what it has put in. *)
LEMMA Begun ==
    ASSUME NEW s \in Int, NEW n \in Int, NEW c, NEW e \in BOOLEAN, Agrees(c, s, e)
    PROVE  Agrees(c, (s + n) - ToInt(ToUint64(n)), e /\ n \in Ints)
<1> DEFINE k == ToInt(ToUint64(n))
<1>1. PICK m \in Int : k = n + m * IntRange
  BY Conversions
<1>2. n \in Ints => k = n
  BY Conversions
<1>3. IntRange \in Nat \ {0}
  BY Widths
<1> HIDE DEF k
<1>4. (-m) * IntRange = -(m * IntRange) /\ -m \in Int /\ m * IntRange \in Int
  BY <1>3
<1>5. (s + n) - k = s + (-m) * IntRange
  BY <1>1, <1>3, <1>4
<1>6. ((s + n) - k) % IntRange = s % IntRange
  BY <1>4, <1>5, SameRemainder
<1>7. n \in Ints => (s + n) - k = s
  BY <1>2
<1> QED
  BY <1>6, <1>7 DEF Agrees, k

(* A count that ends puts it into the counter. *)
LEMMA Added ==
    ASSUME NEW s \in Int, NEW n \in Int, NEW c \in Int, NEW e \in BOOLEAN,
           Agrees(c, s - n, e)
    PROVE  Agrees(ToUint64(c + n), s, e)
<1>1. IntRange \in Nat \ {0} /\ CountRange \in Nat \ {0}
  BY Widths
<1>2. s - n \in Int /\ (s - n) + n = s /\ c + n \in Int
  OBVIOUS
<1>3. ToUint64(c + n) % IntRange = s % IntRange
  <2>1. PICK m \in Int : ToUint64(c + n) = (c + n) + m * IntRange
    BY <1>2, Wraps
  <2>2. ToUint64(c + n) % IntRange = (c + n) % IntRange
    BY <1>2, <2>1, SameRemainder
  <2>3. ((c % IntRange) + n) % IntRange = (c + n) % IntRange
    BY <1>1, AddRemainder
  <2>4. (((s - n) % IntRange) + n) % IntRange = ((s - n) + n) % IntRange
    BY <1>1, <1>2, AddRemainder, Zenon
  <2>5. c % IntRange = (s - n) % IntRange
    BY DEF Agrees
  <2> QED
    BY <1>2, <2>2, <2>3, <2>4, <2>5
<1>4. e => ToUint64(c + n) = ToUint64(s)
  <2> SUFFICES ASSUME e PROVE ToUint64(c + n) = ToUint64(s)
    OBVIOUS
  <2>1. c = (s - n) % CountRange
    BY DEF Agrees, ToUint64
  <2>2. (((s - n) % CountRange) + n) % CountRange = ((s - n) + n) % CountRange
    BY <1>1, <1>2, AddRemainder, Zenon
  <2> QED
    BY <1>2, <2>1, <2>2 DEF ToUint64
<1> QED
  BY <1>3, <1>4 DEF Agrees

(* The asserts of RecordTick hold. *)
LEMMA Asserts == AssertsHold
BY DEF AssertsHold, HistogramsNameMap, TickersNameMap, HISTOGRAM_ENUM_MAX, TICKER_ENUM_MAX

-----------------------------------------------------------------------------
(* A tick begins: what is in progress on k becomes n. *)
LEMMA BeginStep ==
    ASSUME IInv, NEW t \in Threads, NEW k \in Recorded, NEW n \in Counts,
           RecordTick(t, k, n)
    PROVE  IInv'
<1>0. /\ pc[t] = "ready" /\ ticks' = ticks + 1 /\ ticks' \in Nat
      /\ statistics' = statistics
  BY DEF RecordTick, IInv
<1>1. CASE ~statistics
  <2>1. UNCHANGED <<count_, pc, call, sum, exact>>
    BY <1>1, Asserts DEF RecordTick
  <2> QED
    BY <1>0, <2>1 DEF IInv, Adding
<1>2. CASE statistics
  <2> DEFINE i == ToInt(ToUint64(n))
             c == [ticker |-> k, count |-> i, read |-> count_[k]]
  <2>1. n \in Int /\ i \in Ints /\ i \in Int
    BY CountsAssumption, Conversions, Widths DEF Ints, Half
  <2>2. k \in Int /\ count_[k] \in Int
    BY RecordedAssumption, Widths DEF IInv, TICKER_ENUM_MAX
  <2>3. /\ \A u \in Threads : ~Adding(u, k)
        /\ pc' = [pc EXCEPT ![t] = "adding"]
        /\ call' = [call EXCEPT ![t] = c]
        /\ sum' = [sum EXCEPT ![k] = @ + n]
        /\ exact' = [exact EXCEPT ![k] = @ /\ n \in Ints]
        /\ count_' = count_
    BY <1>2, Asserts DEF RecordTick, Taken, CounterIsAtomic, Adding
  <2>4. c \in [ticker : Int, count : Int, read : Int]
    BY <2>1, <2>2
  <2>5. c.ticker = k /\ c.count = i /\ c.read = count_[k]
    OBVIOUS
  <2> HIDE DEF c, i
  <2>6. /\ pc' \in [Threads -> {"ready", "adding"}]
        /\ call' \in [Threads -> [ticker : Int, count : Int, read : Int]]
        /\ sum' \in [Recorded -> Int] /\ exact' \in [Recorded -> BOOLEAN]
    BY <2>1, <2>3, <2>4 DEF IInv
  <2>7. /\ pc'[t] = "adding" /\ call'[t] = c
        /\ \A u \in Threads \ {t} : pc'[u] = pc[u] /\ call'[u] = call[u]
        /\ sum'[k] = sum[k] + n /\ exact'[k] = (exact[k] /\ n \in Ints)
        /\ \A j \in Recorded \ {k} : sum'[j] = sum[j] /\ exact'[j] = exact[j]
    BY <2>3 DEF IInv
  <2>8. /\ \A u \in Threads : Adding(u, k)' <=> u = t
        /\ \A j \in Recorded \ {k} : \A u \in Threads : Adding(u, j)' <=> Adding(u, j)
        /\ \A j \in Recorded \ {k} : \A u \in Threads : Adding(u, j) => u # t
    BY <1>0, <2>3, <2>5, <2>7 DEF Adding
  <2>9. \A u \in Threads : pc'[u] = "adding" =>
          /\ call'[u].ticker \in Recorded
          /\ call'[u].count \in Ints
          /\ call'[u].read = count_'[call'[u].ticker]
    BY <2>1, <2>3, <2>5, <2>7 DEF IInv
  <2>10. \A j \in Recorded : \A u, v \in Threads : Adding(u, j)' /\ Adding(v, j)' => u = v
    BY <2>8 DEF IInv
  <2>11. ASSUME NEW j \in Recorded, NEW u \in Threads, Adding(u, j)'
         PROVE  Agrees(count_'[j], sum'[j] - call'[u].count, exact'[j])
    <3>1. CASE j = k
      <4>1. u = t /\ Agrees(count_[k], sum[k], exact[k])
        BY <2>3, <2>8, <2>11, <3>1 DEF IInv
      <4>2. sum[k] \in Int /\ exact[k] \in BOOLEAN
        BY DEF IInv
      <4>3. Agrees(count_[k], (sum[k] + n) - i, exact[k] /\ n \in Ints)
        BY <2>1, <4>1, <4>2, Begun DEF i
      <4> QED
        BY <2>3, <2>5, <2>7, <3>1, <4>1, <4>3
    <3>2. CASE j # k
      BY <2>3, <2>7, <2>8, <2>11, <3>2 DEF IInv
    <3> QED
      BY <3>1, <3>2
  <2>12. ASSUME NEW j \in Recorded, \A u \in Threads : ~Adding(u, j)'
         PROVE  Agrees(count_'[j], sum'[j], exact'[j])
    <3>1. j # k
      BY <2>8, <2>12
    <3> QED
      BY <2>3, <2>7, <2>8, <2>12, <3>1 DEF IInv
  <2>13. statistics' \in BOOLEAN /\ count_' \in [Recorded -> 0 .. CountRange - 1]
    BY <1>0, <2>3 DEF IInv
  <2> QED
    BY <1>0, <2>6, <2>9, <2>10, <2>11, <2>12, <2>13 DEF IInv
<1> QED
  BY <1>1, <1>2

(* A tick ends: its count is in the counter and no longer in progress. *)
LEMMA AddStep ==
    ASSUME IInv, NEW t \in Threads, Add(t)
    PROVE  IInv'
<1>0. PICK k : k = call[t].ticker
  OBVIOUS
<1> DEFINE new == ToUint64(call[t].read + call[t].count)
<1>1. /\ pc[t] = "adding" /\ UNCHANGED <<statistics, sum, exact, ticks>>
      /\ count_' = [count_ EXCEPT ![k] = new]
      /\ pc' = [pc EXCEPT ![t] = "ready"]
      /\ call' = [call EXCEPT ![t] = NoCall]
  BY <1>0 DEF Add
<1>2. /\ k \in Recorded /\ Adding(t, k)
      /\ call[t].count \in Int /\ sum[k] \in Int /\ exact[k] \in BOOLEAN
      /\ call[t].read = count_[k] /\ count_[k] \in Int
      /\ Agrees(count_[k], sum[k] - call[t].count, exact[k])
  BY <1>0, <1>1, Widths DEF IInv, Adding
<1>3. Agrees(new, sum[k], exact[k])
  BY <1>2, Added
<1>4. new \in 0 .. CountRange - 1
  <2>1. call[t].read + call[t].count \in Int
    BY <1>2 DEF IInv
  <2> QED
    BY <2>1, Widths DEF ToUint64
<1> HIDE DEF new
<1>5. NoCall \in [ticker : Int, count : Int, read : Int]
  BY DEF NoCall
<1>6. /\ count_' \in [Recorded -> 0 .. CountRange - 1]
      /\ pc' \in [Threads -> {"ready", "adding"}]
      /\ call' \in [Threads -> [ticker : Int, count : Int, read : Int]]
      /\ sum' \in [Recorded -> Int] /\ exact' \in [Recorded -> BOOLEAN]
      /\ statistics' \in BOOLEAN /\ ticks' \in Nat
  BY <1>1, <1>4, <1>5, Zenon DEF IInv
<1>7. /\ count_'[k] = new /\ \A j \in Recorded \ {k} : count_'[j] = count_[j]
      /\ pc'[t] = "ready"
      /\ \A u \in Threads \ {t} : pc'[u] = pc[u] /\ call'[u] = call[u]
  BY <1>1, <1>2 DEF IInv
<1>8. /\ \A u \in Threads : ~Adding(u, k)'
      /\ \A j \in Recorded \ {k} : \A u \in Threads : Adding(u, j)' <=> Adding(u, j)
      /\ \A j \in Recorded \ {k} : \A u \in Threads : Adding(u, j) => u # t
      /\ \A j \in Recorded : \A u \in Threads : Adding(u, j)' => Adding(u, j) /\ u # t
  <2>1. \A u \in Threads \ {t} : ~Adding(u, k)
    BY <1>2 DEF IInv
  <2>2. ~Adding(t, k)' /\ \A j : ~Adding(t, j)'
    BY <1>7 DEF Adding
  <2>3. \A u \in Threads \ {t} : \A j : Adding(u, j)' <=> Adding(u, j)
    BY <1>7 DEF Adding
  <2>4. \A j \in Recorded \ {k} : ~Adding(t, j)
    BY <1>2 DEF Adding
  <2> QED
    BY <2>1, <2>2, <2>3, <2>4
<1>9. ASSUME NEW u \in Threads, pc'[u] = "adding"
      PROVE  /\ call'[u].ticker \in Recorded
             /\ call'[u].count \in Ints
             /\ call'[u].read = count_'[call'[u].ticker]
  <2>1. u # t /\ pc[u] = "adding" /\ call'[u] = call[u]
    BY <1>7, <1>9
  <2>2. call[u].ticker \in Recorded /\ call[u].ticker # k
    BY <1>2, <2>1 DEF IInv, Adding
  <2> QED
    BY <1>7, <2>1, <2>2 DEF IInv
<1>10. \A j \in Recorded : \A u, v \in Threads : Adding(u, j)' /\ Adding(v, j)' => u = v
  BY <1>8 DEF IInv
<1>11. ASSUME NEW j \in Recorded, NEW u \in Threads, Adding(u, j)'
       PROVE  Agrees(count_'[j], sum'[j] - call'[u].count, exact'[j])
  <2>1. j # k /\ u # t /\ Adding(u, j)
    BY <1>8, <1>11
  <2>2. Agrees(count_[j], sum[j] - call[u].count, exact[j])
    BY <2>1 DEF IInv
  <2> QED
    BY <1>1, <1>7, <2>1, <2>2
<1>12. ASSUME NEW j \in Recorded, \A u \in Threads : ~Adding(u, j)'
       PROVE  Agrees(count_'[j], sum'[j], exact'[j])
  <2>1. CASE j = k
    BY <1>1, <1>3, <1>7, <2>1
  <2>2. CASE j # k
    BY <1>1, <1>7, <1>8, <1>12, <2>2 DEF IInv
  <2> QED
    BY <2>1, <2>2
<1> QED
  BY <1>6, <1>9, <1>10, <1>11, <1>12 DEF IInv

(* The invariant holds of every behaviour. *)
LEMMA Invariance == TickerSpec => []IInv
<1>1. TickerInit => IInv
  <2> SUFFICES ASSUME TickerInit PROVE IInv
    OBVIOUS
  <2>1. /\ statistics \in BOOLEAN /\ ticks \in Nat
        /\ pc \in [Threads -> {"ready", "adding"}]
        /\ sum \in [Recorded -> Int]
        /\ \A u \in Threads : pc[u] = "ready"
        /\ \A k \in Recorded : count_[k] = 0 /\ sum[k] = 0
        /\ exact \in [Recorded -> BOOLEAN]
    BY DEF TickerInit
  <2>2. count_ \in [Recorded -> 0 .. CountRange - 1]
    BY Widths DEF TickerInit
  <2>3. call \in [Threads -> [ticker : Int, count : Int, read : Int]]
    BY DEF TickerInit, NoCall
  <2>4. ToUint64(0) = 0
    <3>1. (0 * CountRange + 0) % CountRange = 0
      BY Widths, Remainder
    <3> QED
      BY <3>1, Widths DEF ToUint64
  <2> QED
    BY <2>1, <2>2, <2>3, <2>4 DEF IInv, Adding, Agrees
<1>2. IInv /\ [TickerNext]_tickerVars => IInv'
  <2> SUFFICES ASSUME IInv, [TickerNext]_tickerVars PROVE IInv'
    OBVIOUS
  <2>1. CASE UNCHANGED tickerVars
    BY <2>1 DEF tickerVars, IInv, Adding
  <2>2. CASE TickerNext
    BY <2>2, BeginStep, AddStep DEF TickerNext
  <2> QED
    BY <2>1, <2>2
<1> QED
  BY <1>1, <1>2, PTL DEF TickerSpec

-----------------------------------------------------------------------------
(* getCount is the sum of what the threads counted, however their calls of *)
(* RecordTick overlap: modulo 2^64 as long as the counts are values of an  *)
(* int, and modulo 2^32 whatever they are.                                 *)
THEOREM NoTickIsLost == TickerSpec => []TicksAddUp
<1>1. IInv => TicksAddUp
  <2> SUFFICES ASSUME IInv, NEW k \in Recorded
               PROVE  Agrees(getCount(k), sum[k] - InProgress(k), exact[k])
    BY DEF TicksAddUp
  <2> DEFINE adding == {u \in Threads : pc[u] = "adding" /\ call[u].ticker = k}
  <2>1. CASE adding = {}
    <3>1. \A u \in Threads : ~Adding(u, k)
      BY <2>1 DEF Adding
    <3>2. InProgress(k) = 0
      BY <2>1 DEF InProgress
    <3>3. sum[k] \in Int
      BY DEF IInv
    <3>4. sum[k] - InProgress(k) = sum[k]
      BY <3>2, <3>3
    <3>5. Agrees(count_[k], sum[k], exact[k])
      BY <3>1 DEF IInv
    <3> QED
      BY <3>4, <3>5 DEF getCount
  <2>2. CASE adding # {}
    <3> DEFINE u == CHOOSE x \in adding : TRUE
    <3>1. u \in adding
      BY <2>2
    <3>2. InProgress(k) = call[u].count
      BY <2>2 DEF InProgress
    <3>3. u \in Threads /\ Adding(u, k)
      BY <3>1 DEF Adding
    <3> HIDE DEF u
    <3>4. Agrees(count_[k], sum[k] - call[u].count, exact[k])
      BY <3>3 DEF IInv
    <3> QED
      BY <3>2, <3>4 DEF getCount
  <2> QED
    BY <2>1, <2>2
<1> QED
  BY <1>1, Invariance, PTL

(* The counter, the int and the value read stay in the ranges of their     *)
(* types.                                                                  *)
THEOREM Types == TickerSpec => []TypeOK
<1>1. IInv => TypeOK
  BY DEF IInv, TypeOK
<1> QED
  BY <1>1, Invariance, PTL

(* The name maps follow their enumerations entry by entry, and the asserts *)
(* on their sizes stop no call of RecordTick.                              *)
THEOREM Named == TickerSpec => []EveryTickIsNamed
<1>1. TickersNameMap = Tickers /\ HistogramsNameMap = Histograms
  BY Zenon DEF TickersNameMap, Tickers, HistogramsNameMap, Histograms
<1>2. IInv => EveryTickIsNamed
  BY <1>1 DEF IInv, EveryTickIsNamed
<1> QED
  BY <1>2, Invariance, PTL
=============================================================================
