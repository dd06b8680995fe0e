-------------------------- MODULE ArithmeticProofs --------------------------
(***************************************************************************)
(* Facts about natural numbers that the proofs share: induction over sets  *)
(* of numbers, what the recursive definitions of Arithmetic compute, and   *)
(* quotients and remainders.                                               *)
(***************************************************************************)
EXTENDS Arithmetic, WellFoundedInduction, TLAPS

(* Every set of natural numbers has a least element. *)
LEMMA Least ==
    ASSUME NEW S \in SUBSET Nat, S # {}
    PROVE  \E x \in S : \A y \in S : x <= y
<1> DEFINE R == OpToRel(<, Nat)
<1>1. IsWellFoundedOn(R, Nat)
  BY NatLessThanWellFounded, Zenon
<1>2. \A x, y \in Nat : x < y => <<x, y>> \in R
  BY DEF OpToRel
<1> HIDE DEF R
<1>3. PICK x \in S : \A y \in S : ~(<<y, x>> \in R)
  BY <1>1, WFMin, Zenon
<1>4. \A y \in S : ~(y < x)
  BY <1>2, <1>3, Zenon
<1> QED
  BY <1>4

(* Induction in the form that needs no operator as a parameter. *)
LEMMA StrongInduction ==
    ASSUME NEW S \in SUBSET Nat, \A n \in Nat : 0 .. n - 1 \subseteq S => n \in S
    PROVE  S = Nat
<1> SUFFICES ASSUME Nat \ S # {} PROVE FALSE
  BY Zenon
<1> DEFINE T == Nat \ S
<1>1. T \in SUBSET Nat /\ T # {}
  OBVIOUS
<1> HIDE DEF T
<1>2. PICK n \in T : \A y \in T : n <= y
  BY <1>1, Least
<1>3. n \in Nat /\ n \notin S
  BY <1>2 DEF T
<1>4. \A i \in 0 .. n - 1 : i \in Nat /\ i \notin T
  BY <1>2, <1>3
<1>5. 0 .. n - 1 \subseteq S
  BY <1>4 DEF T
<1> QED
  BY <1>3, <1>5

(* Induction from n to n + 1. *)
LEMMA Induction ==
    ASSUME NEW S \in SUBSET Nat, 0 \in S, \A n \in S : n + 1 \in S
    PROVE  S = Nat
<1> SUFFICES ASSUME NEW n \in Nat, 0 .. n - 1 \subseteq S PROVE n \in S
  BY StrongInduction
<1>1. CASE n = 0
  BY <1>1
<1>2. CASE n # 0
  <2>1. n - 1 \in 0 .. n - 1 /\ (n - 1) + 1 = n
    BY <1>2
  <2>2. n - 1 \in S
    BY <2>1
  <2> QED
    BY <2>1, <2>2
<1> QED
  BY <1>1, <1>2

(* f begins with a and goes on as step says. *)
Iterates(f, a, step, n) ==
    f[0] = a /\ \A i \in 1 .. n : f[i] = step[<<i, f[i - 1]>>]

(* A recursive function on an interval exists. *)
LEMMA Iteration ==
    ASSUME NEW V, NEW a \in V, NEW n \in Nat, NEW step,
           \A i \in 1 .. n : \A v \in V : step[<<i, v>>] \in V
    PROVE  \E f \in [0 .. n -> V] : Iterates(f, a, step, n)
<1> DEFINE S == {k \in Nat : k <= n => \E f \in [0 .. k -> V] : Iterates(f, a, step, k)}
<1>1. 0 \in S
  <2> DEFINE f == [i \in 0 .. 0 |-> a]
  <2>1. f \in [0 .. 0 -> V] /\ Iterates(f, a, step, 0)
    BY DEF Iterates
  <2> QED
    BY <2>1
<1>2. ASSUME NEW k \in Nat, k \in S, k + 1 <= n
      PROVE  \E f \in [0 .. k + 1 -> V] : Iterates(f, a, step, k + 1)
  <2>1. PICK f \in [0 .. k -> V] : Iterates(f, a, step, k)
    BY <1>2
  <2>2. PICK c : c = step[<<k + 1, f[k]>>]
    OBVIOUS
  <2>3. c \in V
    <3>1. k + 1 \in 1 .. n /\ f[k] \in V
      BY <1>2, <2>1
    <3> QED
      BY <2>2, <3>1
  <2> DEFINE g == [i \in 0 .. k + 1 |-> IF i = k + 1 THEN c ELSE f[i]]
  <2>4. g \in [0 .. k + 1 -> V]
    BY <2>1, <2>3
  <2>5. g[k + 1] = c /\ \A i \in 0 .. k : g[i] = f[i]
    OBVIOUS
  <2> HIDE DEF g
  <2>6. g[0] = a
    BY <2>1, <2>5 DEF Iterates
  <2>7. ASSUME NEW i \in 1 .. k + 1 PROVE g[i] = step[<<i, g[i - 1]>>]
    <3>1. CASE i = k + 1
      <4>1. i - 1 = k /\ k \in 0 .. k
        BY <3>1
      <4>2. g[i - 1] = f[k]
        BY <2>5, <4>1, Zenon
      <4> QED
        BY <2>2, <2>5, <3>1, <4>2, Zenon
    <3>2. CASE i # k + 1
      <4>1. i \in 1 .. k /\ i \in 0 .. k /\ i - 1 \in 0 .. k
        BY <3>2
      <4> QED
        BY <2>1, <2>5, <4>1, Zenon DEF Iterates
    <3> QED
      BY <3>1, <3>2
  <2>8. Iterates(g, a, step, k + 1)
    BY <2>6, <2>7, Zenon DEF Iterates
  <2> QED
    BY <2>4, <2>8, Zenon
<1>3. S \in SUBSET Nat
  OBVIOUS
<1>4. ASSUME NEW k \in S PROVE k + 1 \in S
  <2>1. k \in Nat /\ k + 1 \in Nat
    BY <1>3
  <2>2. k + 1 <= n => \E f \in [0 .. k + 1 -> V] : Iterates(f, a, step, k + 1)
    BY <1>2, <2>1, Zenon
  <2> QED
    BY <2>1, <2>2, Zenon
<1>5. S = Nat
  <2> HIDE DEF S
  <2> QED
    BY <1>1, <1>3, <1>4, Induction, Zenon
<1>6. n \in S /\ n <= n
  BY <1>5
<1> QED
  BY <1>6

-----------------------------------------------------------------------------
(* The recursive function inside Pow2. *)
IsPower(p, k) == p = [i \in 0 .. k |-> IF i = 0 THEN 1 ELSE 2 * p[i - 1]]

(* It exists. *)
LEMMA PowerExists ==
    ASSUME NEW k \in Nat
    PROVE  \E p : IsPower(p, k)
<1> DEFINE step == [x \in Nat \X Nat |-> 2 * x[2]]
<1>1. \A i, v \in Nat : step[<<i, v>>] = 2 * v
  OBVIOUS
<1> HIDE DEF step
<1>2. ASSUME NEW i \in 1 .. k, NEW v \in Nat PROVE step[<<i, v>>] \in Nat
  <2>1. i \in Nat /\ 2 * v \in Nat
    OBVIOUS
  <2>2. step[<<i, v>>] = 2 * v
    BY <1>1, <2>1
  <2> QED
    BY <2>1, <2>2, Zenon
<1>3. PICK p \in [0 .. k -> Nat] : Iterates(p, 1, step, k)
  BY <1>2, Iteration, Zenon
<1>4. p[0] = 1
  BY <1>3 DEF Iterates
<1>5. \A i \in 1 .. k : p[i] = 2 * p[i - 1]
  <2> SUFFICES ASSUME NEW i \in 1 .. k PROVE p[i] = 2 * p[i - 1]
    OBVIOUS
  <2>1. i \in Nat /\ p[i - 1] \in Nat
    BY <1>3
  <2> QED
    BY <1>1, <1>3, <2>1, Zenon DEF Iterates
<1>6. p = [i \in 0 .. k |-> IF i = 0 THEN 1 ELSE 2 * p[i - 1]]
  <2>1. \A i \in 0 .. k : p[i] = IF i = 0 THEN 1 ELSE 2 * p[i - 1]
    BY <1>4, <1>5
  <2> QED
    BY <1>3, <2>1
<1> QED
  BY <1>6 DEF IsPower

(* It is determined, and its values are positive. *)
LEMMA PowerDetermined ==
    ASSUME NEW k \in Nat, NEW l \in Nat, k <= l, NEW p, NEW q, IsPower(p, k), IsPower(q, l)
    PROVE  \A i \in 0 .. k : p[i] \in Nat \ {0} /\ p[i] = q[i]
<1> DEFINE S == {i \in Nat : i <= k => p[i] \in Nat \ {0} /\ p[i] = q[i]}
<1>0. /\ p[0] = 1 /\ \A i \in 1 .. k : p[i] = 2 * p[i - 1]
      /\ q[0] = 1 /\ \A i \in 1 .. k : q[i] = 2 * q[i - 1]
  BY DEF IsPower
<1>1. 0 \in S
  BY <1>0
<1>2. ASSUME NEW i \in S PROVE i + 1 \in S
  <2>1. i \in Nat
    BY <1>2
  <2>2. ASSUME i + 1 <= k PROVE p[i + 1] \in Nat \ {0} /\ p[i + 1] = q[i + 1]
    <3>1. i + 1 \in 1 .. k /\ (i + 1) - 1 = i /\ p[i] \in Nat \ {0} /\ p[i] = q[i]
      BY <1>2, <2>1, <2>2
    <3>2. p[i + 1] = 2 * p[i] /\ q[i + 1] = 2 * q[i]
      BY <1>0, <3>1
    <3> QED
      BY <3>1, <3>2
  <2> QED
    BY <2>1, <2>2
<1>3. S \in SUBSET Nat
  OBVIOUS
<1>4. S = Nat
  <2> HIDE DEF S
  <2> QED
    BY <1>1, <1>2, <1>3, Induction
<1>5. \A i \in 0 .. k : i \in S /\ i <= k
  BY <1>4
<1> QED
  BY <1>5

(* Pow2 doubles from 1 on. *)
LEMMA Powers ==
    /\ Pow2(0) = 1
    /\ \A k \in Nat : Pow2(k) \in Nat \ {0} /\ Pow2(k + 1) = 2 * Pow2(k)
<1> DEFINE P(k) == CHOOSE p : IsPower(p, k)
<1>1. \A k : Pow2(k) = P(k)[k]
  BY Zenon DEF Pow2, IsPower
<1>2. \A k \in Nat : IsPower(P(k), k)
  BY PowerExists, Zenon
<1> HIDE DEF P
<1>3. Pow2(0) = 1
  <2>1. P(0)[0] = 1
    BY <1>2 DEF IsPower
  <2> QED
    BY <1>1, <2>1
<1>4. ASSUME NEW k \in Nat PROVE Pow2(k) \in Nat \ {0} /\ Pow2(k + 1) = 2 * Pow2(k)
  <2>1. k + 1 \in Nat /\ k <= k + 1 /\ k \in 0 .. k /\ k + 1 \in 0 .. k + 1
    OBVIOUS
  <2>2. IsPower(P(k), k) /\ IsPower(P(k + 1), k + 1)
    BY <1>2, <2>1
  <2>3. P(k)[k] \in Nat \ {0} /\ P(k)[k] = P(k + 1)[k]
    BY <2>1, <2>2, PowerDetermined
  <2>4. P(k + 1)[k + 1] = 2 * P(k + 1)[k]
    BY <2>1, <2>2 DEF IsPower
  <2> QED
    BY <1>1, <2>3, <2>4
<1> QED
  BY <1>3, <1>4

-----------------------------------------------------------------------------
(* The recursive function inside Sum. *)
IsSum(s, e, k) == s = [i \in 0 .. k |-> IF i = 0 THEN 0 ELSE s[i - 1] + e[i]]

(* It exists. *)
LEMMA SumExists ==
    ASSUME NEW e, NEW k \in Nat, \A i \in 1 .. k : e[i] \in Nat
    PROVE  \E s : IsSum(s, e, k)
<1> DEFINE step == [x \in Nat \X Nat |-> x[2] + e[x[1]]]
<1>1. \A i, v \in Nat : step[<<i, v>>] = v + e[i]
  OBVIOUS
<1> HIDE DEF step
<1>2. ASSUME NEW i \in 1 .. k, NEW v \in Nat PROVE step[<<i, v>>] \in Nat
  <2>1. i \in Nat /\ v + e[i] \in Nat
    OBVIOUS
  <2>2. step[<<i, v>>] = v + e[i]
    BY <1>1, <2>1
  <2> QED
    BY <2>1, <2>2, Zenon
<1>3. PICK s \in [0 .. k -> Nat] : Iterates(s, 0, step, k)
  BY <1>2, Iteration, Zenon
<1>4. s[0] = 0
  BY <1>3 DEF Iterates
<1>5. \A i \in 1 .. k : s[i] = s[i - 1] + e[i]
  <2> SUFFICES ASSUME NEW i \in 1 .. k PROVE s[i] = s[i - 1] + e[i]
    OBVIOUS
  <2>1. i \in Nat /\ s[i - 1] \in Nat
    BY <1>3
  <2> QED
    BY <1>1, <1>3, <2>1, Zenon DEF Iterates
<1>6. s = [i \in 0 .. k |-> IF i = 0 THEN 0 ELSE s[i - 1] + e[i]]
  <2>1. \A i \in 0 .. k : s[i] = IF i = 0 THEN 0 ELSE s[i - 1] + e[i]
    BY <1>4, <1>5
  <2> QED
    BY <1>3, <2>1
<1> QED
  BY <1>6 DEF IsSum

(* It is determined by the first terms. *)
LEMMA SumDetermined ==
    ASSUME NEW k \in Nat, NEW l \in Nat, k <= l, NEW s, NEW t, NEW e, NEW d,
           IsSum(s, e, k), IsSum(t, d, l), \A i \in 1 .. k : e[i] \in Nat /\ e[i] = d[i]
    PROVE  \A i \in 0 .. k : s[i] \in Nat /\ s[i] = t[i]
<1> DEFINE S == {i \in Nat : i <= k => s[i] \in Nat /\ s[i] = t[i]}
<1>0. /\ s[0] = 0 /\ \A i \in 1 .. k : s[i] = s[i - 1] + e[i]
      /\ t[0] = 0 /\ \A i \in 1 .. k : t[i] = t[i - 1] + d[i]
  BY DEF IsSum
<1>1. 0 \in S
  BY <1>0
<1>2. ASSUME NEW i \in S PROVE i + 1 \in S
  <2>1. i \in Nat
    BY <1>2
  <2>2. ASSUME i + 1 <= k PROVE s[i + 1] \in Nat /\ s[i + 1] = t[i + 1]
    <3>1. i + 1 \in 1 .. k /\ (i + 1) - 1 = i /\ s[i] \in Nat /\ s[i] = t[i]
      BY <1>2, <2>1, <2>2
    <3>2. s[i + 1] = s[i] + e[i + 1] /\ t[i + 1] = t[i] + d[i + 1]
      BY <1>0, <3>1
    <3>3. e[i + 1] \in Nat /\ e[i + 1] = d[i + 1]
      BY <3>1
    <3> QED
      BY <3>1, <3>2, <3>3
  <2> QED
    BY <2>1, <2>2
<1>3. S \in SUBSET Nat
  OBVIOUS
<1>4. S = Nat
  <2> HIDE DEF S
  <2> QED
    BY <1>1, <1>2, <1>3, Induction
<1>5. \A i \in 0 .. k : i \in S /\ i <= k
  BY <1>4
<1> QED
  BY <1>5

(* Sum adds its terms one after another, and only the first k. *)
LEMMA Sums ==
    ASSUME NEW e, NEW k \in Nat, \A i \in 1 .. k : e[i] \in Nat
    PROVE  /\ Sum(e, 0) = 0
           /\ Sum(e, k) \in Nat
           /\ k # 0 => Sum(e, k) = Sum(e, k - 1) + e[k]
           /\ \A d : (\A i \in 1 .. k : d[i] = e[i]) => Sum(d, k) = Sum(e, k)
<1> DEFINE T(d, j) == CHOOSE s : IsSum(s, d, j)
<1>1. \A d, j : Sum(d, j) = T(d, j)[j]
  BY Zenon DEF Sum, IsSum
<1>2. ASSUME NEW d, NEW j \in 0 .. k, \A i \in 1 .. j : d[i] \in Nat
      PROVE  IsSum(T(d, j), d, j)
  <2>1. \E s : IsSum(s, d, j)
    BY <1>2, SumExists
  <2> QED
    BY <2>1, Zenon
<1> HIDE DEF T
<1>3. \A j \in 0 .. k : IsSum(T(e, j), e, j)
  BY <1>2
<1>4. Sum(e, 0) = 0
  <2>1. IsSum(T(e, 0), e, 0)
    BY <1>3
  <2> QED
    BY <1>1, <2>1 DEF IsSum
<1>5. ASSUME NEW d, \A i \in 1 .. k : d[i] = e[i]
      PROVE  T(d, k)[k] \in Nat /\ T(d, k)[k] = T(e, k)[k]
  <2>1. IsSum(T(d, k), d, k) /\ IsSum(T(e, k), e, k)
    BY <1>2, <1>3, <1>5
  <2>2. k \in 0 .. k /\ k <= k /\ \A i \in 1 .. k : d[i] \in Nat /\ d[i] = e[i]
    BY <1>5
  <2> QED
    BY <2>1, <2>2, SumDetermined
<1>6. Sum(e, k) \in Nat
  BY <1>1, <1>5
<1>7. ASSUME k # 0 PROVE Sum(e, k) = Sum(e, k - 1) + e[k]
  <2>1. k - 1 \in Nat /\ k - 1 <= k /\ k - 1 \in 0 .. k - 1 /\ k - 1 \in 0 .. k /\ k \in 0 .. k
    BY <1>7
  <2>2. IsSum(T(e, k - 1), e, k - 1) /\ IsSum(T(e, k), e, k)
    BY <1>3, <2>1
  <2>3. \A i \in 1 .. k - 1 : e[i] \in Nat /\ e[i] = e[i]
    BY <2>1
  <2>4. T(e, k - 1)[k - 1] = T(e, k)[k - 1]
    BY <2>1, <2>2, <2>3, SumDetermined
  <2>5. T(e, k)[k] = T(e, k)[k - 1] + e[k]
    BY <1>7, <2>1, <2>2 DEF IsSum
  <2> QED
    BY <1>1, <2>4, <2>5
<1> QED
  BY <1>1, <1>4, <1>5, <1>6, <1>7

-----------------------------------------------------------------------------
(* Products grow with their factors. *)
LEMMA Products ==
    ASSUME NEW a \in Nat, NEW b \in Nat, NEW c \in Nat, a <= b
    PROVE  /\ c * a \in Nat /\ c * b \in Nat /\ c * a <= c * b
           /\ c * a = a * c /\ c * b = b * c
OBVIOUS

(* Quotient and remainder are the only ones: k * m + t determines both. *)
LEMMA Quotient ==
    ASSUME NEW m \in Nat \ {0}, NEW k \in Int, NEW t \in 0 .. m - 1
    PROVE  (k * m + t) % m = t /\ (k * m + t) \div m = k
<1> DEFINE y == k * m + t
           d == y \div m
           e == y % m
<1>1. y \in Int /\ d \in Int /\ e \in 0 .. m - 1 /\ y = d * m + e
  OBVIOUS
<1> HIDE DEF d, e
<1>2. (k - d) * m = e - t
  BY <1>1
<1>3. ~(k - d >= 1)
  <2> SUFFICES ASSUME k - d >= 1 PROVE FALSE
    OBVIOUS
  <2>1. (k - d) * m >= m
    BY <1>1
  <2> QED
    BY <2>1, <1>1, <1>2
<1>4. ~(k - d <= -1)
  <2> SUFFICES ASSUME k - d <= -1 PROVE FALSE
    OBVIOUS
  <2>1. (k - d) * m <= -m
    BY <1>1
  <2> QED
    BY <2>1, <1>1, <1>2
<1>5. k = d
  BY <1>1, <1>3, <1>4
<1>6. e = t
  BY <1>1, <1>2, <1>5
<1> QED
  BY <1>5, <1>6 DEF d, e

(* The remainder alone. *)
LEMMA Remainder ==
    ASSUME NEW m \in Nat \ {0}, NEW k \in Int, NEW t \in 0 .. m - 1
    PROVE  (k * m + t) % m = t
BY Quotient

(* Division with remainder. *)
LEMMA Division ==
    ASSUME NEW m \in Nat \ {0}, NEW y \in Int
    PROVE  /\ y \div m \in Int /\ y % m \in 0 .. m - 1
           /\ y = (y \div m) * m + (y % m)
OBVIOUS

(* The same for natural numbers. *)
LEMMA NatDivision ==
    ASSUME NEW m \in Nat \ {0}, NEW y \in Nat
    PROVE  y \div m \in Nat /\ y % m \in 0 .. m - 1 /\ y = (y \div m) * m + (y % m)
OBVIOUS

(* A number below the modulus is its own remainder. *)
LEMMA Small ==
    ASSUME NEW m \in Nat \ {0}, NEW t \in 0 .. m - 1
    PROVE  t % m = t /\ t \div m = 0
<1>1. 0 * m + t = t
  OBVIOUS
<1>2. (0 * m + t) % m = t /\ (0 * m + t) \div m = 0
  BY Quotient
<1> QED
  BY <1>1, <1>2

(* A quotient is below b when the number is below a * b. *)
LEMMA QuotientBelow ==
    ASSUME NEW a \in Nat \ {0}, NEW b \in Nat, NEW v \in Nat
    PROVE  v < a * b <=> v \div a < b
<1> DEFINE q == v \div a
           r == v % a
<1>1. q \in Nat /\ r \in 0 .. a - 1 /\ v = q * a + r
  BY NatDivision, Zenon
<1> HIDE DEF q, r
<1>2. ASSUME q < b PROVE v < a * b
  <2>1. (q + 1) * a <= b * a
    BY <1>1, <1>2
  <2>2. (q + 1) * a = q * a + a /\ b * a = a * b
    BY <1>1
  <2> QED
    BY <1>1, <2>1, <2>2
<1>3. ASSUME b <= q PROVE a * b <= v
  <2>1. b * a <= q * a /\ b * a = a * b
    BY <1>1, <1>3
  <2> QED
    BY <1>1, <2>1
<1>4. a * b \in Nat
  OBVIOUS
<1>5. q < b <=> v < a * b
  BY <1>1, <1>2, <1>3, <1>4
<1> QED
  BY <1>5 DEF q

(* Dividing twice, and what it leaves. *)
LEMMA DivideTwice ==
    ASSUME NEW a \in Nat \ {0}, NEW b \in Nat \ {0}, NEW v \in Nat
    PROVE  /\ (v \div a) \div b = v \div (a * b)
           /\ v % (a * b) = (v % a) + ((v \div a) % b) * a
<1> DEFINE q == v \div a
           r == v % a
           p == q \div b
           s == q % b
           m == a * b
           t == r + s * a
<1>1. q \in Nat /\ r \in 0 .. a - 1 /\ v = q * a + r
  BY NatDivision, Zenon
<1> HIDE DEF q, r
<1>2. p \in Nat /\ s \in 0 .. b - 1 /\ q = p * b + s
  BY <1>1, NatDivision, Zenon
<1> HIDE DEF p, s
<1>3. m \in Nat \ {0}
  OBVIOUS
<1>4. t \in 0 .. m - 1
  <2>1. (s + 1) * a <= b * a
    BY <1>2
  <2>2. (s + 1) * a = s * a + a /\ b * a = m /\ s * a \in Nat
    BY <1>2
  <2> QED
    BY <1>1, <1>3, <2>1, <2>2
<1>5. v = p * m + t
  <2>1. q * a = (p * b) * a + s * a
    BY <1>2
  <2>2. (p * b) * a = p * m
    BY <1>2
  <2> QED
    BY <1>1, <1>2, <2>1, <2>2
<1> HIDE DEF m, t
<1>6. v % m = t /\ v \div m = p
  BY <1>2, <1>3, <1>4, <1>5, Quotient
<1> QED
  BY <1>6 DEF m, t, p, s, q, r

-----------------------------------------------------------------------------
(* Sums of exponents. *)
LEMMA PowerOfSum ==
    ASSUME NEW a \in Nat, NEW b \in Nat
    PROVE  Pow2(a + b) = Pow2(a) * Pow2(b)
<1> DEFINE S == {k \in Nat : Pow2(a + k) = Pow2(a) * Pow2(k)}
<1>0. \A x \in Nat \ {0} : x * 1 = x
  OBVIOUS
<1>1. 0 \in S
  <2>1. Pow2(0) = 1 /\ Pow2(a) \in Nat \ {0} /\ a + 0 = a
    BY Powers
  <2> QED
    BY <1>0, <2>1
<1>2. ASSUME NEW k \in S PROVE k + 1 \in S
  <2>1. k \in Nat /\ Pow2(a + k) = Pow2(a) * Pow2(k)
    BY <1>2
  <2>2. a + k \in Nat /\ a + (k + 1) = (a + k) + 1
    BY <2>1
  <2>3. /\ Pow2(a) \in Nat \ {0} /\ Pow2(k) \in Nat \ {0}
        /\ Pow2(k + 1) = 2 * Pow2(k) /\ Pow2((a + k) + 1) = 2 * Pow2(a + k)
    BY <2>1, <2>2, Powers
  <2>4. \A x, y \in Nat : 2 * (x * y) = x * (2 * y)
    OBVIOUS
  <2>5. Pow2(a + (k + 1)) = Pow2(a) * Pow2(k + 1)
    BY <2>1, <2>2, <2>3, <2>4
  <2> QED
    BY <2>1, <2>5
<1>3. S \in SUBSET Nat
  OBVIOUS
<1>4. S = Nat
  <2> HIDE DEF S
  <2> QED
    BY <1>1, <1>2, <1>3, Induction
<1> QED
  BY <1>4

(* A larger exponent gives a larger power. *)
LEMMA PowerGrows ==
    ASSUME NEW a \in Nat, NEW b \in Nat, a <= b
    PROVE  Pow2(a) <= Pow2(b)
<1> DEFINE c == b - a
<1>1. c \in Nat /\ a + c = b
  OBVIOUS
<1> HIDE DEF c
<1>2. Pow2(b) = Pow2(a) * Pow2(c)
  BY <1>1, PowerOfSum, Zenon
<1>3. Pow2(a) \in Nat \ {0} /\ Pow2(c) \in Nat \ {0}
  BY <1>1, Powers
<1>4. \A x, y \in Nat \ {0} : x <= x * y
  OBVIOUS
<1> QED
  BY <1>2, <1>3, <1>4

(* Every number has a power above it. *)
LEMMA PowerAbove ==
    ASSUME NEW n \in Nat
    PROVE  n < Pow2(n)
<1> DEFINE S == {k \in Nat : k < Pow2(k)}
<1>1. 0 \in S
  BY Powers
<1>2. ASSUME NEW k \in S PROVE k + 1 \in S
  <2>1. k \in Nat /\ k < Pow2(k)
    BY <1>2
  <2>2. Pow2(k) \in Nat \ {0} /\ Pow2(k + 1) = 2 * Pow2(k)
    BY <2>1, Powers
  <2> QED
    BY <2>1, <2>2
<1>3. S \in SUBSET Nat
  OBVIOUS
<1>4. S = Nat
  <2> HIDE DEF S
  <2> QED
    BY <1>1, <1>2, <1>3, Induction
<1> QED
  BY <1>4

-----------------------------------------------------------------------------
(* A mask of one bit. *)
LEMMA OneBit ==
    ASSUME NEW x \in Nat, NEW j \in Nat
    PROVE  /\ Field(x, j, 1) = (x \div Pow2(j)) % 2 /\ Field(x, j, 1) \in 0 .. 1
           /\ x \div Pow2(j) \in Nat
<1>1. Pow2(1) = 2 /\ Pow2(j) \in Nat \ {0}
  <2>1. 0 \in Nat /\ 0 + 1 = 1
    OBVIOUS
  <2>2. Pow2(0) = 1 /\ Pow2(0 + 1) = 2 * Pow2(0)
    BY <2>1, Powers
  <2>3. Pow2(j) \in Nat \ {0}
    BY Powers
  <2> QED
    BY <2>1, <2>2, <2>3
<1>2. x \div Pow2(j) \in Nat
  BY <1>1, NatDivision, Zenon
<1> DEFINE q == x \div Pow2(j)
<1>3. Field(x, j, 1) = q % 2
  BY <1>1, Zenon DEF Field
<1> HIDE DEF q
<1>4. q % 2 \in 0 .. 1
  BY <1>2 DEF q
<1> QED
  BY <1>2, <1>3, <1>4 DEF q

(* The bits of a number put together from a upper and a lower part. *)
LEMMA Parts ==
    ASSUME NEW a \in Nat, NEW lo \in 0 .. Pow2(a) - 1, NEW y \in Nat, NEW j \in Nat
    PROVE  /\ y * Pow2(a) + lo \in Nat
           /\ j < a => Field(y * Pow2(a) + lo, j, 1) = Field(lo, j, 1)
           /\ j >= a => Field(y * Pow2(a) + lo, j, 1) = Field(y, j - a, 1)
<1> DEFINE x == y * Pow2(a) + lo
<1>1. Pow2(a) \in Nat \ {0} /\ Pow2(j) \in Nat \ {0} /\ lo \in Nat
  BY Powers
<1>2. x \in Nat /\ x \div Pow2(a) = y
  <2>1. y \in Int /\ y * Pow2(a) \in Nat
    BY <1>1
  <2>2. x \div Pow2(a) = y
    BY <1>1, <2>1, Quotient
  <2> QED
    BY <1>1, <2>1, <2>2
<1> HIDE DEF x
<1>3. ASSUME j >= a PROVE Field(x, j, 1) = Field(y, j - a, 1)
  <2> DEFINE c == j - a
  <2>1. c \in Nat /\ a + c = j
    BY <1>3
  <2> HIDE DEF c
  <2>2. Pow2(j) = Pow2(a) * Pow2(c) /\ Pow2(c) \in Nat \ {0}
    BY <2>1, PowerOfSum, Powers, Zenon
  <2>3. (x \div Pow2(a)) \div Pow2(c) = x \div (Pow2(a) * Pow2(c))
    BY <1>1, <1>2, <2>2, DivideTwice, Zenon
  <2>4. x \div Pow2(j) = y \div Pow2(c)
    BY <1>2, <2>2, <2>3, Zenon
  <2>5. Field(x, j, 1) = (x \div Pow2(j)) % 2 /\ Field(y, c, 1) = (y \div Pow2(c)) % 2
    BY <1>2, <2>1, OneBit, Zenon
  <2> QED
    BY <2>4, <2>5, Zenon DEF c
<1>4. ASSUME j < a PROVE Field(x, j, 1) = Field(lo, j, 1)
  <2> DEFINE c == a - (j + 1)
             q == lo \div Pow2(j)
             r == lo % Pow2(j)
             h == y * Pow2(c)
  <2>1. c \in Nat /\ j + 1 \in Nat /\ (j + 1) + c = a
    BY <1>4
  <2>2. q \in Nat /\ r \in 0 .. Pow2(j) - 1 /\ lo = q * Pow2(j) + r
    BY <1>1, NatDivision, Zenon
  <2> HIDE DEF q, r, c
  <2>3. Pow2(a) = Pow2(j + 1) * Pow2(c) /\ Pow2(j + 1) = 2 * Pow2(j) /\ Pow2(c) \in Nat \ {0}
    BY <2>1, PowerOfSum, Powers, Zenon
  <2>4. h \in Nat /\ y * Pow2(a) = (2 * h) * Pow2(j)
    <3>1. \A p, s \in Nat : y * ((2 * p) * s) = (2 * (y * s)) * p
      OBVIOUS
    <3>2. y * Pow2(a) = (2 * h) * Pow2(j)
      BY <1>1, <2>3, <3>1
    <3> QED
      BY <2>3, <3>2
  <2> HIDE DEF h
  <2>5. x = (2 * h + q) * Pow2(j) + r
    <3>1. \A p \in Nat : (2 * h + q) * p + r = (2 * h) * p + (q * p + r)
      BY <1>1, <2>2, <2>4
    <3>2. (2 * h + q) * Pow2(j) + r = (2 * h) * Pow2(j) + (q * Pow2(j) + r)
      BY <1>1, <3>1
    <3> QED
      BY <2>2, <2>4, <3>2 DEF x
  <2>6. x \div Pow2(j) = 2 * h + q
    <3>1. 2 * h + q \in Int
      BY <2>2, <2>4
    <3>2. ((2 * h + q) * Pow2(j) + r) \div Pow2(j) = 2 * h + q
      BY <1>1, <2>2, <3>1, Quotient, Zenon
    <3> QED
      BY <2>5, <3>2
  <2>7. (2 * h + q) % 2 = q % 2
    BY <2>2, <2>4
  <2>8. Field(x, j, 1) = (x \div Pow2(j)) % 2 /\ Field(lo, j, 1) = (lo \div Pow2(j)) % 2
    BY <1>1, <1>2, OneBit
  <2> QED
    BY <2>6, <2>7, <2>8, Zenon DEF q
<1> QED
  BY <1>2, <1>3, <1>4 DEF x

(* The bits of a field are those of the number. *)
LEMMA BitsOfField ==
    ASSUME NEW x \in Nat, NEW at \in Nat, NEW n \in Nat
    PROVE  /\ Field(x, at, n) \in 0 .. Pow2(n) - 1 /\ Field(x, at, n) \in Nat
           /\ \A k \in 0 .. n - 1 : Field(Field(x, at, n), k, 1) = Field(x, at + k, 1)
<1> DEFINE y == x \div Pow2(at)
           lo == x % Pow2(at)
           q == y \div Pow2(n)
           f == Field(x, at, n)
<1>1. Pow2(at) \in Nat \ {0} /\ Pow2(n) \in Nat \ {0}
  BY Powers
<1>2. y \in Nat /\ lo \in 0 .. Pow2(at) - 1 /\ x = y * Pow2(at) + lo
  BY <1>1, NatDivision, Zenon
<1> HIDE DEF y, lo
<1>3. f = y % Pow2(n)
  BY Zenon DEF Field, y
<1>4. q \in Nat /\ f \in 0 .. Pow2(n) - 1 /\ y = q * Pow2(n) + f
  <2>1. q \in Nat /\ y % Pow2(n) \in 0 .. Pow2(n) - 1 /\ y = q * Pow2(n) + (y % Pow2(n))
    BY <1>1, <1>2, NatDivision, Zenon
  <2> QED
    BY <1>3, <2>1, Zenon
<1> HIDE DEF q, f
<1>5. ASSUME NEW k \in 0 .. n - 1 PROVE Field(f, k, 1) = Field(x, at + k, 1)
  <2>1. k \in Nat /\ k < n /\ at + k \in Nat /\ at + k >= at /\ (at + k) - at = k
    OBVIOUS
  <2>2. Field(q * Pow2(n) + f, k, 1) = Field(f, k, 1)
    BY <1>4, <2>1, Parts
  <2>3. Field(y * Pow2(at) + lo, at + k, 1) = Field(y, (at + k) - at, 1)
    BY <1>2, <2>1, Parts
  <2>4. Field(y, k, 1) = Field(f, k, 1)
    BY <1>4, <2>2, Zenon
  <2>5. Field(x, at + k, 1) = Field(y, (at + k) - at, 1)
    BY <1>2, <2>3, Zenon
  <2> QED
    BY <2>1, <2>4, <2>5
<1>6. f \in Nat
  BY <1>1, <1>4
<1> QED
  BY <1>4, <1>5, <1>6 DEF f

(* A field that is one bit wider. *)
LEMMA MoreBits ==
    ASSUME NEW x \in Nat, NEW at \in Nat, NEW k \in Nat
    PROVE  /\ Field(x, at, 0) = 0
           /\ Field(x, at, k + 1) = Field(x, at, k) + Field(x, at + k, 1) * Pow2(k)
<1> DEFINE y == x \div Pow2(at)
           a == Pow2(k)
<1>1. Pow2(at) \in Nat \ {0} /\ a \in Nat \ {0} /\ Pow2(0) = 1 /\ Pow2(k + 1) = 2 * a
      /\ Pow2(at + k) = Pow2(at) * a /\ at + k \in Nat
  <2>1. Pow2(at + k) = Pow2(at) * a
    BY PowerOfSum
  <2>2. Pow2(at) \in Nat \ {0} /\ a \in Nat \ {0} /\ Pow2(0) = 1 /\ Pow2(k + 1) = 2 * a
    BY Powers
  <2> QED
    BY <2>1, <2>2
<1>2. y \in Nat
  BY <1>1, NatDivision, Zenon
<1>3. Field(x, at, 0) = y % 1 /\ Field(x, at, k + 1) = y % (2 * a) /\ Field(x, at, k) = y % a
  BY <1>1, Zenon DEF Field
<1>4. Field(x, at + k, 1) = (y \div a) % 2
  <2>1. Field(x, at + k, 1) = (x \div Pow2(at + k)) % 2
    BY <1>1, OneBit
  <2>2. (x \div Pow2(at)) \div a = x \div (Pow2(at) * a)
    BY <1>1, DivideTwice, Zenon
  <2> QED
    BY <1>1, <2>1, <2>2, Zenon
<1> HIDE DEF y, a
<1>5. y % (a * 2) = (y % a) + ((y \div a) % 2) * a
  <2>1. 2 \in Nat \ {0}
    OBVIOUS
  <2> QED
    BY <1>1, <1>2, <2>1, DivideTwice, Zenon
<1>6. a * 2 = 2 * a
  BY <1>1
<1>7. y % 1 = 0
  BY <1>2
<1> QED
  BY <1>3, <1>4, <1>5, <1>6, <1>7 DEF a

-----------------------------------------------------------------------------
(* The number that k bits from bit g on make. *)
Number(e, g, k) == Sum([j \in 1 .. k |-> e[g + j - 1] * Pow2(j - 1)], k)

(* It is a number, 0 without bits. *)
LEMMA NumberIsNat ==
    ASSUME NEW e, NEW g \in Nat, NEW k \in Nat, \A j \in 0 .. k - 1 : e[g + j] \in 0 .. 1
    PROVE  Number(e, g, 0) = 0 /\ Number(e, g, k) \in Nat
<1> DEFINE E(m) == [j \in 1 .. m |-> e[g + j - 1] * Pow2(j - 1)]
<1>0. \A m : Number(e, g, m) = Sum(E(m), m)
  BY DEF Number
<1>1. ASSUME NEW i \in 1 .. k PROVE e[g + i - 1] * Pow2(i - 1) \in Nat
  <2>1. i - 1 \in 0 .. k - 1 /\ i - 1 \in Nat /\ g + (i - 1) = g + i - 1
    OBVIOUS
  <2>2. e[g + (i - 1)] \in 0 .. 1 /\ Pow2(i - 1) \in Nat
    BY <2>1, Powers, Zenon
  <2>3. e[g + i - 1] \in Nat
    BY <2>1, <2>2
  <2> QED
    BY <2>2, <2>3
<1>2. \A i \in 1 .. k : E(k)[i] \in Nat
  BY <1>1
<1>3. 0 \in Nat /\ \A i \in 1 .. 0 : E(0)[i] \in Nat
  OBVIOUS
<1> HIDE DEF E
<1>4. Sum(E(0), 0) = 0
  BY <1>3, Sums
<1>5. Sum(E(k), k) \in Nat
  BY <1>2, Sums
<1> QED
  BY <1>0, <1>4, <1>5, Zenon

(* It grows by one bit. *)
LEMMA NumberGrows ==
    ASSUME NEW e, NEW g \in Nat, NEW k \in Nat, \A j \in 0 .. k : e[g + j] \in 0 .. 1
    PROVE  Number(e, g, k + 1) = Number(e, g, k) + e[g + k] * Pow2(k)
<1> DEFINE E(m) == [j \in 1 .. m |-> e[g + j - 1] * Pow2(j - 1)]
           n == k + 1
<1>0. n \in Nat /\ n # 0 /\ n - 1 = k /\ n \in 1 .. n /\ \A m : Number(e, g, m) = Sum(E(m), m)
  BY DEF Number
<1>1. ASSUME NEW i \in 1 .. n PROVE e[g + i - 1] * Pow2(i - 1) \in Nat
  <2>1. i - 1 \in 0 .. k /\ i - 1 \in Nat /\ g + (i - 1) = g + i - 1
    OBVIOUS
  <2>2. e[g + (i - 1)] \in 0 .. 1 /\ Pow2(i - 1) \in Nat
    BY <2>1, Powers, Zenon
  <2>3. e[g + i - 1] \in Nat
    BY <2>1, <2>2
  <2> QED
    BY <2>2, <2>3
<1>2. \A i \in 1 .. n : E(n)[i] \in Nat
  BY <1>1
<1>3. \A i \in 1 .. k : E(n)[i] = E(k)[i] /\ E(k)[i] \in Nat
  BY <1>2
<1>4. E(n)[n] = e[g + k] * Pow2(k)
  <2>1. g + n - 1 = g + k
    BY <1>0, Zenon
  <2> QED
    BY <1>0, <2>1, Zenon
<1> HIDE DEF E, n
<1>5. Sum(E(n), n) = Sum(E(n), n - 1) + E(n)[n]
  BY <1>0, <1>2, Sums
<1>6. Sum(E(n), k) = Sum(E(k), k)
  BY <1>3, Sums
<1> QED
  BY <1>0, <1>4, <1>5, <1>6, Zenon DEF n

(* The n bits after the first c are those of x from bit at on. *)
Gathered(e, g, c, n, x, at) ==
    /\ \A k \in 0 .. c + n - 1 : e[g + k] \in 0 .. 1
    /\ \A k \in 0 .. n - 1 : e[g + c + k] = Field(x, at + k, 1)

(* They are added to the number as a field of x. *)
LEMMA Gather ==
    ASSUME NEW e, NEW g \in Nat, NEW c \in Nat, NEW n \in Nat, NEW x \in Nat, NEW at \in Nat,
           Gathered(e, g, c, n, x, at)
    PROVE  Number(e, g, c + n) = Number(e, g, c) + Field(x, at, n) * Pow2(c)
<1>g. /\ \A k \in 0 .. c + n - 1 : e[g + k] \in 0 .. 1
      /\ \A k \in 0 .. n - 1 : e[g + c + k] = Field(x, at + k, 1)
  BY DEF Gathered
<1> DEFINE S == {k \in Nat : k <= n =>
                   Number(e, g, c + k) = Number(e, g, c) + Field(x, at, k) * Pow2(c)}
<1>0. Pow2(c) \in Nat
  BY Powers
<1>n. Number(e, g, c) \in Nat
  <2>1. \A j \in 0 .. c - 1 : e[g + j] \in 0 .. 1
    BY <1>g
  <2> QED
    BY <2>1, NumberIsNat, Zenon
<1>1. 0 \in S
  <2>1. Field(x, at, 0) = 0
    BY MoreBits
  <2>3. c + 0 = c /\ 0 * Pow2(c) = 0
    BY <1>0
  <2>4. Number(e, g, c + 0) = Number(e, g, c) + Field(x, at, 0) * Pow2(c)
    BY <1>n, <2>1, <2>3
  <2> QED
    BY <2>4
<1>2. ASSUME NEW k \in S PROVE k + 1 \in S
  <2>1. k \in Nat
    BY <1>2
  <2>2. ASSUME k + 1 <= n
        PROVE  Number(e, g, c + (k + 1)) = Number(e, g, c) + Field(x, at, k + 1) * Pow2(c)
    <3> DEFINE d == c + k
               b == Field(x, at + k, 1)
               h == Field(x, at, k)
    <3>1. d \in Nat /\ d + 1 = c + (k + 1) /\ \A j \in 0 .. d : e[g + j] \in 0 .. 1
      BY <1>g, <2>1, <2>2
    <3>2. e[g + d] = b
      <4>1. k \in 0 .. n - 1 /\ g + c + k = g + d
        BY <2>1, <2>2
      <4> QED
        BY <1>g, <4>1
    <3>3. Pow2(d) = Pow2(c) * Pow2(k) /\ Pow2(k) \in Nat
      BY <2>1, PowerOfSum, Powers, Zenon
    <3>4. b \in Nat /\ h \in Nat /\ Field(x, at, k + 1) = h + b * Pow2(k)
      <4>1. at + k \in Nat
        BY <2>1
      <4>2. b \in 0 .. 1
        BY <4>1, OneBit
      <4>3. Field(x, at, k + 1) = h + b * Pow2(k)
        BY <2>1, MoreBits
      <4>4. h \in Nat
        BY <2>1, BitsOfField, Zenon
      <4> QED
        BY <4>2, <4>3, <4>4
    <3>5. Number(e, g, d) = Number(e, g, c) + h * Pow2(c)
      <4>1. k <= n
        BY <2>1, <2>2
      <4> QED
        BY <1>2, <4>1
    <3> HIDE DEF b, h, d
    <3>6. Number(e, g, d + 1) = Number(e, g, d) + e[g + d] * Pow2(d)
      BY <3>1, NumberGrows, Zenon
    <3>7. (h + b * Pow2(k)) * Pow2(c) = h * Pow2(c) + b * (Pow2(c) * Pow2(k))
      BY <1>0, <3>3, <3>4
    <3>8. Number(e, g, d + 1) = (Number(e, g, c) + h * Pow2(c)) + b * (Pow2(c) * Pow2(k))
      BY <3>2, <3>3, <3>5, <3>6, Zenon
    <3>9. h * Pow2(c) \in Nat /\ b * (Pow2(c) * Pow2(k)) \in Nat
      BY <1>0, <3>3, <3>4
    <3>10. \A a, b1, c1 \in Nat : (a + b1) + c1 = a + (b1 + c1)
      OBVIOUS
    <3>11. Number(e, g, d + 1) = Number(e, g, c) + (h * Pow2(c) + b * (Pow2(c) * Pow2(k)))
      BY <1>n, <3>8, <3>9, <3>10
    <3> QED
      BY <3>1, <3>4, <3>7, <3>11, Zenon
  <2> QED
    BY <2>1, <2>2
<1>3. S = Nat
  <2>1. S \in SUBSET Nat
    OBVIOUS
  <2> HIDE DEF S
  <2> QED
    BY <1>1, <1>2, <2>1, Induction
<1>4. n \in S /\ n <= n
  BY <1>3
<1> QED
  BY <1>4

-----------------------------------------------------------------------------
(* A factor can be left out on both sides. *)
LEMMA Cancel ==
    ASSUME NEW a \in Int, NEW b \in Int, NEW P \in Nat \ {0}, a * P = b * P
    PROVE  a = b
OBVIOUS

(* An odd factor has no share in a power of two. *)
LEMMA OddFactor ==
    ASSUME NEW o \in Nat, o % 2 = 1, NEW k \in Nat, NEW d \in Int, NEW q \in Int,
           d * o = q * Pow2(k)
    PROVE  \E e \in Int : d = e * Pow2(k)
<1> DEFINE S == {i \in Nat : \A r \in Int : d * o = r * Pow2(i) => \E e \in Int : d = e * Pow2(i)}
           t == o \div 2
<1>0. t \in Nat /\ o = 2 * t + 1
  OBVIOUS
<1> HIDE DEF t
<1>1. 0 \in S
  <2>1. Pow2(0) = 1 /\ d = d * 1
    BY Powers
  <2> QED
    BY <2>1
<1>2. ASSUME NEW i \in S PROVE i + 1 \in S
  <2>1. i \in Nat /\ Pow2(i) \in Nat \ {0} /\ Pow2(i + 1) = 2 * Pow2(i)
    BY Powers
  <2>2. ASSUME NEW r \in Int, d * o = r * Pow2(i + 1) PROVE \E e \in Int : d = e * Pow2(i + 1)
    <3> DEFINE P == Pow2(i)
    <3>1. P \in Nat \ {0} /\ d * o = r * (2 * P)
      BY <2>1, <2>2
    <3>2. d * o = (2 * r) * P
      BY <3>1
    <3>3. PICK e \in Int : d = e * P
      BY <3>2
    <3> HIDE DEF P
    <3>4. (e * o) * P = (2 * r) * P
      <4>1. (e * P) * o = (e * o) * P
        BY <3>1
      <4> QED
        BY <3>2, <3>3, <4>1
    <3>5. e * o = 2 * r
      <4>1. e * o \in Int /\ 2 * r \in Int
        OBVIOUS
      <4> QED
        BY <3>1, <3>4, <4>1, Cancel
    <3>6. e = 2 * (r - t * e)
      <4>1. e * (2 * t + 1) = 2 * (t * e) + e
        BY <1>0
      <4>2. t * e \in Int /\ 2 * (r - t * e) = 2 * r - 2 * (t * e)
        BY <1>0
      <4> QED
        BY <1>0, <3>5, <4>1, <4>2
    <3> DEFINE h == r - t * e
    <3>7. h \in Int
      BY <1>0
    <3> HIDE DEF h
    <3>8. d = h * (2 * P)
      <4>1. e = 2 * h
        BY <3>6 DEF h
      <4>2. (2 * h) * P = h * (2 * P)
        BY <3>1, <3>7
      <4> QED
        BY <3>3, <4>1, <4>2, Zenon
    <3>9. d = h * Pow2(i + 1)
      BY <2>1, <3>8 DEF P
    <3> QED
      BY <3>7, <3>9
  <2> QED
    BY <2>1, <2>2
<1>3. S = Nat
  <2>1. S \in SUBSET Nat
    OBVIOUS
  <2> HIDE DEF S
  <2> QED
    BY <1>1, <1>2, <2>1, Induction
<1> QED
  BY <1>3

(* The last digit of a number, and what precedes it, when the digits are   *)
(* less than the base apart.                                               *)
LEMMA LastDigit ==
    ASSUME NEW P \in Nat \ {0}, NEW a \in Int, NEW b \in Int, NEW r \in Int, NEW s \in Int,
           a - b < P, b - a < P, a + P * r = b + P * s
    PROVE  a = b /\ r = s
<1>1. a - b = P * (s - r)
  OBVIOUS
<1> DEFINE d == s - r
<1>2. d \in Int /\ a - b = P * d
  BY <1>1
<1> HIDE DEF d
<1>3. ~(d >= 1)
  BY <1>2
<1>4. ~(d <= -1)
  BY <1>2
<1>5. d = 0
  BY <1>2, <1>3, <1>4
<1> QED
  BY <1>2, <1>5 DEF d

(* A number made of bits has them. *)
LEMMA NumberBits ==
    ASSUME NEW e, NEW w \in Nat, \A j \in 0 .. w - 1 : e[j] \in 0 .. 1
    PROVE  /\ Number(e, 0, w) \in 0 .. Pow2(w) - 1
           /\ \A j \in 0 .. w - 1 : Field(Number(e, 0, w), j, 1) = e[j]
<1> DEFINE Good(k) == /\ Number(e, 0, k) \in 0 .. Pow2(k) - 1
                      /\ \A j \in 0 .. k - 1 : Field(Number(e, 0, k), j, 1) = e[j]
           S == {k \in Nat : k <= w => Good(k)}
<1>1. 0 \in S
  <2>1. 0 \in Nat /\ \A j \in 0 .. 0 - 1 : e[0 + j] \in 0 .. 1
    OBVIOUS
  <2>2. Number(e, 0, 0) = 0
    BY <2>1, NumberIsNat
  <2>3. Pow2(0) = 1
    BY Powers
  <2> QED
    BY <2>2, <2>3
<1>2. ASSUME NEW k \in S PROVE k + 1 \in S
  <2> SUFFICES ASSUME k + 1 <= w PROVE Good(k + 1)
    OBVIOUS
  <2>1. k \in Nat /\ k + 1 \in Nat /\ 0 \in Nat /\ k <= w /\ 0 + k = k
    OBVIOUS
  <2> DEFINE n == Number(e, 0, k)
             b == e[k]
             P == Pow2(k)
  <2>2. n \in 0 .. P - 1 /\ \A j \in 0 .. k - 1 : Field(n, j, 1) = e[j]
    BY <2>1
  <2>3. b \in 0 .. 1 /\ b \in Nat
    BY <2>1
  <2>4. P \in Nat \ {0} /\ Pow2(k + 1) = 2 * P
    BY <2>1, Powers
  <2>5. Number(e, 0, k + 1) = b * P + n
    <3>1. \A j \in 0 .. k : e[0 + j] \in 0 .. 1
      BY <2>1
    <3>2. Number(e, 0, k + 1) = Number(e, 0, k) + e[0 + k] * Pow2(k)
      BY <2>1, <3>1, NumberGrows
    <3>3. n \in Int /\ b * P \in Int
      BY <2>2, <2>3, <2>4
    <3>4. n + b * P = b * P + n
      BY <3>3
    <3> QED
      BY <2>1, <3>2, <3>4, Zenon
  <2> HIDE DEF n, b
  <2>6. ASSUME NEW j \in 0 .. k PROVE Field(b * P + n, j, 1) = e[j]
    <3>1. j \in Nat
      BY <2>1
    <3>2. /\ j < k => Field(b * P + n, j, 1) = Field(n, j, 1)
          /\ j >= k => Field(b * P + n, j, 1) = Field(b, j - k, 1)
      BY <2>1, <2>2, <2>3, <3>1, Parts
    <3>3. CASE j < k
      <4>1. j \in 0 .. k - 1
        BY <2>1, <3>3
      <4> QED
        BY <2>2, <3>2, <3>3, <4>1, Zenon
    <3>4. CASE j = k
      <4>1. j >= k /\ j - k = 0
        BY <2>1, <3>4
      <4>2. Field(b, 0, 1) = b
        <5>1. Field(b, 0, 1) = (b \div Pow2(0)) % 2 /\ Pow2(0) = 1
          BY <2>1, <2>3, OneBit, Powers
        <5>2. (b \div 1) % 2 = b
          BY <2>3
        <5> QED
          BY <5>1, <5>2, Zenon
      <4>3. Field(b * P + n, j, 1) = b
        BY <3>2, <4>1, <4>2, Zenon
      <4> QED
        BY <3>4, <4>3 DEF b
    <3> QED
      BY <2>1, <3>3, <3>4
  <2>7. b * P + n \in 0 .. 2 * P - 1
    <3>1. b = 0 \/ b = 1
      BY <2>3
    <3> QED
      BY <2>2, <2>4, <3>1
  <2>8. \A j \in 0 .. (k + 1) - 1 : Field(b * P + n, j, 1) = e[j]
    BY <2>1, <2>6
  <2> HIDE DEF P
  <2> QED
    BY <2>4, <2>5, <2>7, <2>8, Zenon
<1>3. S = Nat
  <2>1. S \in SUBSET Nat
    OBVIOUS
  <2> HIDE DEF S
  <2> QED
    BY <1>1, <1>2, <2>1, Induction
<1>4. w \in S /\ w <= w
  BY <1>3
<1> QED
  BY <1>4
(* Numbers of w bits are equal if their bits are. *)
LEMMA SameBits ==
    ASSUME NEW w \in Nat, NEW p \in 0 .. Pow2(w) - 1, NEW q \in 0 .. Pow2(w) - 1,
           \A j \in 0 .. w - 1 : Field(p, j, 1) = Field(q, j, 1)
    PROVE  p = q
<1> DEFINE e == [j \in 0 .. w - 1 |-> Field(p, j, 1)]
<1>0. /\ Pow2(w) \in Nat \ {0} /\ Pow2(0) = 1
      /\ 0 \in Nat /\ 0 + w = w
  BY Powers
<1>1. ASSUME NEW x \in 0 .. Pow2(w) - 1, \A j \in 0 .. w - 1 : Field(x, j, 1) = e[j]
      PROVE  Number(e, 0, w) = x
  <2>1. x \in Nat
    BY <1>0
  <2>2. \A k \in 0 .. 0 + w - 1 : e[0 + k] \in 0 .. 1
    <3> SUFFICES ASSUME NEW k \in 0 .. w - 1 PROVE e[k] \in 0 .. 1
      BY <1>0
    <3>1. k \in Nat
      OBVIOUS
    <3>2. Field(x, k, 1) \in 0 .. 1
      BY <2>1, <3>1, OneBit
    <3> QED
      BY <1>1, <3>2, Zenon
  <2>3. \A k \in 0 .. w - 1 : e[0 + 0 + k] = Field(x, 0 + k, 1)
    <3> SUFFICES ASSUME NEW k \in 0 .. w - 1 PROVE e[0 + 0 + k] = Field(x, 0 + k, 1)
      OBVIOUS
    <3>1. 0 + 0 + k = k /\ 0 + k = k
      OBVIOUS
    <3> QED
      BY <1>1, <3>1, Zenon
  <2> HIDE DEF e
  <2>4. Gathered(e, 0, 0, w, x, 0)
    BY <2>2, <2>3, Zenon DEF Gathered
  <2>5. Number(e, 0, 0 + w) = Number(e, 0, 0) + Field(x, 0, w) * Pow2(0)
    BY <1>0, <2>1, <2>4, Gather
  <2>6. Number(e, 0, 0) = 0
    <3>1. \A j \in 0 .. 0 - 1 : e[0 + j] \in 0 .. 1
      OBVIOUS
    <3> QED
      BY <1>0, <3>1, NumberIsNat
  <2>7. Field(x, 0, w) = x
    <3>1. x \div 1 = x
      BY <2>1
    <3>2. x % Pow2(w) = x
      BY <1>0, Small
    <3> QED
      BY <1>0, <3>1, <3>2, Zenon DEF Field
  <2>8. 0 + x * 1 = x
    BY <2>1
  <2> QED
    BY <1>0, <2>5, <2>6, <2>7, <2>8, Zenon
<1>2. \A j \in 0 .. w - 1 : Field(p, j, 1) = e[j] /\ Field(q, j, 1) = e[j]
  BY Zenon
<1> HIDE DEF e
<1>3. Number(e, 0, w) = p /\ Number(e, 0, w) = q
  BY <1>1, <1>2
<1> QED
  BY <1>3, Zenon

(* The bits of a number shifted to the right *)
LEMMA ShiftedBit ==
    ASSUME NEW p \in Nat, NEW s \in Nat, NEW j \in Nat
    PROVE  Field(p \div Pow2(s), j, 1) = Field(p, s + j, 1)
<1>0. Pow2(s) \in Nat \ {0} /\ Pow2(j) \in Nat \ {0} /\ s + j \in Nat
  BY Powers
<1>5. p \div Pow2(s) \in Nat
  BY <1>0, NatDivision
<1>1. Field(p \div Pow2(s), j, 1) = ((p \div Pow2(s)) \div Pow2(j)) % 2
  BY <1>5, OneBit
<1>2. Field(p, s + j, 1) = (p \div Pow2(s + j)) % 2
  BY <1>0, OneBit
<1>3. (p \div Pow2(s)) \div Pow2(j) = p \div (Pow2(s) * Pow2(j))
  BY <1>0, DivideTwice, Zenon
<1>4. Pow2(s + j) = Pow2(s) * Pow2(j)
  BY PowerOfSum
<1> QED
  BY <1>1, <1>2, <1>3, <1>4, Zenon

(* A word shifted to the right is one, and has no bits past its width. *)
LEMMA Shifted ==
    ASSUME NEW w \in Nat, NEW p \in 0 .. Pow2(w) - 1, NEW s \in Nat, NEW j \in Nat
    PROVE  /\ p \div Pow2(s) \in 0 .. Pow2(w) - 1
           /\ j >= w => Field(p, j, 1) = 0
<1>0. /\ Pow2(w) \in Nat \ {0} /\ Pow2(s) \in Nat \ {0} /\ Pow2(j) \in Nat \ {0}
      /\ s + j \in Nat
  BY Powers
<1>1. p \in Nat
  BY <1>0
<1>2. p \div Pow2(s) \in Nat /\ p \div Pow2(s) <= p
  <2> DEFINE P == Pow2(s)
             d == p \div P
  <2>1. P \in Nat \ {0}
    BY <1>0
  <2>2. d \in Nat /\ p = d * P + (p % P) /\ p % P \in 0 .. P - 1
    BY <1>1, <2>1, NatDivision, Zenon
  <2> HIDE DEF P, d
  <2>3. d <= d * P
    BY <2>1, <2>2
  <2>4. d * P \in Nat /\ p % P \in Nat
    BY <2>1, <2>2
  <2>5. d \in Nat /\ d <= p
    BY <1>1, <2>2, <2>3, <2>4
  <2> QED
    BY <2>5 DEF d, P
<1>3. p \div Pow2(s) \in 0 .. Pow2(w) - 1
  <2> DEFINE d == p \div Pow2(s)
             W == Pow2(w)
  <2>1. d \in Nat /\ d <= p /\ W \in Nat /\ p \in 0 .. W - 1
    BY <1>0, <1>2
  <2> HIDE DEF d, W
  <2>2. d \in 0 .. W - 1
    BY <2>1
  <2> QED
    BY <2>2 DEF d, W
<1>5. ASSUME j >= w PROVE Field(p, j, 1) = 0
  <2>1. Pow2(w) <= Pow2(j)
    BY <1>5, PowerGrows
  <2>2. p \in 0 .. Pow2(j) - 1
    BY <1>0, <1>1, <2>1
  <2>3. p \div Pow2(j) = 0
    BY <1>0, <2>2, Small
  <2>4. Field(p, j, 1) = (p \div Pow2(j)) % 2
    BY <1>1, OneBit
  <2>5. 0 % 2 = 0
    OBVIOUS
  <2> QED
    BY <2>3, <2>4, <2>5, Zenon
<1> QED
  BY <1>3, <1>5

-----------------------------------------------------------------------------
(* Four digits in base P *)
Digits4(P, c0, c1, c2, c3) == c0 + c1 * P + c2 * (P * P) + c3 * ((P * P) * P)

(* The same number, nested *)
Nested4(P, c0, c1, c2, c3) == c0 + P * (c1 + P * (c2 + P * c3))

(* Nested or not, the digits make the same number. *)
LEMMA Horner ==
    ASSUME NEW P \in Nat \ {0}, NEW c0, NEW c1, NEW c2, NEW c3,
           c0 \in Int /\ c1 \in Int /\ c2 \in Int /\ c3 \in Int
    PROVE  Digits4(P, c0, c1, c2, c3) = Nested4(P, c0, c1, c2, c3)
<1>1. P * (c2 + P * c3) = c2 * P + c3 * (P * P)
  OBVIOUS
<1>2. (c3 * (P * P)) * P = c3 * ((P * P) * P) /\ (c2 * P) * P = c2 * (P * P)
  OBVIOUS
<1>3. P * (c1 + (c2 * P + c3 * (P * P))) = c1 * P + (c2 * P) * P + (c3 * (P * P)) * P
  OBVIOUS
<1> DEFINE t1 == c1 * P
           t2 == c2 * (P * P)
           t3 == c3 * ((P * P) * P)
<1>4. t1 \in Int /\ t2 \in Int /\ t3 \in Int
  OBVIOUS
<1>5. P * (c1 + P * (c2 + P * c3)) = t1 + t2 + t3
  BY <1>1, <1>2, <1>3, Zenon
<1> HIDE DEF t1, t2, t3
<1>6. c0 + t1 + t2 + t3 = c0 + (t1 + t2 + t3)
  BY <1>4
<1> QED
  BY <1>5, <1>6, Zenon DEF t1, t2, t3, Digits4, Nested4

(* Digits each less than the base apart *)
Near(P, c, d) == c \in Int /\ d \in Int /\ c - d < P /\ d - c < P

(* They can be told from their sum. *)
LEMMA FourDigits ==
    ASSUME NEW P \in Nat \ {0},
           NEW c0, NEW c1, NEW c2, NEW c3, NEW d0, NEW d1, NEW d2, NEW d3,
           Near(P, c0, d0), Near(P, c1, d1), Near(P, c2, d2), Near(P, c3, d3),
           Digits4(P, c0, c1, c2, c3) = Digits4(P, d0, d1, d2, d3)
    PROVE  c0 = d0 /\ c1 = d1 /\ c2 = d2 /\ c3 = d3
<1>1. ASSUME NEW x, NEW y, NEW r \in Int, NEW s \in Int, Near(P, x, y), x + P * r = y + P * s
      PROVE  x = y /\ r = s
  <2>1. x \in Int /\ y \in Int /\ x - y < P /\ y - x < P
    BY <1>1 DEF Near
  <2> QED
    BY <1>1, <2>1, LastDigit
<1>2. /\ c0 \in Int /\ c1 \in Int /\ c2 \in Int /\ c3 \in Int
      /\ d0 \in Int /\ d1 \in Int /\ d2 \in Int /\ d3 \in Int
  BY DEF Near
<1> DEFINE u == c2 + P * c3
           v == d2 + P * d3
           p == c1 + P * u
           q == d1 + P * v
<1>3. c0 + P * p = d0 + P * q
  <2>1. Digits4(P, c0, c1, c2, c3) = Nested4(P, c0, c1, c2, c3)
    BY <1>2, Horner
  <2>2. Digits4(P, d0, d1, d2, d3) = Nested4(P, d0, d1, d2, d3)
    BY <1>2, Horner
  <2> QED
    BY <2>1, <2>2, Zenon DEF Nested4
<1>4. u \in Int /\ v \in Int
  BY <1>2
<1>5. p \in Int /\ q \in Int
  BY <1>2, <1>4
<1> HIDE DEF p, q
<1>6. c0 = d0 /\ p = q
  BY <1>1, <1>3, <1>5
<1>7. c1 + P * u = d1 + P * v
  BY <1>6, Zenon DEF p, q
<1> HIDE DEF u, v
<1>8. c1 = d1 /\ u = v
  BY <1>1, <1>4, <1>7
<1>9. c2 + P * c3 = d2 + P * d3
  BY <1>8, Zenon DEF u, v
<1>10. c2 = d2 /\ c3 = d3
  BY <1>1, <1>2, <1>9, Zenon
<1> QED
  BY <1>6, <1>8, <1>10
(* A digit less than the base apart, before numbers that are near. *)
LEMMA NearAppend ==
    ASSUME NEW P \in Nat \ {0}, NEW N \in Nat \ {0}, NEW c, NEW d, NEW u, NEW v,
           Near(P, c, d), Near(N, u, v)
    PROVE  Near(N * P, c + P * u, d + P * v)
<1>1. /\ c \in Int /\ d \in Int /\ c - d < P /\ d - c < P
      /\ u \in Int /\ v \in Int /\ u - v < N /\ v - u < N
  BY DEF Near
<1> DEFINE y == u - v
           PN == N * P
           Pu == P * u
           Pv == P * v
           Py == P * y
<1>2. y \in Int /\ N - 1 - y \in Nat /\ N - 1 + y \in Nat
  BY <1>1
<1>3. PN \in Int /\ Pu \in Int /\ Pv \in Int /\ Py \in Int /\ Pu - Pv = Py
  BY <1>1
<1> HIDE DEF y
<1>4. P * (N - 1 - y) \in Nat /\ P * (N - 1 - y) = PN - P - Py
  BY <1>2
<1>5. P * (N - 1 + y) \in Nat /\ P * (N - 1 + y) = PN - P + Py
  BY <1>2
<1> HIDE DEF PN, Pu, Pv, Py
<1>6. PN - P - Py >= 0 /\ PN - P + Py >= 0
  BY <1>4, <1>5
<1>7. /\ c + Pu \in Int /\ d + Pv \in Int
      /\ (c + Pu) - (d + Pv) < PN /\ (d + Pv) - (c + Pu) < PN
  BY <1>1, <1>3, <1>6
<1> QED
  BY <1>7, Zenon DEF Near, PN, Pu, Pv

(* Numbers of four near digits are near. *)
LEMMA DigitsNear ==
    ASSUME NEW P \in Nat \ {0},
           NEW c0, NEW c1, NEW c2, NEW c3, NEW d0, NEW d1, NEW d2, NEW d3,
           Near(P, c0, d0), Near(P, c1, d1), Near(P, c2, d2), Near(P, c3, d3)
    PROVE  Near(((P * P) * P) * P, Digits4(P, c0, c1, c2, c3), Digits4(P, d0, d1, d2, d3))
<1>1. P * P \in Nat \ {0} /\ (P * P) * P \in Nat \ {0}
  OBVIOUS
<1>2. Near(P * P, c2 + P * c3, d2 + P * d3)
  BY NearAppend
<1>3. Near((P * P) * P, c1 + P * (c2 + P * c3), d1 + P * (d2 + P * d3))
  BY <1>1, <1>2, NearAppend
<1>4. Near(((P * P) * P) * P, c0 + P * (c1 + P * (c2 + P * c3)), d0 + P * (d1 + P * (d2 + P * d3)))
  BY <1>1, <1>3, NearAppend
<1>5. /\ c0 \in Int /\ c1 \in Int /\ c2 \in Int /\ c3 \in Int
      /\ d0 \in Int /\ d1 \in Int /\ d2 \in Int /\ d3 \in Int
  BY DEF Near
<1>6. Digits4(P, c0, c1, c2, c3) = Nested4(P, c0, c1, c2, c3)
  BY <1>5, Horner
<1>7. Digits4(P, d0, d1, d2, d3) = Nested4(P, d0, d1, d2, d3)
  BY <1>5, Horner
<1> QED
  BY <1>4, <1>6, <1>7, Zenon DEF Nested4
=============================================================================
