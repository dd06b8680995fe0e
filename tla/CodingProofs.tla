---------------------------- MODULE CodingProofs ----------------------------
(***************************************************************************)
(* What is put is what is got, for every width of bytes and integers, for  *)
(* records of any length and wherever they are cut.                        *)
(***************************************************************************)
EXTENDS CodingStream, ArithmeticProofs

(* The flag bit and the byte. *)
LEMMA Flag ==
    /\ G \in Nat \ {0} /\ B \in Nat \ {0} /\ B >= 2
    /\ Pow2(G + 1) = 2 * B /\ 2 * B \in Nat \ {0}
<1>1. G \in Nat \ {0} /\ G \in Nat /\ 1 <= G /\ 1 \in Nat /\ 0 \in Nat /\ 0 + 1 = 1
  BY WidthAssumption
<1>2. Pow2(1) = 2
  <2>1. Pow2(0) = 1 /\ Pow2(0 + 1) = 2 * Pow2(0)
    BY <1>1, Powers
  <2> QED
    BY <1>1, <2>1
<1>3. Pow2(G) \in Nat \ {0} /\ Pow2(G + 1) = 2 * Pow2(G)
  BY <1>1, Powers
<1>4. Pow2(1) <= Pow2(G)
  BY <1>1, PowerGrows
<1> QED
  BY <1>1, <1>2, <1>3, <1>4 DEF B

(* One group more shifts by one flag. *)
LEMMA NextGroup ==
    ASSUME NEW w \in Nat, NEW k \in Nat
    PROVE  /\ w * k \in Nat /\ w * (k + 1) = w + w * k
           /\ Pow2(w * (k + 1)) = Pow2(w) * Pow2(w * k)
           /\ Pow2(w * k) \in Nat \ {0}
<1>1. w * k \in Nat /\ w * (k + 1) = w + w * k
  OBVIOUS
<1> DEFINE m == w * k
<1>2. Pow2(w + m) = Pow2(w) * Pow2(m) /\ Pow2(m) \in Nat \ {0}
  <2>1. m \in Nat
    BY <1>1
  <2> HIDE DEF m
  <2> QED
    BY <2>1, PowerOfSum, Powers, Zenon
<1> QED
  BY <1>1, <1>2

-----------------------------------------------------------------------------
(* The number of groups of G bits that a number needs. *)
Fits(v, k) == v < Pow2(G * k) /\ \A j \in 1 .. k - 1 : v >= Pow2(G * j)

Groups(v) == CHOOSE k \in Nat \ {0} : Fits(v, k)

(* There is such a number, and only one. *)
LEMMA GroupsExist ==
    ASSUME NEW v \in Nat
    PROVE  /\ Groups(v) \in Nat \ {0} /\ Fits(v, Groups(v))
           /\ \A k \in Nat \ {0} : Fits(v, k) => k = Groups(v)
<1> DEFINE S == {k \in Nat \ {0} : v < Pow2(G * k)}
<1>1. S \in SUBSET Nat
  OBVIOUS
<1>2. S # {}
  <2>1. G \in Nat \ {0} /\ v + 1 \in Nat \ {0}
    BY WidthAssumption
  <2>2. G * (v + 1) \in Nat /\ v <= G * (v + 1)
    BY <2>1
  <2> DEFINE m == G * (v + 1)
  <2> HIDE DEF m
  <2>3. m \in Nat /\ v <= m
    BY <2>2 DEF m
  <2>4. v < Pow2(v) /\ Pow2(v) <= Pow2(m) /\ Pow2(v) \in Nat /\ Pow2(m) \in Nat
    BY <2>3, PowerAbove, PowerGrows, Powers, Zenon
  <2>5. v < Pow2(m)
    BY <2>4
  <2> QED
    BY <2>1, <2>5, Zenon DEF m
<1> HIDE DEF S
<1>3. PICK k \in S : \A y \in S : k <= y
  BY <1>1, <1>2, Least
<1>4. k \in Nat \ {0} /\ v < Pow2(G * k)
  BY <1>3 DEF S
<1>5. \A j \in 1 .. k - 1 : v >= Pow2(G * j)
  <2> SUFFICES ASSUME NEW j \in 1 .. k - 1 PROVE v >= Pow2(G * j)
    OBVIOUS
  <2>1. j \in Nat /\ j \in Nat \ {0} /\ ~(k <= j)
    BY <1>4
  <2>2. j \notin S
    BY <1>3, <2>1
  <2>3. ~(v < Pow2(G * j))
    BY <2>1, <2>2 DEF S
  <2>4. Pow2(G * j) \in Nat
    BY <2>1, NextGroup, WidthAssumption
  <2> QED
    BY <2>3, <2>4
<1>6. Fits(v, k)
  BY <1>4, <1>5 DEF Fits
<1>7. Groups(v) \in Nat \ {0} /\ Fits(v, Groups(v))
  BY <1>4, <1>6, Zenon DEF Groups
<1>8. ASSUME NEW a \in Nat \ {0}, NEW b \in Nat \ {0}, Fits(v, a), Fits(v, b)
      PROVE  ~(a < b)
  <2> SUFFICES ASSUME a < b PROVE FALSE
    OBVIOUS
  <2>1. a \in 1 .. b - 1
    OBVIOUS
  <2>2. v < Pow2(G * a) /\ v >= Pow2(G * a)
    BY <1>8, <2>1 DEF Fits
  <2>3. Pow2(G * a) \in Nat
    BY NextGroup, WidthAssumption, Zenon
  <2> QED
    BY <2>2, <2>3
<1> QED
  BY <1>7, <1>8

(* A number without the flag is one group. *)
LEMMA OneGroup ==
    ASSUME NEW v \in Nat, v < B
    PROVE  Groups(v) = 1
<1>1. G * 1 = G /\ 1 \in Nat \ {0} /\ 1 .. 1 - 1 = {}
  BY WidthAssumption
<1>2. Fits(v, 1)
  BY <1>1 DEF Fits, B
<1> QED
  BY <1>1, <1>2, GroupsExist

(* A number with the flag or above has one group more than v >> G. *)
LEMMA MoreGroups ==
    ASSUME NEW v \in Nat, v >= B
    PROVE  /\ v \div B \in Nat /\ v \div B < v
           /\ Groups(v) = Groups(v \div B) + 1
<1> DEFINE q == v \div B
           n == Groups(q)
<1>0. G \in Nat /\ B \in Nat \ {0} /\ B >= 2 /\ B = Pow2(G)
  BY Flag DEF B
<1>1. q \in Nat /\ q < v
  <2>1. q \in Nat /\ v % B \in 0 .. B - 1 /\ v = q * B + (v % B)
    BY <1>0, NatDivision, Zenon
  <2> HIDE DEF q
  <2>2. q * 2 <= q * B
    BY <1>0, <2>1, Products, Zenon
  <2> QED
    BY <1>0, <2>1, <2>2
<1> HIDE DEF q
<1>2. n \in Nat \ {0} /\ q < Pow2(G * n) /\ \A j \in 1 .. n - 1 : q >= Pow2(G * j)
  BY <1>1, GroupsExist DEF Fits
<1> HIDE DEF n
<1>3. \A k \in Nat : v < Pow2(G * (k + 1)) <=> q < Pow2(G * k)
  <2> SUFFICES ASSUME NEW k \in Nat PROVE v < Pow2(G * (k + 1)) <=> q < Pow2(G * k)
    OBVIOUS
  <2>1. Pow2(G * (k + 1)) = B * Pow2(G * k) /\ Pow2(G * k) \in Nat
    BY <1>0, NextGroup, Zenon
  <2>2. v < B * Pow2(G * k) <=> q < Pow2(G * k)
    BY <1>0, <2>1, QuotientBelow DEF q
  <2> QED
    BY <2>1, <2>2
<1>4. v < Pow2(G * (n + 1))
  BY <1>2, <1>3
<1>5. \A j \in 1 .. (n + 1) - 1 : v >= Pow2(G * j)
  <2> SUFFICES ASSUME NEW j \in 1 .. n PROVE v >= Pow2(G * j)
    BY <1>2
  <2>1. CASE j = 1
    <3>1. G * j = G
      BY <1>0, <2>1
    <3> QED
      BY <1>0, <3>1
  <2>2. CASE j # 1
    <3>1. j - 1 \in 1 .. n - 1 /\ j - 1 \in Nat /\ (j - 1) + 1 = j
      BY <1>2, <2>2
    <3>2. q >= Pow2(G * (j - 1)) /\ Pow2(G * (j - 1)) \in Nat /\ Pow2(G * j) \in Nat
      <4>1. q >= Pow2(G * (j - 1))
        BY <1>2, <3>1
      <4>2. j \in Nat
        BY <1>2
      <4> QED
        BY <1>0, <3>1, <4>1, <4>2, NextGroup
    <3>3. ~(q < Pow2(G * (j - 1)))
      BY <1>1, <3>2
    <3>4. ~(v < Pow2(G * j))
      BY <1>3, <3>1, <3>3
    <3> QED
      BY <3>2, <3>4
  <2> QED
    BY <2>1, <2>2
<1>6. n + 1 \in Nat \ {0} /\ Fits(v, n + 1)
  BY <1>2, <1>4, <1>5 DEF Fits
<1>7. Groups(v) = n + 1
  BY <1>6, GroupsExist
<1> QED
  BY <1>1, <1>7 DEF n, q

-----------------------------------------------------------------------------
(* The bytes of a varint, however it was made. *)
Varint(v) ==
    [j \in 1 .. Groups(v) |->
        IF j < Groups(v) THEN B + (Shr(v, G * (j - 1)) % B) ELSE Shr(v, G * (j - 1))]

(* A shift of nothing, and one shift after another. *)
LEMMA Shifts ==
    ASSUME NEW v \in Nat, NEW w \in Nat, NEW k \in Nat
    PROVE  /\ Shr(v, w * k) \in Nat
           /\ Shr(v, w * 0) = v
           /\ Shr(Shr(v, w), w * k) = Shr(v, w * (k + 1))
<1>1. w * k \in Nat /\ w * 0 = 0
  OBVIOUS
<1>2. Pow2(0) = 1 /\ Pow2(w) \in Nat \ {0} /\ Pow2(w * k) \in Nat \ {0}
  BY <1>1, Powers
<1>3. Shr(v, w * k) \in Nat
  BY <1>2, NatDivision DEF Shr
<1>4. Shr(v, w * 0) = v
  BY <1>1, <1>2 DEF Shr
<1>5. Pow2(w * (k + 1)) = Pow2(w) * Pow2(w * k)
  BY NextGroup, Zenon
<1>6. (v \div Pow2(w)) \div Pow2(w * k) = v \div (Pow2(w) * Pow2(w * k))
  BY <1>2, DivideTwice, Zenon
<1> QED
  BY <1>3, <1>4, <1>5, <1>6 DEF Shr

(* The last group is what is left of the number. *)
LEMMA LastGroup ==
    ASSUME NEW v \in Nat
    PROVE  Shr(v, G * (Groups(v) - 1)) \in 0 .. B - 1
<1> DEFINE n == Groups(v)
           k == n - 1
<1>0. G \in Nat /\ B \in Nat \ {0} /\ B = Pow2(G)
  BY Flag DEF B
<1>1. n \in Nat \ {0} /\ v < Pow2(G * n)
  BY GroupsExist DEF Fits
<1> HIDE DEF n
<1>2. k \in Nat /\ k + 1 = n
  BY <1>1
<1> HIDE DEF k
<1>3. Pow2(G * n) = B * Pow2(G * k) /\ Pow2(G * k) \in Nat \ {0}
  BY <1>0, <1>2, NextGroup, Zenon
<1>4. v < Pow2(G * k) * B
  <2>1. \A x, y \in Nat : x * y = y * x
    OBVIOUS
  <2> QED
    BY <1>0, <1>1, <1>3, <2>1
<1>5. v \div Pow2(G * k) < B
  BY <1>0, <1>3, <1>4, QuotientBelow
<1>6. v \div Pow2(G * k) \in Nat
  BY <1>3, NatDivision
<1>7. Shr(v, G * k) \in 0 .. B - 1
  BY <1>0, <1>5, <1>6 DEF Shr
<1> QED
  BY <1>7 DEF k, n

(* Every byte but the last has the flag, and the payloads are the groups.  *)
LEMMA VarintBytes ==
    ASSUME NEW v \in Nat
    PROVE  /\ Varint(v) \in Seq(Byte) /\ Len(Varint(v)) = Groups(v)
           /\ Groups(v) \in Nat \ {0}
           /\ \A j \in 1 .. Groups(v) - 1 : Varint(v)[j] >= B
           /\ Varint(v)[Groups(v)] < B
           /\ \A j \in 1 .. Groups(v) : Payload(Varint(v)[j]) = Shr(v, G * (j - 1)) % B
<1> DEFINE n == Groups(v)
           e == Varint(v)
<1>0. G \in Nat /\ B \in Nat \ {0}
  BY Flag
<1>1. n \in Nat \ {0} /\ Shr(v, G * (n - 1)) \in 0 .. B - 1
  BY GroupsExist, LastGroup
<1>2. e = [j \in 1 .. n |-> IF j < n THEN B + (Shr(v, G * (j - 1)) % B) ELSE Shr(v, G * (j - 1))]
  BY DEF Varint
<1> HIDE DEF n, e
<1>3. \A j \in 1 .. n : Shr(v, G * (j - 1)) \in Nat /\ Shr(v, G * (j - 1)) % B \in 0 .. B - 1
  <2> SUFFICES ASSUME NEW j \in 1 .. n
               PROVE  Shr(v, G * (j - 1)) \in Nat /\ Shr(v, G * (j - 1)) % B \in 0 .. B - 1
    OBVIOUS
  <2>1. j - 1 \in Nat
    BY <1>1
  <2>2. Shr(v, G * (j - 1)) \in Nat
    BY <1>0, <2>1, Shifts, Zenon
  <2> QED
    BY <1>0, <2>2, NatDivision, Zenon
<1>4. \A j \in 1 .. n - 1 : e[j] = B + (Shr(v, G * (j - 1)) % B)
  BY <1>1, <1>2
<1>5. e[n] = Shr(v, G * (n - 1))
  BY <1>1, <1>2
<1>6. \A j \in 1 .. n - 1 : e[j] \in B .. 2 * B - 1
  <2> SUFFICES ASSUME NEW j \in 1 .. n - 1 PROVE e[j] \in B .. 2 * B - 1
    OBVIOUS
  <2>1. j \in 1 .. n
    BY <1>1
  <2>2. Shr(v, G * (j - 1)) % B \in 0 .. B - 1
    BY <1>3, <2>1
  <2>3. e[j] = B + (Shr(v, G * (j - 1)) % B)
    BY <1>4
  <2> QED
    BY <1>0, <2>2, <2>3
<1>7. e[n] \in 0 .. B - 1
  BY <1>1, <1>5
<1>8. \A j \in 1 .. n : e[j] \in Byte
  <2> SUFFICES ASSUME NEW j \in 1 .. n PROVE e[j] \in 0 .. 2 * B - 1
    BY DEF Byte
  <2>1. j = n \/ j \in 1 .. n - 1
    BY <1>1
  <2> QED
    BY <1>0, <1>6, <1>7, <2>1
<1>9. e \in Seq(Byte) /\ Len(e) = n
  BY <1>1, <1>2, <1>8
<1>10. \A j \in 1 .. n : Payload(e[j]) = Shr(v, G * (j - 1)) % B
  <2> SUFFICES ASSUME NEW j \in 1 .. n PROVE e[j] % B = Shr(v, G * (j - 1)) % B
    BY DEF Payload
  <2>1. CASE j = n
    BY <1>5, <2>1
  <2>2. CASE j # n
    <3> DEFINE t == Shr(v, G * (j - 1)) % B
    <3>1. j \in 1 .. n - 1
      BY <1>1, <2>2
    <3>2. e[j] = B + t /\ t \in 0 .. B - 1
      BY <1>3, <1>4, <3>1
    <3> HIDE DEF t
    <3>3. e[j] = 1 * B + t
      BY <1>0, <3>2
    <3>4. (1 * B + t) % B = t
      BY <1>0, <3>2, Remainder
    <3> QED
      BY <3>3, <3>4 DEF t
  <2> QED
    BY <2>1, <2>2
<1>11. \A j \in 1 .. n - 1 : e[j] >= B
  BY <1>0, <1>6
<1>12. e[n] < B
  BY <1>0, <1>7
<1> QED
  BY <1>1, <1>9, <1>10, <1>11, <1>12 DEF e, n

-----------------------------------------------------------------------------
(* A byte before a sequence. *)
LEMMA Prepend ==
    ASSUME NEW S, NEW a \in S, NEW s \in Seq(S)
    PROVE  /\ <<a>> \o s \in Seq(S) /\ Len(<<a>> \o s) = Len(s) + 1
           /\ (<<a>> \o s)[1] = a
           /\ \A j \in 1 .. Len(s) : (<<a>> \o s)[j + 1] = s[j]
OBVIOUS

(* Two sequences with the same elements. *)
LEMMA SameBytes ==
    ASSUME NEW S, NEW s \in Seq(S), NEW t \in Seq(S), NEW n \in Nat, Len(s) = n, Len(t) = n,
           \A j \in 1 .. n : s[j] = t[j]
    PROVE  s = t
OBVIOUS

(* One round of the loop of EncodeVarint64. *)
LEMMA VarintStep ==
    ASSUME NEW v \in Nat
    PROVE  Varint(v) = IF v >= B THEN <<B + (v % B)>> \o Varint(Shr(v, G)) ELSE <<v>>
<1>0. G \in Nat /\ B \in Nat \ {0} /\ B = Pow2(G) /\ Shr(v, G) = v \div B
  BY Flag DEF B, Shr
<1>1. CASE v >= B
  <2> DEFINE q == Shr(v, G)
             n == Groups(q)
             e == Varint(v)
             f == Varint(q)
             a == B + (v % B)
  <2>1. q \in Nat /\ Groups(v) = n + 1
    BY <1>0, <1>1, MoreGroups
  <2>2. /\ n \in Nat \ {0} /\ f \in Seq(Byte) /\ Len(f) = n
        /\ f = [j \in 1 .. n |-> IF j < n THEN B + (Shr(q, G * (j - 1)) % B)
                                          ELSE Shr(q, G * (j - 1))]
    BY <2>1, VarintBytes, Zenon DEF Varint
  <2>3. /\ e \in Seq(Byte) /\ Len(e) = n + 1
        /\ e = [j \in 1 .. n + 1 |-> IF j < n + 1 THEN B + (Shr(v, G * (j - 1)) % B)
                                                  ELSE Shr(v, G * (j - 1))]
    BY <2>1, VarintBytes, Zenon DEF Varint
  <2>4. a \in Byte
    <3>1. v % B \in 0 .. B - 1
      BY <1>0, NatDivision
    <3> QED
      BY <1>0, <3>1 DEF Byte
  <2>5. \A k \in Nat : Shr(q, G * k) = Shr(v, G * (k + 1))
    <3>1. v \in Nat /\ G \in Nat
      BY <1>0
    <3>2. \A k \in Nat : Shr(Shr(v, G), G * k) = Shr(v, G * (k + 1))
      BY <3>1, Shifts, Zenon
    <3> QED
      BY <3>2, Zenon
  <2> HIDE DEF q, n, e, f, a
  <2>6. /\ <<a>> \o f \in Seq(Byte) /\ Len(<<a>> \o f) = n + 1 /\ (<<a>> \o f)[1] = a
        /\ \A j \in 1 .. n : (<<a>> \o f)[j + 1] = f[j]
    BY <2>2, <2>4, Prepend
  <2>7. e[1] = a
    <3>1. 1 \in 1 .. n + 1 /\ 1 < n + 1 /\ 1 - 1 = 0
      BY <2>2
    <3>2. Shr(v, G * 0) = v
      BY <1>0, Shifts
    <3>3. e[1] = B + (Shr(v, G * (1 - 1)) % B)
      BY <2>3, <3>1
    <3> QED
      BY <3>1, <3>2, <3>3 DEF a
  <2>8. ASSUME NEW j \in 1 .. n PROVE e[j + 1] = f[j]
    <3>1. j + 1 \in 1 .. n + 1 /\ (j + 1) - 1 = j /\ j - 1 \in Nat /\ (j - 1) + 1 = j
      BY <2>2
    <3>2. Shr(q, G * (j - 1)) = Shr(v, G * j)
      BY <2>5, <3>1
    <3>3. e[j + 1] = IF j + 1 < n + 1 THEN B + (Shr(v, G * j) % B) ELSE Shr(v, G * j)
      BY <2>3, <3>1
    <3>4. f[j] = IF j < n THEN B + (Shr(v, G * j) % B) ELSE Shr(v, G * j)
      BY <2>2, <3>2
    <3>5. j + 1 < n + 1 <=> j < n
      BY <2>2
    <3> QED
      BY <3>3, <3>4, <3>5
  <2>9. \A j \in 1 .. n + 1 : e[j] = (<<a>> \o f)[j]
    <3> SUFFICES ASSUME NEW j \in 1 .. n + 1 PROVE e[j] = (<<a>> \o f)[j]
      BY Zenon
    <3>1. CASE j = 1
      BY <2>6, <2>7, <3>1
    <3>2. CASE j # 1
      <4>1. j - 1 \in 1 .. n /\ (j - 1) + 1 = j
        BY <2>2, <3>2
      <4>2. e[(j - 1) + 1] = f[j - 1] /\ (<<a>> \o f)[(j - 1) + 1] = f[j - 1]
        BY <2>6, <2>8, <4>1
      <4> QED
        BY <4>1, <4>2, Zenon
    <3> QED
      BY <3>1, <3>2, Zenon
  <2>10. e = <<a>> \o f
    <3>1. n + 1 \in Nat
      BY <2>2
    <3> QED
      BY <2>3, <2>6, <2>9, <3>1, SameBytes
  <2> QED
    BY <1>1, <2>10 DEF e, a, f, q
<1>2. CASE ~(v >= B)
  <2>1. Groups(v) = 1
    BY <1>0, <1>2, OneGroup
  <2>2. Shr(v, G * 0) = v
    BY <1>0, Shifts
  <2>3. Varint(v) = [j \in 1 .. 1 |-> IF j < 1 THEN B + (Shr(v, G * (j - 1)) % B)
                                               ELSE Shr(v, G * (j - 1))]
    BY <2>1 DEF Varint
  <2>4. Varint(v)[1] = v
    <3>1. 1 - 1 = 0 /\ 1 \in 1 .. 1 /\ ~(1 < 1)
      OBVIOUS
    <3>2. Varint(v)[1] = Shr(v, G * (1 - 1))
      BY <2>3, <3>1
    <3> QED
      BY <2>2, <3>1, <3>2
  <2>5. Varint(v) \in Seq(Byte) /\ Len(Varint(v)) = 1
    BY <2>1, VarintBytes, Zenon
  <2> HIDE DEF Varint
  <2>6. Varint(v) = <<v>>
    BY <2>4, <2>5
  <2> QED
    BY <1>2, <2>6
<1> QED
  BY <1>1, <1>2

(* The recursive functions inside EncodeVarint64 and VarintLength. *)
IsEncoder(f) ==
    f = [w \in Nat |-> IF w >= B THEN <<B + (w % B)>> \o f[Shr(w, G)] ELSE <<w>>]

IsLength(f) == f = [w \in Nat |-> IF w >= B THEN 1 + f[Shr(w, G)] ELSE 1]

(* The loop of EncodeVarint64 makes the varint. *)
LEMMA Encoder64 ==
    ASSUME NEW v \in Nat
    PROVE  EncodeVarint64(v) = Varint(v)
<1> DEFINE g == [w \in Nat |-> Varint(w)]
           f == CHOOSE h : IsEncoder(h)
<1>0. \A w \in Nat : w >= B => Shr(w, G) \in Nat /\ Shr(w, G) < w
  BY MoreGroups DEF Shr, B
<1>1. EncodeVarint64(v) = f[v]
  BY Zenon DEF EncodeVarint64, IsEncoder
<1>2. IsEncoder(g)
  <2>1. \A w \in Nat : g[w] = IF w >= B THEN <<B + (w % B)>> \o g[Shr(w, G)] ELSE <<w>>
    BY <1>0, VarintStep
  <2> HIDE DEF g
  <2>2. g = [w \in Nat |-> g[w]]
    BY DEF g
  <2> QED
    BY <2>1, <2>2, Zenon DEF IsEncoder
<1>3. IsEncoder(f)
  <2> HIDE DEF g
  <2> QED
    BY <1>2, Zenon
<1> HIDE DEF f, g
<1> DEFINE S == {w \in Nat : f[w] = Varint(w)}
<1>4. ASSUME NEW w \in Nat, 0 .. w - 1 \subseteq S PROVE w \in S
  <2>1. f[w] = IF w >= B THEN <<B + (w % B)>> \o f[Shr(w, G)] ELSE <<w>>
    BY <1>3, Zenon DEF IsEncoder
  <2>2. w >= B => f[Shr(w, G)] = Varint(Shr(w, G))
    <3> SUFFICES ASSUME w >= B PROVE f[Shr(w, G)] = Varint(Shr(w, G))
      OBVIOUS
    <3>1. Shr(w, G) \in 0 .. w - 1
      BY <1>0
    <3> QED
      BY <1>4, <3>1
  <2>3. f[w] = Varint(w)
    BY <2>1, <2>2, VarintStep, Zenon
  <2> QED
    BY <2>3
<1>5. S \in SUBSET Nat
  OBVIOUS
<1>6. S = Nat
  <2> HIDE DEF S
  <2> QED
    BY <1>4, <1>5, StrongInduction
<1> QED
  BY <1>1, <1>6

(* The loop of VarintLength counts the groups. *)
LEMMA LengthIsGroups ==
    ASSUME NEW v \in Nat
    PROVE  VarintLength(v) = Groups(v)
<1> DEFINE g == [w \in Nat |-> Groups(w)]
           f == CHOOSE h : IsLength(h)
<1>0. \A w \in Nat : w >= B => Shr(w, G) \in Nat /\ Shr(w, G) < w
  BY MoreGroups DEF Shr, B
<1>1. VarintLength(v) = f[v]
  BY Zenon DEF VarintLength, IsLength
<1>s. \A w \in Nat : Groups(w) = IF w >= B THEN 1 + Groups(Shr(w, G)) ELSE 1
  <2> SUFFICES ASSUME NEW w \in Nat
               PROVE  Groups(w) = IF w >= B THEN 1 + Groups(Shr(w, G)) ELSE 1
    OBVIOUS
  <2>1. B \in Nat
    BY Flag
  <2>2. CASE w >= B
    <3>1. Groups(w) = Groups(Shr(w, G)) + 1
      BY <2>2, MoreGroups DEF Shr, B
    <3>2. Groups(Shr(w, G)) \in Nat
      BY <1>0, <2>2, GroupsExist
    <3> QED
      BY <2>2, <3>1, <3>2
  <2>3. CASE ~(w >= B)
    BY <2>1, <2>3, OneGroup
  <2> QED
    BY <2>2, <2>3
<1>2. IsLength(g)
  <2>1. \A w \in Nat : g[w] = IF w >= B THEN 1 + g[Shr(w, G)] ELSE 1
    BY <1>0, <1>s
  <2> HIDE DEF g
  <2>2. g = [w \in Nat |-> g[w]]
    BY DEF g
  <2> QED
    BY <2>1, <2>2, Zenon DEF IsLength
<1>3. IsLength(f)
  <2> HIDE DEF g
  <2> QED
    BY <1>2, Zenon
<1> HIDE DEF f, g
<1> DEFINE S == {w \in Nat : f[w] = Groups(w)}
<1>4. ASSUME NEW w \in Nat, 0 .. w - 1 \subseteq S PROVE w \in S
  <2>1. f[w] = IF w >= B THEN 1 + f[Shr(w, G)] ELSE 1
    BY <1>3, Zenon DEF IsLength
  <2>2. w >= B => f[Shr(w, G)] = Groups(Shr(w, G))
    <3> SUFFICES ASSUME w >= B PROVE f[Shr(w, G)] = Groups(Shr(w, G))
      OBVIOUS
    <3>1. Shr(w, G) \in 0 .. w - 1
      BY <1>0
    <3> QED
      BY <1>4, <3>1
  <2>3. f[w] = Groups(w)
    BY <1>s, <2>1, <2>2
  <2> QED
    BY <2>3
<1>5. S \in SUBSET Nat
  OBVIOUS
<1>6. S = Nat
  <2> HIDE DEF S
  <2> QED
    BY <1>4, <1>5, StrongInduction
<1> QED
  BY <1>1, <1>6

(* A number that fits in n groups needs no more. *)
LEMMA GroupsWithin ==
    ASSUME NEW v \in Nat, NEW n \in Nat \ {0}, v < Pow2(G * n)
    PROVE  Groups(v) <= n
<1>1. Groups(v) \in Nat \ {0} /\ \A j \in 1 .. Groups(v) - 1 : v >= Pow2(G * j)
  BY GroupsExist DEF Fits
<1>2. Pow2(G * n) \in Nat
  BY NextGroup, WidthAssumption
<1> SUFFICES ASSUME n < Groups(v) PROVE FALSE
  BY <1>1
<1>3. n \in 1 .. Groups(v) - 1
  BY <1>1
<1> QED
  BY <1>1, <1>2, <1>3

(* A number of the type's width has at most the type's number of groups. *)
LEMMA WidthOfGroups ==
    ASSUME NEW bits \in Nat, NEW n \in Nat \ {0}, bits <= G * n, NEW v \in Nat, v < Pow2(bits)
    PROVE  Groups(v) <= n /\ v < Pow2(G * n)
<1>1. G * n \in Nat
  BY WidthAssumption
<1> DEFINE m == G * n
<1> HIDE DEF m
<1>2. m \in Nat /\ bits <= m
  BY <1>1 DEF m
<1>3. Pow2(bits) <= Pow2(m) /\ Pow2(bits) \in Nat /\ Pow2(m) \in Nat
  BY <1>2, PowerGrows, Powers, Zenon
<1>4. v < Pow2(m)
  BY <1>3
<1>5. v < Pow2(G * n)
  BY <1>4 DEF m
<1> QED
  BY <1>5, GroupsWithin

(* The thresholds of EncodeVarint32 choose the same bytes as the loop. *)
LEMMA Encoder32 ==
    ASSUME NEW v \in Nat, v < Pow2(Bits32)
    PROVE  EncodeVarint32(v) = Varint(v) /\ Groups(v) <= kMaxVarint32Length
<1> DEFINE n == Groups(v)
           max == kMaxVarint32Length
           Chosen(k) == /\ k = max \/ v < Pow2(G * k)
                        /\ \A j \in 1 .. k - 1 : v >= Pow2(G * j)
<1>0. G \in Nat /\ B \in Nat \ {0} /\ max \in Nat \ {0} /\ Bits32 \in Nat /\ Bits32 <= G * max
  BY Flag, WidthAssumption
<1>1. /\ n \in Nat \ {0} /\ v < Pow2(G * n) /\ \A j \in 1 .. n - 1 : v >= Pow2(G * j)
      /\ \A k \in Nat \ {0} : Fits(v, k) => k = n
  BY GroupsExist DEF Fits
<1>2. n <= max /\ v < Pow2(G * max)
  BY <1>0, WidthOfGroups
<1>3. Groups32(v) = CHOOSE k \in 1 .. max : Chosen(k)
  BY DEF Groups32
<1>4. n \in 1 .. max /\ Chosen(n)
  BY <1>0, <1>1, <1>2
<1>5. \A k \in 1 .. max : Chosen(k) => k = n
  <2> SUFFICES ASSUME NEW k \in 1 .. max, Chosen(k) PROVE k = n
    OBVIOUS
  <2>1. Fits(v, k)
    BY <1>2 DEF Fits
  <2>2. k \in Nat \ {0}
    BY <1>0
  <2> QED
    BY <1>1, <2>1, <2>2
<1> HIDE DEF Chosen, n
<1>6. Groups32(v) = n
  BY <1>3, <1>4, <1>5, Zenon
<1>7. EncodeVarint32(v) = [j \in 1 .. n |-> IF j < n THEN B + (Shr(v, G * (j - 1)) % B)
                                            ELSE Shr(v, G * (j - 1)) % (2 * B)]
  BY <1>6 DEF EncodeVarint32
<1>8. Varint(v) = [j \in 1 .. n |-> IF j < n THEN B + (Shr(v, G * (j - 1)) % B)
                                    ELSE Shr(v, G * (j - 1))]
  BY DEF Varint, n
<1>9. \A j \in 1 .. n : ~(j < n) => Shr(v, G * (j - 1)) % (2 * B) = Shr(v, G * (j - 1))
  <2> SUFFICES Shr(v, G * (n - 1)) % (2 * B) = Shr(v, G * (n - 1))
    BY <1>1
  <2> DEFINE t == Shr(v, G * (n - 1))
  <2>1. t \in 0 .. B - 1
    BY LastGroup DEF n
  <2> HIDE DEF t
  <2>2. t \in 0 .. 2 * B - 1 /\ 2 * B \in Nat \ {0}
    BY <1>0, <2>1
  <2>3. t % (2 * B) = t
    BY <2>2, Small
  <2> QED
    BY <2>3 DEF t
<1>10. EncodeVarint32(v) = Varint(v)
  <2> DEFINE X(j) == B + (Shr(v, G * (j - 1)) % B)
             Y(j) == Shr(v, G * (j - 1)) % (2 * B)
             Z(j) == Shr(v, G * (j - 1))
  <2>1. /\ EncodeVarint32(v) = [j \in 1 .. n |-> IF j < n THEN X(j) ELSE Y(j)]
        /\ Varint(v) = [j \in 1 .. n |-> IF j < n THEN X(j) ELSE Z(j)]
        /\ \A j \in 1 .. n : ~(j < n) => Y(j) = Z(j)
    BY <1>7, <1>8, <1>9
  <2> HIDE DEF X, Y, Z
  <2> QED
    BY <2>1
<1> QED
  BY <1>2, <1>10 DEF n

-----------------------------------------------------------------------------
(* The digits of a number in base 2^w add up to its remainder. *)
LEMMA Radix ==
    ASSUME NEW w \in Nat, NEW v \in Nat, NEW n \in Nat, NEW e,
           \A j \in 1 .. n : e[j] = (Shr(v, w * (j - 1)) % Pow2(w)) * Pow2(w * (j - 1))
    PROVE  Sum(e, n) = v % Pow2(w * n)
<1> DEFINE S == {k \in Nat : k <= n => Sum(e, k) = v % Pow2(w * k)}
<1>0. Pow2(w) \in Nat \ {0} /\ Pow2(0) = 1 /\ w * 0 = 0
  BY Powers
<1>1. \A j \in 1 .. n : e[j] \in Nat
  <2> SUFFICES ASSUME NEW j \in 1 .. n PROVE e[j] \in Nat
    OBVIOUS
  <2>1. j - 1 \in Nat
    OBVIOUS
  <2>2. Shr(v, w * (j - 1)) \in Nat /\ Pow2(w * (j - 1)) \in Nat
    BY <2>1, Shifts, NextGroup, Zenon
  <2>3. Shr(v, w * (j - 1)) % Pow2(w) \in Nat
    <3> DEFINE a == Shr(v, w * (j - 1))
               q == Pow2(w)
    <3>1. a \in Nat /\ q \in Nat \ {0}
      BY <1>0, <2>2
    <3> HIDE DEF a, q
    <3>2. a % q \in Nat
      BY <3>1
    <3> QED
      BY <3>2 DEF a, q
  <2> DEFINE x == Shr(v, w * (j - 1)) % Pow2(w)
             y == Pow2(w * (j - 1))
  <2>4. e[j] = x * y /\ x \in Nat /\ y \in Nat
    BY <2>2, <2>3
  <2> HIDE DEF x, y
  <2> QED
    BY <2>4
<1>2. 0 \in S
  <2>1. Sum(e, 0) = 0
    BY <1>1, Sums
  <2>2. v % 1 = 0
    OBVIOUS
  <2> QED
    BY <1>0, <2>1, <2>2
<1>3. ASSUME NEW k \in S PROVE k + 1 \in S
  <2>0. k \in Nat
    BY <1>3
  <2> SUFFICES ASSUME k + 1 <= n PROVE Sum(e, k + 1) = v % Pow2(w * (k + 1))
    BY <2>0
  <2> DEFINE p == Pow2(w * k)
             q == Pow2(w)
  <2>1. Sum(e, k) = v % p
    BY <1>3, <2>0
  <2>2. Sum(e, k + 1) = Sum(e, k) + e[k + 1]
    <3>1. \A i \in 1 .. k + 1 : e[i] \in Nat
      BY <1>1, <2>0
    <3>2. k + 1 \in Nat /\ k + 1 # 0 /\ (k + 1) - 1 = k
      BY <2>0
    <3>3. Sum(e, k + 1) = Sum(e, (k + 1) - 1) + e[k + 1]
      BY <3>1, <3>2, Sums
    <3> QED
      BY <3>2, <3>3
  <2>3. e[k + 1] = (Shr(v, w * k) % q) * p
    <3>1. k + 1 \in 1 .. n /\ (k + 1) - 1 = k
      BY <2>0
    <3> QED
      BY <3>1
  <2>4. p \in Nat \ {0} /\ q \in Nat \ {0} /\ Pow2(w * (k + 1)) = q * p
    BY <1>0, <2>0, NextGroup
  <2>5. Shr(v, w * k) = v \div p
    BY DEF Shr
  <2> HIDE DEF p, q
  <2>6. q * p = p * q
    BY <2>4
  <2>7. v % (p * q) = (v % p) + ((v \div p) % q) * p
    BY <2>4, DivideTwice, Zenon
  <2> QED
    BY <2>1, <2>2, <2>3, <2>4, <2>5, <2>6, <2>7
<1>4. S \in SUBSET Nat
  OBVIOUS
<1>5. S = Nat
  <2> HIDE DEF S
  <2> QED
    BY <1>2, <1>3, <1>4, Induction
<1>6. n \in S /\ n <= n
  BY <1>5
<1> QED
  BY <1>6

(* The bytes that an item is read from: as far as the input reaches, they  *)
(* are those that were put.                                                *)
Holds(s, e) == \A j \in 1 .. Len(s) : j <= Len(e) => s[j] = e[j]

(* GetVarint on a whole varint returns its number, and on a torn one fails *)
(* and leaves the input alone.                                             *)
LEMMA VarintIsRead ==
    ASSUME NEW v \in Nat, NEW s \in Seq(Byte), NEW rounds \in Nat, NEW bits \in Nat,
           Groups(v) <= rounds, v < Pow2(bits), Holds(s, Varint(v))
    PROVE  GetVarint(s, rounds, bits) =
             IF Groups(v) <= Len(s)
             THEN [ok |-> TRUE, value |-> v, rest |-> Drop(s, Groups(v))]
             ELSE [ok |-> FALSE, value |-> 0, rest |-> s]
<1> DEFINE n == Groups(v)
           m == Len(s)
           ends == {j \in 1 .. m : /\ j <= rounds
                                   /\ s[j] < B
                                   /\ \A k \in 1 .. j - 1 : s[k] >= B}
           shifted == [j \in 1 .. m |-> Payload(s[j]) * Pow2(G * (j - 1))]
           last == CHOOSE k \in ends : TRUE
<1>0. G \in Nat /\ B \in Nat \ {0} /\ B = Pow2(G) /\ m \in Nat
  BY Flag DEF B
<1>1. GetVarint(s, rounds, bits) =
         IF ends = {} THEN [ok |-> FALSE, value |-> 0, rest |-> s]
         ELSE [ok |-> TRUE, value |-> Sum(shifted, last) % Pow2(bits), rest |-> Drop(s, last)]
  BY DEF GetVarint
<1>2. /\ n \in Nat \ {0}
      /\ \A j \in 1 .. m : j \in 1 .. n - 1 => s[j] >= B
      /\ n <= m => s[n] < B
      /\ \A j \in 1 .. m : j <= n => Payload(s[j]) = Shr(v, G * (j - 1)) % B
  <2>1. /\ Len(Varint(v)) = n /\ n \in Nat \ {0}
        /\ \A j \in 1 .. n - 1 : Varint(v)[j] >= B
        /\ Varint(v)[n] < B
        /\ \A j \in 1 .. n : Payload(Varint(v)[j]) = Shr(v, G * (j - 1)) % B
    BY VarintBytes, Zenon
  <2>2. \A j \in 1 .. m : j <= n => s[j] = Varint(v)[j]
    BY <2>1 DEF Holds
  <2> HIDE DEF n, m, ends, shifted, last
  <2>3. n <= m => s[n] < B
    BY <1>0, <2>1, <2>2
  <2>4. \A j \in 1 .. m : j \in 1 .. n - 1 => s[j] >= B
    <3> SUFFICES ASSUME NEW j \in 1 .. m, j \in 1 .. n - 1 PROVE s[j] >= B
      OBVIOUS
    <3>1. j <= n
      BY <1>0, <2>1
    <3> QED
      BY <2>1, <2>2, <3>1
  <2>5. \A j \in 1 .. m : j <= n => Payload(s[j]) = Shr(v, G * (j - 1)) % B
    <3> SUFFICES ASSUME NEW j \in 1 .. m, j <= n PROVE Payload(s[j]) = Shr(v, G * (j - 1)) % B
      OBVIOUS
    <3>1. j \in 1 .. n
      BY <1>0, <2>1
    <3> QED
      BY <2>1, <2>2, <3>1
  <2> QED
    BY <2>1, <2>3, <2>4, <2>5
<1>3. \A j \in 1 .. m : s[j] \in Int
  <2>1. \A j \in 1 .. m : s[j] \in Byte
    OBVIOUS
  <2>2. \A b \in Byte : b \in Int
    BY <1>0 DEF Byte
  <2> QED
    BY <2>1, <2>2, Zenon
<1>4. \A j \in ends : j = n
  <2> SUFFICES ASSUME NEW j \in ends PROVE j = n
    OBVIOUS
  <2>1. j \in 1 .. m /\ s[j] < B /\ \A k \in 1 .. j - 1 : s[k] >= B
    OBVIOUS
  <2> HIDE DEF n, m, ends
  <2>2. ~(j < n)
    <3> SUFFICES ASSUME j < n PROVE FALSE
      OBVIOUS
    <3>1. j \in 1 .. n - 1
      BY <1>0, <1>2, <2>1
    <3>2. s[j] >= B /\ s[j] \in Int
      BY <1>2, <1>3, <2>1, <3>1
    <3> QED
      BY <1>0, <2>1, <3>2
  <2>3. ~(n < j)
    <3> SUFFICES ASSUME n < j PROVE FALSE
      OBVIOUS
    <3>1. n \in 1 .. j - 1 /\ n <= m /\ n \in 1 .. m
      BY <1>0, <1>2, <2>1
    <3>2. s[n] >= B /\ s[n] < B /\ s[n] \in Int
      BY <1>2, <1>3, <2>1, <3>1
    <3> QED
      BY <1>0, <3>2
  <2> QED
    BY <1>0, <1>2, <2>1, <2>2, <2>3
<1>5. CASE n <= m
  <2>1. n \in ends
    <3>1. n \in 1 .. m /\ s[n] < B
      BY <1>0, <1>2, <1>5
    <3>2. \A k \in 1 .. n - 1 : s[k] >= B
      <4> SUFFICES ASSUME NEW k \in 1 .. n - 1 PROVE s[k] >= B
        OBVIOUS
      <4>1. k \in 1 .. m
        BY <1>0, <1>2, <1>5
      <4> QED
        BY <1>2, <4>1
    <3> QED
      BY <3>1, <3>2
  <2>2. last = n /\ ends # {}
    <3> HIDE DEF ends
    <3> QED
      BY <1>4, <2>1, Zenon
  <2>3. \A j \in 1 .. n : shifted[j] = (Shr(v, G * (j - 1)) % Pow2(G)) * Pow2(G * (j - 1))
    <3> SUFFICES ASSUME NEW j \in 1 .. n
                 PROVE  shifted[j] = (Shr(v, G * (j - 1)) % Pow2(G)) * Pow2(G * (j - 1))
      BY Zenon
    <3>1. j \in 1 .. m /\ j <= n
      BY <1>0, <1>2, <1>5
    <3>2. shifted[j] = Payload(s[j]) * Pow2(G * (j - 1))
      BY <3>1
    <3>3. Payload(s[j]) = Shr(v, G * (j - 1)) % Pow2(G)
      BY <1>0, <1>2, <3>1
    <3> HIDE DEF shifted
    <3> QED
      BY <3>2, <3>3
  <2> HIDE DEF shifted, last, ends
  <2>4. Sum(shifted, n) = v % Pow2(G * n)
    BY <1>0, <1>2, <2>3, Radix
  <2>5. v % Pow2(G * n) = v
    <3>1. v < Pow2(G * n)
      BY GroupsExist DEF Fits
    <3>2. Pow2(G * n) \in Nat \ {0}
      BY <1>0, <1>2, NextGroup
    <3>3. v \in 0 .. Pow2(G * n) - 1
      BY <3>1, <3>2
    <3> QED
      BY <3>2, <3>3, Small
  <2>6. v % Pow2(bits) = v
    <3>1. Pow2(bits) \in Nat \ {0}
      BY Powers
    <3>2. v \in 0 .. Pow2(bits) - 1
      BY <3>1
    <3> QED
      BY <3>1, <3>2, Small
  <2>7. Sum(shifted, last) % Pow2(bits) = v
    BY <2>2, <2>4, <2>5, <2>6, Zenon
  <2> QED
    BY <1>1, <1>5, <2>2, <2>7, Zenon
<1>6. CASE ~(n <= m)
  <2>1. ends = {}
    <3> SUFFICES ASSUME NEW j \in ends PROVE FALSE
      OBVIOUS
    <3>1. j \in 1 .. m /\ j = n
      BY <1>4
    <3> QED
      BY <1>0, <1>2, <1>6, <3>1
  <2> HIDE DEF shifted, last, ends
  <2> QED
    BY <1>1, <1>6, <2>1, Zenon
<1> QED
  BY <1>5, <1>6

-----------------------------------------------------------------------------
(* What Drop leaves. *)
LEMMA Dropped ==
    ASSUME NEW S, NEW s \in Seq(S), NEW k \in 0 .. Len(s)
    PROVE  /\ Drop(s, k) \in Seq(S) /\ Len(Drop(s, k)) = Len(s) - k
           /\ \A j \in 1 .. Len(s) - k : Drop(s, k)[j] = s[k + j]
BY DEF Drop

(* Dropping nothing. *)
LEMMA DropNone ==
    ASSUME NEW S, NEW s \in Seq(S)
    PROVE  Drop(s, 0) = s
<1> DEFINE t == Drop(s, 0)
<1>1. Len(s) \in Nat /\ 0 \in 0 .. Len(s) /\ Len(s) - 0 = Len(s)
  OBVIOUS
<1>2. /\ t \in Seq(S) /\ Len(t) = Len(s) - 0
      /\ \A j \in 1 .. Len(s) - 0 : t[j] = s[0 + j]
  BY <1>1, Dropped
<1> HIDE DEF t
<1>3. Len(t) = Len(s) /\ \A j \in 1 .. Len(s) : t[j] = s[j]
  BY <1>1, <1>2
<1>4. t = s
  BY <1>1, <1>2, <1>3, SameBytes
<1> QED
  BY <1>4 DEF t

(* Dropping twice. *)
LEMMA DropTwice ==
    ASSUME NEW S, NEW s \in Seq(S), NEW k \in Nat, NEW l \in Nat, k + l <= Len(s)
    PROVE  Drop(Drop(s, k), l) = Drop(s, k + l)
<1> DEFINE m == Len(s)
           t == Drop(s, k)
           u == Drop(t, l)
           w == Drop(s, k + l)
           n == (m - k) - l
<1>0. m \in Nat /\ k \in 0 .. m /\ k + l \in 0 .. m /\ l \in 0 .. m - k /\ n \in Nat
  OBVIOUS
<1>1. t \in Seq(S) /\ Len(t) = m - k /\ \A j \in 1 .. m - k : t[j] = s[k + j]
  BY <1>0, Dropped
<1>2. w \in Seq(S) /\ Len(w) = m - (k + l) /\ \A j \in 1 .. m - (k + l) : w[j] = s[(k + l) + j]
  BY <1>0, Dropped
<1> HIDE DEF m, t, w, n
<1>3. u \in Seq(S) /\ Len(u) = (m - k) - l /\ \A j \in 1 .. (m - k) - l : u[j] = t[l + j]
  <2>1. t \in Seq(S) /\ l \in 0 .. Len(t)
    BY <1>0, <1>1
  <2>2. u \in Seq(S) /\ Len(u) = Len(t) - l /\ \A j \in 1 .. Len(t) - l : u[j] = t[l + j]
    BY <2>1, Dropped, Zenon
  <2> HIDE DEF u
  <2> QED
    BY <1>1, <2>2, Zenon
<1> HIDE DEF u
<1>4. \A j \in 1 .. n : u[j] = w[j]
  <2> SUFFICES ASSUME NEW j \in 1 .. n PROVE u[j] = w[j]
    OBVIOUS
  <2>1. l + j \in 1 .. m - k /\ j \in 1 .. m - (k + l) /\ k + (l + j) = (k + l) + j
    BY <1>0 DEF n
  <2>2. u[j] = t[l + j]
    BY <1>3 DEF n
  <2> QED
    BY <1>1, <1>2, <2>1, <2>2, Zenon
<1>5. Len(u) = n /\ Len(w) = n
  BY <1>0, <1>2, <1>3 DEF n
<1>6. u = w
  BY <1>0, <1>2, <1>3, <1>4, <1>5, SameBytes, Zenon
<1> QED
  BY <1>6 DEF u, w, t

(* A fixed-width integer is read back. *)
LEMMA FixedIsRead ==
    ASSUME NEW bits \in Nat, bits % (G + 1) = 0, NEW v \in Nat, v < Pow2(bits)
    PROVE  /\ bits \div (G + 1) \in Nat
           /\ EncodeFixed(v, bits) \in Seq(Byte)
           /\ Len(EncodeFixed(v, bits)) = bits \div (G + 1)
           /\ \A s \in Seq(Byte) :
                 Holds(s, EncodeFixed(v, bits)) /\ bits \div (G + 1) <= Len(s)
                     => DecodeFixed(s, bits) = v
<1> DEFINE w == G + 1
           n == bits \div w
           e == EncodeFixed(v, bits)
<1>0. w \in Nat \ {0} /\ Pow2(w) = 2 * B /\ 2 * B \in Nat \ {0} /\ bits % w = 0
  BY Flag
<1>1. e = [j \in 1 .. n |-> Shr(v, w * (j - 1)) % (2 * B)]
  BY DEF EncodeFixed
<1>2. \A s : DecodeFixed(s, bits) = Sum([j \in 1 .. n |-> s[j] * Pow2(w * (j - 1))], n)
  BY DEF DecodeFixed
<1> HIDE DEF w
<1>3. n \in Nat /\ w * n = bits
  <2>1. n \in Nat /\ bits = n * w + (bits % w)
    BY <1>0, NatDivision
  <2> HIDE DEF n
  <2>2. n * w = w * n /\ n * w \in Nat
    BY <1>0, <2>1
  <2> QED
    BY <1>0, <2>1, <2>2
<1> HIDE DEF n, e
<1>4. \A j \in 1 .. n : Shr(v, w * (j - 1)) % (2 * B) \in 0 .. 2 * B - 1
  <2> SUFFICES ASSUME NEW j \in 1 .. n PROVE Shr(v, w * (j - 1)) % (2 * B) \in 0 .. 2 * B - 1
    OBVIOUS
  <2>1. j - 1 \in Nat
    BY <1>3
  <2>2. Shr(v, w * (j - 1)) \in Nat
    BY <1>0, <2>1, Shifts, Zenon
  <2> QED
    BY <1>0, <2>2, NatDivision, Zenon
<1>5. e \in Seq(Byte) /\ Len(e) = n
  <2> DEFINE F(j) == Shr(v, w * (j - 1)) % (2 * B)
  <2>1. e = [j \in 1 .. n |-> F(j)] /\ \A j \in 1 .. n : F(j) \in Byte
    BY <1>1, <1>4 DEF Byte
  <2> HIDE DEF F
  <2> QED
    BY <1>3, <2>1
<1>6. ASSUME NEW s \in Seq(Byte), Holds(s, e), n <= Len(s)
      PROVE  DecodeFixed(s, bits) = v
  <2> DEFINE d == [j \in 1 .. n |-> s[j] * Pow2(w * (j - 1))]
  <2>1. \A j \in 1 .. n : d[j] = (Shr(v, w * (j - 1)) % Pow2(w)) * Pow2(w * (j - 1))
    <3> SUFFICES ASSUME NEW j \in 1 .. n
                 PROVE  d[j] = (Shr(v, w * (j - 1)) % Pow2(w)) * Pow2(w * (j - 1))
      OBVIOUS
    <3>1. j \in 1 .. Len(s) /\ j <= Len(e)
      BY <1>3, <1>5, <1>6
    <3>2. s[j] = e[j]
      BY <1>6, <3>1 DEF Holds
    <3>3. e[j] = Shr(v, w * (j - 1)) % Pow2(w)
      BY <1>0, <1>1
    <3>4. d[j] = s[j] * Pow2(w * (j - 1))
      OBVIOUS
    <3> HIDE DEF d
    <3> QED
      BY <3>2, <3>3, <3>4
  <2>2. DecodeFixed(s, bits) = Sum(d, n)
    BY <1>2, Zenon
  <2> HIDE DEF d
  <2>3. w \in Nat
    BY <1>0
  <2>4. Sum(d, n) = v % Pow2(w * n)
    BY <1>3, <2>1, <2>3, Radix
  <2>5. v % Pow2(bits) = v
    <3>1. Pow2(bits) \in Nat \ {0}
      BY Powers
    <3>2. v \in 0 .. Pow2(bits) - 1
      BY <3>1
    <3> QED
      BY <3>1, <3>2, Small
  <2> QED
    BY <1>3, <2>2, <2>4, <2>5
<1> QED
  BY <1>3, <1>5, <1>6 DEF n, e, w

(* Concatenation, element by element. *)
LEMMA Concatenated ==
    ASSUME NEW S, NEW s \in Seq(S), NEW t \in Seq(S)
    PROVE  /\ s \o t \in Seq(S) /\ Len(s \o t) = Len(s) + Len(t)
           /\ \A j \in 1 .. Len(s) : (s \o t)[j] = s[j]
           /\ \A j \in 1 .. Len(t) : (s \o t)[Len(s) + j] = t[j]
OBVIOUS

(* A size below 2^32 is not cut. *)
LEMMA FitsBits32 ==
    ASSUME NEW l \in Nat, l < Pow2(Bits32)
    PROVE  l % Pow2(Bits32) = l
<1> DEFINE m == Pow2(Bits32)
<1>1. m \in Nat \ {0} /\ l < m
  BY Powers, WidthAssumption
<1> HIDE DEF m
<1>2. l \in 0 .. m - 1
  BY <1>1
<1>3. l % m = l
  BY <1>1, <1>2, Small
<1> QED
  BY <1>3 DEF m

(* A slice is read back, with either overload; a torn one is refused. *)
LEMMA SliceIsRead ==
    ASSUME NEW t \in Seq(Byte), Len(t) < Pow2(Bits32), NEW s \in Seq(Byte),
           Holds(s, PutLengthPrefixedSlice(t)),
           NEW d \in {GetLengthPrefixedSlice(s), GetLengthPrefixedSlicePtr(s)}
    PROVE  IF Groups(Len(t)) + Len(t) <= Len(s)
           THEN d = [ok |-> TRUE, value |-> t, rest |-> Drop(s, Groups(Len(t)) + Len(t))]
           ELSE ~d.ok /\ d.rest \in {s, Drop(s, Groups(Len(t)))}
                      /\ (d.rest # s => Groups(Len(t)) <= Len(s))
<1> DEFINE l == Len(t)
           n == Groups(l)
           e == Varint(l) \o t
           g == GetVarint32(s)
           m == Len(s)
<1>0. l \in Nat /\ m \in Nat /\ kMaxVarint32Length \in Nat /\ Bits32 \in Nat
  BY WidthAssumption
<1>1. n \in Nat \ {0} /\ Varint(l) \in Seq(Byte) /\ Len(Varint(l)) = n
  BY <1>0, VarintBytes
<1>2. PutLengthPrefixedSlice(t) = e /\ n <= kMaxVarint32Length
  <2>1. l % Pow2(Bits32) = l
    BY <1>0, FitsBits32
  <2> QED
    BY <1>0, <2>1, Encoder32, Zenon DEF PutLengthPrefixedSlice
<1>3. /\ e \in Seq(Byte) /\ Len(e) = n + l
      /\ \A j \in 1 .. n : e[j] = Varint(l)[j]
      /\ \A j \in 1 .. l : e[n + j] = t[j]
  <2> DEFINE h == Varint(l)
  <2>1. h \in Seq(Byte) /\ Len(h) = n /\ Len(t) = l /\ e = h \o t
    BY <1>1
  <2> HIDE DEF e, n, l, h
  <2>2. /\ h \o t \in Seq(Byte) /\ Len(h \o t) = Len(h) + Len(t)
        /\ \A j \in 1 .. Len(h) : (h \o t)[j] = h[j]
        /\ \A j \in 1 .. Len(t) : (h \o t)[Len(h) + j] = t[j]
    <3>1. h \in Seq(Byte) /\ t \in Seq(Byte)
      BY <2>1
    <3> QED
      BY <3>1, Concatenated
  <2>3. /\ e \in Seq(Byte) /\ Len(e) = n + l
        /\ \A j \in 1 .. n : e[j] = h[j]
        /\ \A j \in 1 .. l : e[n + j] = t[j]
    BY <2>1, <2>2, Zenon
  <2> QED
    BY <2>3 DEF h
<1>4. \A j \in 1 .. m : j <= n + l => s[j] = e[j]
  BY <1>2, <1>3 DEF Holds
<1> HIDE DEF l, n, e, g, m
<1>5. Holds(s, Varint(l))
  <2> SUFFICES ASSUME NEW j \in 1 .. m, j <= n PROVE s[j] = Varint(l)[j]
    BY <1>1 DEF Holds, m
  <2>1. j \in 1 .. n /\ j <= n + l
    BY <1>0, <1>1
  <2> QED
    BY <1>3, <1>4, <2>1
<1>6. g = IF n <= m THEN [ok |-> TRUE, value |-> l, rest |-> Drop(s, n)]
                    ELSE [ok |-> FALSE, value |-> 0, rest |-> s]
  <2>1. l < Pow2(Bits32)
    BY DEF l
  <2>2. GetVarint(s, kMaxVarint32Length, Bits32) =
           IF Groups(l) <= Len(s) THEN [ok |-> TRUE, value |-> l, rest |-> Drop(s, Groups(l))]
                                  ELSE [ok |-> FALSE, value |-> 0, rest |-> s]
    BY <1>0, <1>2, <1>5, <2>1, VarintIsRead DEF n
  <2> QED
    BY <2>2, Zenon DEF g, GetVarint32, n, m
<1>7. CASE n <= m
  <2> DEFINE r == Drop(s, n)
  <2>1. g.ok /\ g.value = l /\ g.rest = r
    BY <1>6, <1>7
  <2>2. r \in Seq(Byte) /\ Len(r) = m - n /\ \A j \in 1 .. m - n : r[j] = s[n + j]
    <3>1. n \in 0 .. Len(s)
      BY <1>0, <1>1, <1>7 DEF m
    <3> QED
      BY <3>1, Dropped, Zenon DEF m
  <2>3. CASE n + l <= m
    <3>1. Len(r) >= l /\ ~(l > Len(r))
      BY <1>0, <1>1, <2>2, <2>3
    <3>2. /\ GetLengthPrefixedSlice(s) =
                [ok |-> TRUE, value |-> SubSeq(r, 1, l), rest |-> Drop(r, l)]
          /\ GetLengthPrefixedSlicePtr(s) =
                [ok |-> TRUE, value |-> SubSeq(r, 1, l), rest |-> Drop(r, l)]
      <4> HIDE DEF r
      <4> QED
        BY <2>1, <3>1, Zenon DEF GetLengthPrefixedSlice, GetLengthPrefixedSlicePtr, SliceFits, g
    <3>3. Drop(r, l) = Drop(s, n + l)
      BY <1>0, <1>1, <2>3, DropTwice DEF m
    <3>4. SubSeq(r, 1, l) = t
      <4> HIDE DEF r
      <4>1. /\ SubSeq(r, 1, l) \in Seq(Byte) /\ Len(SubSeq(r, 1, l)) = l
            /\ \A j \in 1 .. l : SubSeq(r, 1, l)[j] = r[j]
        BY <1>0, <2>2, <3>1
      <4>2. \A j \in 1 .. l : r[j] = t[j]
        <5> SUFFICES ASSUME NEW j \in 1 .. l PROVE r[j] = t[j]
          OBVIOUS
        <5>1. j \in 1 .. m - n /\ n + j \in 1 .. m /\ n + j <= n + l
          BY <1>0, <1>1, <2>3
        <5> QED
          BY <1>3, <1>4, <2>2, <5>1
      <4>3. t \in Seq(Byte) /\ Len(t) = l
        BY DEF l
      <4> DEFINE u == SubSeq(r, 1, l)
      <4>4. u \in Seq(Byte) /\ Len(u) = l /\ \A j \in 1 .. l : u[j] = t[j]
        BY <4>1, <4>2
      <4> HIDE DEF u
      <4>5. u = t
        BY <1>0, <4>3, <4>4, SameBytes
      <4> QED
        BY <4>5 DEF u
    <3>5. d = [ok |-> TRUE, value |-> t, rest |-> Drop(s, n + l)]
      BY <3>2, <3>3, <3>4, Zenon
    <3> QED
      BY <2>3, <3>5 DEF n, l, m
  <2>4. CASE ~(n + l <= m)
    <3>1. ~(Len(r) >= l) /\ l > Len(r)
      BY <1>0, <1>1, <1>7, <2>2, <2>4
    <3>2. /\ GetLengthPrefixedSlice(s) = [ok |-> FALSE, value |-> <<>>, rest |-> r]
          /\ GetLengthPrefixedSlicePtr(s) = [ok |-> FALSE, value |-> <<>>, rest |-> s]
      <4> HIDE DEF r
      <4> QED
        BY <2>1, <3>1, Zenon DEF GetLengthPrefixedSlice, GetLengthPrefixedSlicePtr, SliceFits, g
    <3>3. ~d.ok /\ d.rest \in {s, r}
      <4> HIDE DEF r
      <4> QED
        BY <3>2
    <3> QED
      BY <1>7, <2>4, <3>3 DEF n, l, m
  <2> QED
    BY <2>3, <2>4
<1>8. CASE ~(n <= m)
  <2>1. ~g.ok /\ g.rest = s
    BY <1>6, <1>8
  <2>2. /\ GetLengthPrefixedSlice(s) = [ok |-> FALSE, value |-> <<>>, rest |-> s]
        /\ GetLengthPrefixedSlicePtr(s) = [ok |-> FALSE, value |-> <<>>, rest |-> s]
    BY <2>1, Zenon DEF GetLengthPrefixedSlice, GetLengthPrefixedSlicePtr, g
  <2>3. ~d.ok /\ d.rest = s
    BY <2>2
  <2>4. ~(n + l <= m)
    BY <1>0, <1>1, <1>8
  <2> QED
    BY <2>3, <2>4 DEF n, l, m
<1> QED
  BY <1>7, <1>8

-----------------------------------------------------------------------------
(* The kinds of items and what they hold. *)
LEMMA Kinds ==
    ASSUME NEW item \in Items
    PROVE  \/ /\ item.kind \in {"fixed32", "varint32"}
              /\ item.val \in Nat /\ item.val < Pow2(Bits32)
           \/ /\ item.kind \in {"fixed64", "varint64"}
              /\ item.val \in Nat /\ item.val < Pow2(Bits64)
           \/ /\ item.kind = "slice"
              /\ item.val \in Seq(Byte) /\ Len(item.val) < Pow2(Bits32)
<1>0. Pow2(Bits32) \in Nat /\ Pow2(Bits64) \in Nat
  BY Powers, WidthAssumption, Zenon
<1>1. \/ item.kind \in {"fixed32", "varint32"} /\ item.val \in Values32
      \/ item.kind \in {"fixed64", "varint64"} /\ item.val \in Values64
      \/ item.kind = "slice" /\ item.val \in Slices
  BY DEF Items
<1>2. \A v \in Values32 : v \in Nat /\ v < Pow2(Bits32)
  BY <1>0, ValuesAssumption
<1>3. \A v \in Values64 : v \in Nat /\ v < Pow2(Bits64)
  BY <1>0, ValuesAssumption
<1> QED
  BY <1>1, <1>2, <1>3, ValuesAssumption, Zenon

(* What each Put appends is as long as ItemLength says. *)
LEMMA ItemIsWritten ==
    ASSUME NEW item \in Items
    PROVE  /\ Encoding(item) \in Seq(Byte)
           /\ ItemLength(item) \in Nat /\ Len(Encoding(item)) = ItemLength(item)
<1>0. Bits32 \in Nat /\ Bits64 \in Nat /\ Bits32 % (G + 1) = 0 /\ Bits64 % (G + 1) = 0
  BY WidthAssumption
<1> DEFINE v == item.val
<1>1. CASE item.kind = "fixed32"
  <2>1. v \in Nat /\ v < Pow2(Bits32)
    BY <1>1, Kinds
  <2>2. Encoding(item) = EncodeFixed(v, Bits32) /\ ItemLength(item) = Bits32 \div (G + 1)
    BY <1>1 DEF Encoding, ItemLength
  <2> HIDE DEF v
  <2> QED
    BY <1>0, <2>1, <2>2, FixedIsRead
<1>2. CASE item.kind = "fixed64"
  <2>1. v \in Nat /\ v < Pow2(Bits64)
    BY <1>2, Kinds
  <2>2. Encoding(item) = EncodeFixed(v, Bits64) /\ ItemLength(item) = Bits64 \div (G + 1)
    BY <1>2 DEF Encoding, ItemLength
  <2> HIDE DEF v
  <2> QED
    BY <1>0, <2>1, <2>2, FixedIsRead
<1>3. CASE item.kind = "varint32"
  <2>1. v \in Nat /\ v < Pow2(Bits32)
    BY <1>3, Kinds
  <2>2. Encoding(item) = EncodeVarint32(v) /\ ItemLength(item) = VarintLength(v)
    BY <1>3 DEF Encoding, ItemLength
  <2> HIDE DEF v
  <2> QED
    BY <2>1, <2>2, Encoder32, LengthIsGroups, VarintBytes
<1>4. CASE item.kind = "varint64"
  <2>1. v \in Nat
    BY <1>4, Kinds
  <2>2. Encoding(item) = EncodeVarint64(v) /\ ItemLength(item) = VarintLength(v)
    BY <1>4 DEF Encoding, ItemLength
  <2> HIDE DEF v
  <2> QED
    BY <2>1, <2>2, Encoder64, LengthIsGroups, VarintBytes
<1>5. CASE item.kind = "slice"
  <2>1. v \in Seq(Byte) /\ Len(v) < Pow2(Bits32) /\ Len(v) \in Nat
    BY <1>5, Kinds
  <2>2. /\ Encoding(item) = EncodeVarint32(Len(v)) \o v
        /\ ItemLength(item) = VarintLength(Len(v)) + Len(v)
    <3>1. Len(v) % Pow2(Bits32) = Len(v)
      BY <2>1, FitsBits32
    <3> QED
      BY <1>5, <3>1, Zenon DEF Encoding, ItemLength, PutLengthPrefixedSlice
  <2> HIDE DEF v
  <2> DEFINE l == Len(v)
             h == Varint(l)
  <2>3. /\ EncodeVarint32(l) = h /\ VarintLength(l) = Groups(l)
        /\ h \in Seq(Byte) /\ Len(h) = Groups(l) /\ Groups(l) \in Nat
    BY <2>1, Encoder32, LengthIsGroups, VarintBytes
  <2>4. Encoding(item) = h \o v /\ ItemLength(item) = Len(h) + Len(v)
    BY <2>2, <2>3
  <2> HIDE DEF h, l
  <2>5. h \o v \in Seq(Byte) /\ Len(h \o v) = Len(h) + Len(v)
    BY <2>1, <2>3, Concatenated, Zenon
  <2>6. Len(h) \in Nat /\ Len(v) \in Nat
    BY <2>1, <2>3
  <2>7. Len(h) + Len(v) \in Nat
    BY <2>6
  <2> QED
    BY <2>4, <2>5, <2>7
<1> QED
  BY <1>1, <1>2, <1>3, <1>4, <1>5, Kinds

(* The length of a slice has a length. *)
LEMMA PrefixIsNat ==
    ASSUME NEW item \in Items
    PROVE  PrefixLength(item) \in Nat
<1>1. CASE item.kind = "slice"
  <2>1. item.val \in Seq(Byte) /\ Len(item.val) \in Nat
    BY <1>1, Kinds
  <2> QED
    BY <1>1, <2>1, LengthIsGroups, GroupsExist DEF PrefixLength
<1> QED
  BY <1>1 DEF PrefixLength

(* A Get of a whole item returns what was put and advances past it; a Get  *)
(* of a torn one fails and advances past nothing, or past the length of a  *)
(* slice.                                                                  *)
LEMMA ItemIsRead ==
    ASSUME input \in Seq(Byte), NEW item \in Items, Holds(input, Encoding(item)),
           NEW d \in Decoded(item.kind)
    PROVE  IF ItemLength(item) <= Len(input)
           THEN d.ok /\ d.value = item.val /\ d.rest = Drop(input, ItemLength(item))
           ELSE ~d.ok /\ \E p \in {0, PrefixLength(item)} : p <= Len(input) /\ d.rest = Drop(input, p)
<1>0. /\ Bits32 \in Nat /\ Bits64 \in Nat /\ Bits32 % (G + 1) = 0 /\ Bits64 % (G + 1) = 0
      /\ kMaxVarint32Length \in Nat \ {0} /\ kMaxVarint64Length \in Nat \ {0}
      /\ kMaxVarint32Length \in Nat /\ kMaxVarint64Length \in Nat
      /\ Bits32 <= G * kMaxVarint32Length /\ Bits64 <= G * kMaxVarint64Length
      /\ Len(input) \in Nat /\ 0 <= Len(input)
  BY WidthAssumption
<1>n. Drop(input, 0) = input
  BY DropNone
<1> DEFINE v == item.val
<1>f. ASSUME NEW bits \in Nat, bits % (G + 1) = 0, v \in Nat, v < Pow2(bits),
             Encoding(item) = EncodeFixed(v, bits), ItemLength(item) = bits \div (G + 1),
             d = GetFixed(bits)
      PROVE  IF ItemLength(item) <= Len(input)
             THEN d.ok /\ d.value = v /\ d.rest = Drop(input, ItemLength(item))
             ELSE ~d.ok /\ \E p \in {0, PrefixLength(item)} : p <= Len(input) /\ d.rest = Drop(input, p)
  <2> HIDE DEF v
  <2> DEFINE n == bits \div (G + 1)
  <2>1. n \in Nat /\ (n <= Len(input) => DecodeFixed(input, bits) = v)
    BY <1>f, FixedIsRead
  <2>2. d = IF Len(input) < n THEN [ok |-> FALSE, value |-> 0, rest |-> input]
            ELSE [ok |-> TRUE, value |-> DecodeFixed(input, bits), rest |-> Drop(input, n)]
    BY <1>f DEF GetFixed
  <2>3. ItemLength(item) = n
    BY <1>f
  <2> HIDE DEF n
  <2>4. CASE n <= Len(input)
    <3>1. ~(Len(input) < n)
      BY <1>0, <2>1, <2>4
    <3> QED
      BY <2>1, <2>2, <2>3, <2>4, <3>1
  <2>5. CASE ~(n <= Len(input))
    <3>1. Len(input) < n
      BY <1>0, <2>1, <2>5
    <3>2. d.ok = FALSE /\ d.rest = input
      BY <2>2, <3>1
    <3> QED
      BY <1>0, <1>n, <2>3, <2>5, <3>2
  <2> QED
    BY <2>4, <2>5
<1>v. ASSUME NEW bits \in Nat, NEW rounds \in Nat, v \in Nat, v < Pow2(bits),
             Groups(v) <= rounds, Encoding(item) = Varint(v), ItemLength(item) = Groups(v),
             d = GetVarint(input, rounds, bits)
      PROVE  IF ItemLength(item) <= Len(input)
             THEN d.ok /\ d.value = v /\ d.rest = Drop(input, ItemLength(item))
             ELSE ~d.ok /\ \E p \in {0, PrefixLength(item)} : p <= Len(input) /\ d.rest = Drop(input, p)
  <2> HIDE DEF v
  <2>1. Holds(input, Varint(v))
    BY <1>v
  <2>2. GetVarint(input, rounds, bits) =
             IF Groups(v) <= Len(input)
             THEN [ok |-> TRUE, value |-> v, rest |-> Drop(input, Groups(v))]
             ELSE [ok |-> FALSE, value |-> 0, rest |-> input]
    <3>1. input \in Seq(Byte) /\ v \in Nat /\ bits \in Nat /\ rounds \in Nat
          /\ v < Pow2(bits) /\ Groups(v) <= rounds
      BY <1>0, <1>v
    <3> QED
      BY <2>1, <3>1, VarintIsRead
  <2>3. CASE Groups(v) <= Len(input)
    <3>1. d = [ok |-> TRUE, value |-> v, rest |-> Drop(input, Groups(v))]
      BY <1>v, <2>2, <2>3, Zenon
    <3>2. d.ok /\ d.value = v /\ d.rest = Drop(input, Groups(v))
      BY <3>1
    <3>3. ItemLength(item) = Groups(v)
      BY <1>v
    <3> QED
      BY <2>3, <3>2, <3>3, Zenon
  <2>4. CASE ~(Groups(v) <= Len(input))
    <3>1. d.ok = FALSE /\ d.rest = input
      BY <1>v, <2>2, <2>4
    <3> QED
      BY <1>0, <1>n, <1>v, <2>4, <3>1
  <2> QED
    BY <2>3, <2>4
<1>1. CASE item.kind = "fixed32"
  <2>1. v \in Nat /\ v < Pow2(Bits32)
    BY <1>1, Kinds
  <2>2. /\ Encoding(item) = EncodeFixed(v, Bits32) /\ ItemLength(item) = Bits32 \div (G + 1)
        /\ d = GetFixed(Bits32)
    BY <1>1 DEF Encoding, ItemLength, Decoded
  <2> QED
    BY <1>0, <1>f, <2>1, <2>2
<1>2. CASE item.kind = "fixed64"
  <2>1. v \in Nat /\ v < Pow2(Bits64)
    BY <1>2, Kinds
  <2>2. /\ Encoding(item) = EncodeFixed(v, Bits64) /\ ItemLength(item) = Bits64 \div (G + 1)
        /\ d = GetFixed(Bits64)
    BY <1>2 DEF Encoding, ItemLength, Decoded
  <2> QED
    BY <1>0, <1>f, <2>1, <2>2
<1>3. CASE item.kind = "varint32"
  <2>1. v \in Nat /\ v < Pow2(Bits32)
    BY <1>3, Kinds
  <2>2. /\ Encoding(item) = EncodeVarint32(v) /\ ItemLength(item) = VarintLength(v)
        /\ d = GetVarint(input, kMaxVarint32Length, Bits32)
    BY <1>3 DEF Encoding, ItemLength, Decoded, GetVarint32
  <2>3. /\ EncodeVarint32(v) = Varint(v) /\ Groups(v) <= kMaxVarint32Length
        /\ VarintLength(v) = Groups(v)
    BY <2>1, Encoder32, LengthIsGroups
  <2> QED
    BY <1>0, <1>v, <2>1, <2>2, <2>3
<1>4. CASE item.kind = "varint64"
  <2>1. v \in Nat /\ v < Pow2(Bits64)
    BY <1>4, Kinds
  <2>2. /\ Encoding(item) = EncodeVarint64(v) /\ ItemLength(item) = VarintLength(v)
        /\ d = GetVarint(input, kMaxVarint64Length, Bits64)
    BY <1>4 DEF Encoding, ItemLength, Decoded, GetVarint64
  <2>3. /\ EncodeVarint64(v) = Varint(v) /\ Groups(v) <= kMaxVarint64Length
        /\ VarintLength(v) = Groups(v)
    BY <1>0, <2>1, Encoder64, LengthIsGroups, WidthOfGroups
  <2> QED
    BY <1>0, <1>v, <2>1, <2>2, <2>3
<1>5. CASE item.kind = "slice"
  <2>1. v \in Seq(Byte) /\ Len(v) < Pow2(Bits32) /\ Len(v) \in Nat
    BY <1>5, Kinds
  <2>2. /\ Encoding(item) = PutLengthPrefixedSlice(v)
        /\ ItemLength(item) = VarintLength(Len(v)) + Len(v)
        /\ d \in {GetLengthPrefixedSlice(input), GetLengthPrefixedSlicePtr(input)}
    BY <1>5 DEF Encoding, ItemLength, Decoded
  <2> HIDE DEF v
  <2> DEFINE n == Groups(Len(v))
  <2>3. n \in Nat /\ ItemLength(item) = n + Len(v) /\ PrefixLength(item) = n
    BY <1>5, <2>1, <2>2, LengthIsGroups, GroupsExist DEF PrefixLength, v
  <2>4. Holds(input, PutLengthPrefixedSlice(v))
    BY <2>2
  <2>5. IF n + Len(v) <= Len(input)
        THEN d = [ok |-> TRUE, value |-> v, rest |-> Drop(input, n + Len(v))]
        ELSE ~d.ok /\ d.rest \in {input, Drop(input, n)} /\ (d.rest # input => n <= Len(input))
    BY <2>1, <2>2, <2>4, SliceIsRead
  <2> HIDE DEF n
  <2>6. CASE n + Len(v) <= Len(input)
    BY <2>3, <2>5, <2>6 DEF v
  <2>7. CASE ~(n + Len(v) <= Len(input))
    <3>1. d.rest = input \/ (n <= Len(input) /\ d.rest = Drop(input, n))
      BY <2>5, <2>7
    <3>2. \E p \in {0, PrefixLength(item)} : p <= Len(input) /\ d.rest = Drop(input, p)
      BY <1>0, <1>n, <2>3, <3>1
    <3> QED
      BY <2>3, <2>5, <2>7, <3>2
  <2> QED
    BY <2>6, <2>7
<1> QED
  BY <1>1, <1>2, <1>3, <1>4, <1>5, Kinds

-----------------------------------------------------------------------------
(* Where item k of a record ends. *)
At(l, k) == Sum([j \in 1 .. k |-> ItemLength(l[j])], k)

(* Items follow one another, and an item put later moves none. *)
LEMMA Positions ==
    ASSUME NEW l \in Seq(Items), NEW k \in 0 .. Len(l)
    PROVE  /\ At(l, 0) = 0 /\ At(l, k) \in Nat
           /\ k # 0 => At(l, k) = At(l, k - 1) + ItemLength(l[k])
           /\ \A item \in Items : At(Append(l, item), k) = At(l, k)
<1> DEFINE E(m) == [j \in 1 .. m |-> ItemLength(l[j])]
<1>0. k \in Nat /\ \A m : At(l, m) = Sum(E(m), m)
  BY DEF At
<1>1. \A j \in 1 .. k : l[j] \in Items /\ ItemLength(l[j]) \in Nat
  BY ItemIsWritten
<1>2. \A i \in 1 .. k : E(k)[i] \in Nat
  BY <1>1
<1>3. At(l, 0) = 0 /\ At(l, k) \in Nat
  <2>1. \A i \in 1 .. 0 : E(0)[i] \in Nat
    OBVIOUS
  <2>2. 0 \in Nat
    OBVIOUS
  <2> HIDE DEF E
  <2> QED
    BY <1>0, <1>2, <2>1, <2>2, Sums
<1>4. ASSUME k # 0 PROVE At(l, k) = At(l, k - 1) + ItemLength(l[k])
  <2>1. E(k)[k] = ItemLength(l[k])
    BY <1>0, <1>4
  <2>2. k - 1 \in Nat /\ \A i \in 1 .. k - 1 : E(k - 1)[i] = E(k)[i] /\ E(k)[i] \in Nat
    BY <1>0, <1>2, <1>4
  <2> HIDE DEF E
  <2>3. Sum(E(k), k) = Sum(E(k), k - 1) + E(k)[k]
    BY <1>0, <1>2, <1>4, Sums
  <2>4. Sum(E(k - 1), k - 1) = Sum(E(k), k - 1)
    BY <2>2, Sums
  <2> QED
    BY <1>0, <2>1, <2>3, <2>4, Zenon
<1>5. ASSUME NEW item \in Items PROVE At(Append(l, item), k) = At(l, k)
  <2>1. \A j \in 1 .. k : Append(l, item)[j] = l[j]
    OBVIOUS
  <2>2. [j \in 1 .. k |-> ItemLength(Append(l, item)[j])] = [j \in 1 .. k |-> ItemLength(l[j])]
    BY <2>1, Zenon
  <2> QED
    BY <2>2, Zenon DEF At
<1> QED
  BY <1>3, <1>4, <1>5

(* A window of a sequence. *)
LEMMA Window ==
    ASSUME NEW S, NEW s \in Seq(S), NEW c \in 0 .. Len(s), NEW a \in 0 .. c
    PROVE  /\ SubSeq(s, a + 1, c) \in Seq(S) /\ Len(SubSeq(s, a + 1, c)) = c - a
           /\ \A j \in 1 .. c - a : SubSeq(s, a + 1, c)[j] = s[a + j]
<1> DEFINE w == SubSeq(s, a + 1, c)
<1>0. Len(s) \in Nat /\ c \in Nat /\ a \in Nat /\ c - a \in Nat /\ a <= c /\ c <= Len(s)
  OBVIOUS
<1>1. w \in Seq(S)
  BY <1>0
<1>2. Len(w) = c - a
  BY <1>0
<1>3. \A j \in 1 .. c - a : w[j] = s[a + j]
  BY <1>0
<1> QED
  BY <1>1, <1>2, <1>3

(* Advancing a window. *)
LEMMA WindowAdvances ==
    ASSUME NEW S, NEW s \in Seq(S), NEW c \in 0 .. Len(s), NEW a \in Nat, NEW l \in Nat,
           a + l <= c
    PROVE  Drop(SubSeq(s, a + 1, c), l) = SubSeq(s, (a + l) + 1, c)
<1> DEFINE w == SubSeq(s, a + 1, c)
           u == Drop(w, l)
           x == SubSeq(s, (a + l) + 1, c)
           n == (c - a) - l
<1>0. c \in Nat /\ a \in 0 .. c /\ a + l \in 0 .. c /\ l \in 0 .. c - a /\ n \in Nat
  OBVIOUS
<1>1. w \in Seq(S) /\ Len(w) = c - a /\ \A j \in 1 .. c - a : w[j] = s[a + j]
  BY <1>0, Window
<1>2. x \in Seq(S) /\ Len(x) = c - (a + l) /\ \A j \in 1 .. c - (a + l) : x[j] = s[(a + l) + j]
  BY <1>0, Window
<1> HIDE DEF w, x, n
<1>3. u \in Seq(S) /\ Len(u) = (c - a) - l /\ \A j \in 1 .. (c - a) - l : u[j] = w[l + j]
  <2>1. w \in Seq(S) /\ l \in 0 .. Len(w)
    BY <1>0, <1>1
  <2>2. u \in Seq(S) /\ Len(u) = Len(w) - l /\ \A j \in 1 .. Len(w) - l : u[j] = w[l + j]
    BY <2>1, Dropped, Zenon
  <2> HIDE DEF u
  <2> QED
    BY <1>1, <2>2, Zenon
<1> HIDE DEF u
<1>4. \A j \in 1 .. n : u[j] = x[j]
  <2> SUFFICES ASSUME NEW j \in 1 .. n PROVE u[j] = x[j]
    OBVIOUS
  <2>1. l + j \in 1 .. c - a /\ j \in 1 .. c - (a + l) /\ a + (l + j) = (a + l) + j
    BY <1>0 DEF n
  <2>2. u[j] = w[l + j]
    BY <1>3 DEF n
  <2> QED
    BY <1>1, <1>2, <2>1, <2>2
<1>5. Len(u) = n /\ Len(x) = n
  BY <1>0, <1>2, <1>3 DEF n
<1>6. u = x
  BY <1>0, <1>2, <1>3, <1>4, <1>5, SameBytes
<1> QED
  BY <1>6 DEF u, x, w

-----------------------------------------------------------------------------
(* The record is its items one after another. *)
Laid ==
    /\ dst \in Seq(Byte) /\ log \in Seq(Items)
    /\ At(log, Len(log)) = Len(dst)
    /\ \A k \in 0 .. Len(log) : At(log, k) <= Len(dst)
    /\ \A k \in 1 .. Len(log) : \A j \in 1 .. ItemLength(log[k]) :
          dst[At(log, k - 1) + j] = Encoding(log[k])[j]

(* A reader that failed stands at the torn item, or behind its length. *)
Stopped ==
    \E p \in {0, PrefixLength(log[Len(got) + 1])} :
        /\ At(log, Len(got)) + p <= cut
        /\ input = SubSeq(dst, (At(log, Len(got)) + p) + 1, cut)

(* The reader stands at the end of the last item that it got. *)
Reading ==
    /\ input \in Seq(Byte) /\ cut \in 0 .. Len(dst) /\ Len(input) <= cut
    /\ got \in Seq({item.val : item \in Items}) /\ Len(got) <= Len(log)
    /\ \A j \in 1 .. Len(got) : got[j] = log[j].val
    /\ phase \in {"write", "read", "failed"}
    /\ phase = "write" => got = <<>> /\ input = <<>> /\ cut = 0
    /\ phase = "read" => /\ At(log, Len(got)) <= cut
                         /\ input = SubSeq(dst, At(log, Len(got)) + 1, cut)
    /\ phase = "failed" => /\ Len(got) < Len(log) /\ At(log, Len(got) + 1) > cut
                           /\ Stopped

(* Put appends an item to the record. *)
LEMMA PutStep ==
    ASSUME Laid, NEW item \in Items, Put(item)
    PROVE  Laid'
<1> DEFINE n == Len(log)
           e == Encoding(item)
<1>0. n \in Nat /\ dst \in Seq(Byte) /\ log \in Seq(Items) /\ At(log, n) = Len(dst)
      /\ Len(dst) \in Nat
  <2>1. dst \in Seq(Byte) /\ log \in Seq(Items) /\ At(log, n) = Len(dst)
    BY Zenon DEF Laid
  <2>2. n \in Nat /\ Len(dst) \in Nat
    BY <2>1
  <2> QED
    BY <2>1, <2>2, Zenon
<1>1. e \in Seq(Byte) /\ ItemLength(item) \in Nat /\ Len(e) = ItemLength(item)
  BY ItemIsWritten
<1>2. dst' = dst \o e /\ log' = Append(log, item)
  BY DEF Put
<1> HIDE DEF e
<1>3. /\ dst' \in Seq(Byte) /\ Len(dst') = Len(dst) + Len(e)
      /\ \A j \in 1 .. Len(dst) : dst'[j] = dst[j]
      /\ \A j \in 1 .. Len(e) : dst'[Len(dst) + j] = e[j]
  <2>1. dst \in Seq(Byte) /\ e \in Seq(Byte)
    BY <1>0, <1>1
  <2>2. /\ dst \o e \in Seq(Byte) /\ Len(dst \o e) = Len(dst) + Len(e)
        /\ \A j \in 1 .. Len(dst) : (dst \o e)[j] = dst[j]
        /\ \A j \in 1 .. Len(e) : (dst \o e)[Len(dst) + j] = e[j]
    BY <2>1, Concatenated
  <2> QED
    BY <1>2, <2>2, Zenon
<1>4. /\ log' \in Seq(Items) /\ Len(log') = n + 1 /\ log'[n + 1] = item
      /\ \A k \in 1 .. n : log'[k] = log[k]
  BY <1>0, <1>2
<1> HIDE DEF n
<1>5. \A k \in 0 .. n : At(log', k) = At(log, k) /\ At(log, k) \in Nat
  BY <1>0, <1>2, Positions DEF n
<1>6. At(log', n + 1) = Len(dst')
  <2>1. n + 1 \in 0 .. Len(log') /\ n + 1 # 0 /\ (n + 1) - 1 = n /\ n \in 0 .. n
    BY <1>0, <1>4
  <2>2. At(log', n + 1) = At(log', (n + 1) - 1) + ItemLength(log'[n + 1])
    BY <1>4, <2>1, Positions
  <2> QED
    BY <1>0, <1>1, <1>3, <1>4, <1>5, <2>1, <2>2
<1>7. ASSUME NEW k \in 0 .. Len(log') PROVE At(log', k) <= Len(dst')
  <2>1. CASE k = n + 1
    <3>1. Len(dst') \in Nat
      BY <1>3
    <3>2. At(log', k) = Len(dst')
      BY <1>6, <2>1, Zenon
    <3> QED
      BY <3>1, <3>2
  <2>2. CASE k # n + 1
    <3>1. k \in 0 .. n
      BY <1>0, <1>4, <2>2
    <3>2. At(log', k) = At(log, k) /\ At(log, k) \in Nat /\ At(log, k) <= Len(dst)
      BY <1>5, <3>1 DEF Laid, n
    <3> QED
      BY <1>0, <1>1, <1>3, <3>2
  <2> QED
    BY <2>1, <2>2
<1>8. ASSUME NEW k \in 1 .. Len(log'), NEW j \in 1 .. ItemLength(log'[k])
      PROVE  dst'[At(log', k - 1) + j] = Encoding(log'[k])[j]
  <2>1. CASE k = n + 1
    <3>1. k - 1 = n /\ n \in 0 .. n
      BY <1>0, <2>1
    <3>2. At(log', k - 1) = Len(dst) /\ log'[k] = item
      BY <1>0, <1>4, <1>5, <2>1, <3>1
    <3>3. j \in 1 .. Len(e)
      BY <1>1, <3>2
    <3> QED
      BY <1>3, <3>2, <3>3, Zenon DEF e
  <2>2. CASE k # n + 1
    <3>1. k \in 1 .. n /\ k - 1 \in 0 .. n /\ k \in 0 .. n /\ k # 0
      BY <1>0, <1>4, <2>2
    <3>2. At(log', k - 1) = At(log, k - 1) /\ At(log, k - 1) \in Nat /\ log'[k] = log[k]
      BY <1>4, <1>5, <3>1
    <3>3. At(log, k) = At(log, k - 1) + ItemLength(log[k]) /\ At(log, k) <= Len(dst)
      <4>1. k \in 0 .. Len(log)
        BY <3>1 DEF n
      <4> QED
        BY <1>0, <3>1, <4>1, Positions DEF Laid
    <3>4. ItemLength(log[k]) \in Nat
      <4>1. log[k] \in Items
        BY <1>0, <3>1 DEF n
      <4> QED
        BY <4>1, ItemIsWritten
    <3>5. j \in 1 .. ItemLength(log[k])
      BY <3>2
    <3> DEFINE a == At(log, k - 1)
               m == ItemLength(log[k])
    <3>6. a \in Nat /\ m \in Nat /\ a + m <= Len(dst) /\ j \in 1 .. m
      BY <3>2, <3>3, <3>4, <3>5
    <3>7. dst[a + j] = Encoding(log[k])[j]
      BY <3>1, <3>5 DEF Laid, n
    <3> HIDE DEF a, m
    <3>8. a + j \in 1 .. Len(dst)
      BY <1>0, <3>6
    <3>9. dst'[a + j] = dst[a + j]
      BY <1>3, <3>8
    <3> QED
      BY <3>2, <3>7, <3>9 DEF a
  <2> QED
    BY <2>1, <2>2
<1>9. At(log', Len(log')) = Len(dst')
  BY <1>4, <1>6
<1> QED
  BY <1>3, <1>4, <1>7, <1>8, <1>9 DEF Laid

(* Writing moves no reader, and opening starts one at the front. *)
LEMMA OpenStep ==
    ASSUME Laid, Laid', Reading, (\E item \in Items : Put(item)) \/ (\E c \in 0 .. Len(dst) : Open(c))
    PROVE  Reading'
<1>0. /\ dst \in Seq(Byte) /\ log \in Seq(Items) /\ dst' \in Seq(Byte) /\ log' \in Seq(Items)
      /\ Len(dst) \in Nat /\ Len(dst') \in Nat /\ Len(log) \in Nat /\ Len(log') \in Nat
  BY DEF Laid
<1>1. phase = "write" /\ got = <<>> /\ input = <<>> /\ cut = 0 /\ got' = got
  BY DEF Reading, Put, Open
<1>2. /\ got' = <<>> /\ got' \in Seq({item.val : item \in Items}) /\ Len(got') = 0
      /\ \A j \in 1 .. Len(got') : got'[j] = log'[j].val
  BY <1>1
<1>3. ASSUME NEW item \in Items, Put(item) PROVE Reading'
  <2>1. phase' = "write" /\ input' = <<>> /\ cut' = 0
    BY <1>1, <1>3 DEF Put
  <2>2. <<>> \in Seq(Byte) /\ Len(<<>>) = 0
    OBVIOUS
  <2>3. input' \in Seq(Byte) /\ cut' \in 0 .. Len(dst') /\ Len(input') <= cut'
    BY <1>0, <2>1, <2>2
  <2>4. Len(got') <= Len(log')
    BY <1>0, <1>2
  <2> QED
    BY <1>2, <2>1, <2>3, <2>4 DEF Reading
<1>4. ASSUME NEW c \in 0 .. Len(dst), Open(c) PROVE Reading'
  <2>1. /\ phase' = "read" /\ input' = SubSeq(dst, 1, c) /\ cut' = c
        /\ dst' = dst /\ log' = log
    BY <1>4 DEF Open
  <2>2. c \in Nat /\ 0 \in 0 .. c /\ 0 + 1 = 1 /\ c - 0 = c
    BY <1>0
  <2>3. SubSeq(dst, 0 + 1, c) \in Seq(Byte) /\ Len(SubSeq(dst, 0 + 1, c)) = c - 0
    BY <1>0, <2>2, Window
  <2>4. input' \in Seq(Byte) /\ Len(input') = c
    BY <2>1, <2>2, <2>3
  <2>5. At(log', 0) = 0
    <3>1. 0 \in 0 .. Len(log)
      BY <1>0
    <3> QED
      BY <1>0, <2>1, <3>1, Positions
  <2>6. At(log', Len(got')) <= cut' /\ input' = SubSeq(dst', At(log', Len(got')) + 1, cut')
    BY <1>2, <2>1, <2>2, <2>5
  <2>7. cut' \in 0 .. Len(dst') /\ Len(input') <= cut' /\ Len(got') <= Len(log')
    BY <1>0, <1>2, <2>1, <2>2, <2>4
  <2> QED
    BY <1>2, <2>1, <2>4, <2>6, <2>7, Zenon DEF Reading
<1> QED
  BY <1>3, <1>4

(* The next item as the reader sees it. *)
LEMMA NextItem ==
    ASSUME Laid, Reading, phase = "read", Len(got) < Len(log)
    PROVE  LET k == Len(got) + 1
           IN /\ k \in 1 .. Len(log) /\ log[k] \in Items
              /\ ItemLength(log[k]) \in Nat
              /\ At(log, k - 1) \in Nat
              /\ At(log, k) = At(log, k - 1) + ItemLength(log[k])
              /\ k - 1 = Len(got)
              /\ cut \in Nat
              /\ Len(input) = cut - At(log, k - 1)
              /\ Holds(input, Encoding(log[k]))
<1> DEFINE k == Len(got) + 1
           a == At(log, k - 1)
           m == ItemLength(log[k])
<1>0. /\ dst \in Seq(Byte) /\ log \in Seq(Items) /\ Len(dst) \in Nat /\ Len(log) \in Nat
      /\ Len(got) \in Nat /\ cut \in 0 .. Len(dst) /\ cut \in Nat
      /\ At(log, Len(got)) <= cut /\ input = SubSeq(dst, At(log, Len(got)) + 1, cut)
  BY DEF Laid, Reading
<1>1. k \in 1 .. Len(log) /\ k \in 0 .. Len(log) /\ k # 0 /\ k - 1 = Len(got)
      /\ k - 1 \in 0 .. Len(log)
  BY <1>0
<1> HIDE DEF k
<1>2. log[k] \in Items
  BY <1>0, <1>1
<1>3. m \in Nat /\ Len(Encoding(log[k])) = m
  BY <1>2, ItemIsWritten
<1>4. a \in Nat /\ At(log, k) = a + m
  BY <1>0, <1>1, Positions
<1>5. a <= cut /\ input = SubSeq(dst, a + 1, cut)
  BY <1>0, <1>1, Zenon
<1> HIDE DEF a
<1>6. Len(input) = cut - a /\ \A j \in 1 .. cut - a : input[j] = dst[a + j]
  <2>1. a \in 0 .. cut
    BY <1>0, <1>4, <1>5
  <2>2. /\ Len(SubSeq(dst, a + 1, cut)) = cut - a
        /\ \A j \in 1 .. cut - a : SubSeq(dst, a + 1, cut)[j] = dst[a + j]
    BY <1>0, <2>1, Window
  <2> QED
    BY <1>5, <2>2, Zenon
<1>7. Holds(input, Encoding(log[k]))
  <2> SUFFICES ASSUME NEW j \in 1 .. Len(input), j <= Len(Encoding(log[k]))
               PROVE  input[j] = Encoding(log[k])[j]
    BY DEF Holds
  <2>1. j \in 1 .. m /\ j \in 1 .. cut - a
    <3>1. j \in 1 .. cut - a
      BY <1>6
    <3>2. j <= m
      BY <1>3
    <3> HIDE DEF m
    <3>3. j \in Nat /\ 1 <= j
      BY <1>0, <1>4, <3>1
    <3> QED
      BY <1>3, <3>1, <3>2, <3>3
  <2>2. dst[a + j] = Encoding(log[k])[j]
    BY <1>1, <2>1 DEF Laid, a
  <2> QED
    BY <1>6, <2>1, <2>2
<1> QED
  BY <1>0, <1>1, <1>2, <1>3, <1>4, <1>6, <1>7 DEF k, a

(* A Get takes the next item, or fails because it is torn. *)
LEMMA GetStep ==
    ASSUME Laid, Reading, Get
    PROVE  Reading'
<1> DEFINE k == Len(got) + 1
           a == At(log, k - 1)
           item == log[k]
           m == ItemLength(item)
           V == {i.val : i \in Items}
<1>0. /\ phase = "read" /\ Len(got) < Len(log) /\ dst' = dst /\ log' = log /\ cut' = cut
      /\ dst \in Seq(Byte) /\ log \in Seq(Items) /\ Len(dst) \in Nat /\ Len(log) \in Nat
      /\ input \in Seq(Byte) /\ Len(input) \in Nat /\ Len(input) <= cut
      /\ cut \in 0 .. Len(dst) /\ got \in Seq(V) /\ Len(got) \in Nat
      /\ input = SubSeq(dst, At(log, Len(got)) + 1, cut)
      /\ \A j \in 1 .. Len(got) : got[j] = log[j].val
  <2>1. phase = "read" /\ Len(got) < Len(log) /\ dst' = dst /\ log' = log /\ cut' = cut
    BY Zenon DEF Get
  <2>2. dst \in Seq(Byte) /\ log \in Seq(Items)
    BY Zenon DEF Laid
  <2>3. /\ input \in Seq(Byte) /\ Len(input) <= cut /\ cut \in 0 .. Len(dst) /\ got \in Seq(V)
        /\ input = SubSeq(dst, At(log, Len(got)) + 1, cut)
        /\ \A j \in 1 .. Len(got) : got[j] = log[j].val
    BY <2>1, Zenon DEF Reading
  <2>4. /\ Len(dst) \in Nat /\ Len(log) \in Nat /\ Len(input) \in Nat /\ Len(got) \in Nat
    <3> HIDE DEF V
    <3> QED
      BY <2>2, <2>3
  <2> QED
    BY <2>1, <2>2, <2>3, <2>4, Zenon
<1>1. /\ k \in 1 .. Len(log) /\ item \in Items /\ m \in Nat /\ a \in Nat
      /\ At(log, k) = a + m /\ k - 1 = Len(got) /\ cut \in Nat
      /\ Len(input) = cut - a /\ Holds(input, Encoding(item))
  BY <1>0, NextItem
<1>2. PICK d \in Decoded(item.kind) :
         /\ input' = d.rest
         /\ IF d.ok THEN got' = Append(got, d.value) /\ UNCHANGED phase
                    ELSE phase' = "failed" /\ UNCHANGED got
  BY DEF Get
<1>3. IF m <= Len(input) THEN d.ok /\ d.value = item.val /\ d.rest = Drop(input, m)
                         ELSE ~d.ok /\ \E p \in {0, PrefixLength(item)} : p <= Len(input) /\ d.rest = Drop(input, p)
  BY <1>0, <1>1, ItemIsRead, Zenon
<1>4. item.val \in V
  BY <1>1
<1>5. k = Len(got) + 1 /\ item = log[k] /\ a = At(log, Len(got))
  BY <1>1
<1>p. PrefixLength(item) \in Nat
  BY <1>1, PrefixIsNat
<1> HIDE DEF k, a, item, m, V
<1>6. CASE m <= Len(input)
  <2>1. d.ok /\ input' = Drop(input, m) /\ got' = Append(got, item.val) /\ phase' = "read"
    BY <1>0, <1>2, <1>3, <1>6
  <2>2. got' \in Seq(V) /\ Len(got') = k
    BY <1>0, <1>4, <1>5, <2>1
  <2>3. \A j \in 1 .. Len(got') : got'[j] = log'[j].val
    <3> SUFFICES ASSUME NEW j \in 1 .. k PROVE got'[j] = log[j].val
      BY <1>0, <2>2, Zenon
    <3>1. CASE j = k
      BY <1>0, <1>4, <1>5, <2>1, <3>1
    <3>2. CASE j # k
      <4>1. j \in 1 .. Len(got)
        BY <1>0, <1>5, <3>2
      <4>2. got'[j] = got[j]
        BY <1>0, <1>4, <2>1, <4>1
      <4> QED
        BY <1>0, <4>1, <4>2
    <3> QED
      BY <3>1, <3>2
  <2>4. a + m <= cut /\ a + m \in Nat /\ m \in 0 .. Len(input)
    BY <1>0, <1>1, <1>6
  <2>5. input' \in Seq(Byte) /\ Len(input') = Len(input) - m
    BY <1>0, <2>1, <2>4, Dropped, Zenon
  <2>6. input' = SubSeq(dst, (a + m) + 1, cut)
    <3>1. Drop(SubSeq(dst, a + 1, cut), m) = SubSeq(dst, (a + m) + 1, cut)
      <4>1. /\ dst \in Seq(Byte) /\ cut \in 0 .. Len(dst) /\ a \in Nat /\ m \in Nat
            /\ a + m <= cut
        BY <1>0, <1>1, <2>4
      <4> QED
        BY <4>1, WindowAdvances, Zenon
    <3> QED
      BY <1>0, <1>5, <2>1, <3>1, Zenon
  <2>7. At(log', Len(got')) = a + m
    BY <1>0, <1>1, <2>2
  <2>8. Len(input') <= cut' /\ cut' \in 0 .. Len(dst') /\ Len(got') <= Len(log')
    BY <1>0, <1>1, <2>2, <2>4, <2>5
  <2>9. At(log', Len(got')) <= cut' /\ input' = SubSeq(dst', At(log', Len(got')) + 1, cut')
    BY <1>0, <2>4, <2>6, <2>7
  <2> QED
    BY <2>1, <2>2, <2>3, <2>5, <2>8, <2>9, Zenon DEF Reading, V
<1>7. CASE ~(m <= Len(input))
  <2>p. PICK p \in {0, PrefixLength(item)} : p <= Len(input) /\ d.rest = Drop(input, p)
    BY <1>3, <1>7
  <2>q. /\ p \in Nat /\ p \in 0 .. Len(input) /\ a + p <= cut
    <3>1. /\ p \in Nat /\ p <= Len(input) /\ a \in Nat /\ cut \in Nat
          /\ Len(input) \in Nat /\ Len(input) = cut - a
      BY <1>0, <1>1, <1>p, <2>p
    <3> QED
      BY <3>1
  <2>r. ~d.ok /\ input' = Drop(input, p) /\ got' = got /\ phase' = "failed"
    BY <1>2, <1>3, <1>7, <2>p
  <2>1. /\ ~d.ok /\ input' \in Seq(Byte) /\ Len(input') <= Len(input)
        /\ got' = got /\ phase' = "failed"
    <3>1. Drop(input, p) \in Seq(Byte) /\ Len(Drop(input, p)) = Len(input) - p
      BY <1>0, <2>q, Dropped
    <3>2. Len(input') = Len(input) - p
      BY <2>r, <3>1
    <3> QED
      BY <1>0, <2>q, <2>r, <3>1, <3>2
  <2>s. Stopped'
    <3>1. Drop(SubSeq(dst, a + 1, cut), p) = SubSeq(dst, (a + p) + 1, cut)
      <4>1. /\ dst \in Seq(Byte) /\ cut \in 0 .. Len(dst) /\ a \in Nat /\ p \in Nat
            /\ a + p <= cut
        BY <1>0, <1>1, <2>q, Zenon
      <4> QED
        BY <4>1, WindowAdvances, Zenon
    <3>2. input' = SubSeq(dst, (a + p) + 1, cut)
      BY <1>0, <1>5, <2>r, <3>1, Zenon
    <3>3. /\ dst' = dst /\ cut' = cut /\ At(log', Len(got')) = a
          /\ log'[Len(got') + 1] = item
      BY <1>0, <1>5, <2>r, Zenon
    <3> QED
      BY <2>p, <2>q, <3>2, <3>3, Zenon DEF Stopped
  <2>2. At(log', Len(got') + 1) > cut'
    <3>1. a + m > cut
      <4>1. m \in Nat /\ a \in Nat /\ cut \in Nat /\ Len(input) = cut - a
        BY <1>1, Zenon
      <4> QED
        BY <1>7, <4>1
    <3>2. At(log', Len(got') + 1) = a + m
      BY <1>0, <1>1, <1>5, <2>1
    <3> QED
      BY <1>0, <3>1, <3>2
  <2>3. Len(input') <= cut' /\ cut' \in 0 .. Len(dst')
    <3>1. cut' = cut /\ dst' = dst /\ cut \in 0 .. Len(dst) /\ Len(input) <= cut
          /\ Len(input') <= Len(input)
      BY <1>0, <2>1, Zenon
    <3>2. Len(input') \in Nat /\ Len(input) \in Nat /\ Len(dst) \in Nat
      BY <1>0, <2>1
    <3> QED
      BY <3>1, <3>2
  <2>4. Len(got') < Len(log') /\ Len(got') <= Len(log')
    BY <1>0, <2>1
  <2>5. got' \in Seq(V) /\ \A j \in 1 .. Len(got') : got'[j] = log'[j].val
    BY <1>0, <2>1
  <2> QED
    BY <2>1, <2>2, <2>3, <2>4, <2>5, <2>s DEF Reading, V
<1> QED
  BY <1>6, <1>7

(* The inductive invariant. *)
LEMMA Invariance == Spec => [](Laid /\ Reading)
<1>1. Init => Laid /\ Reading
  <2> SUFFICES ASSUME Init PROVE Laid /\ Reading
    OBVIOUS
  <2>0. /\ dst = <<>> /\ log = <<>> /\ input = <<>> /\ cut = 0 /\ got = <<>>
        /\ phase = "write"
    BY DEF Init
  <2>1. /\ <<>> \in Seq(Byte) /\ <<>> \in Seq(Items) /\ Len(<<>>) = 0
        /\ <<>> \in Seq({item.val : item \in Items})
    OBVIOUS
  <2>2. At(<<>>, 0) = 0
    <3>1. 0 \in 0 .. Len(<<>>)
      BY <2>1
    <3> QED
      BY <2>1, <3>1, Positions, Zenon
  <2>3. Laid
    <3>1. \A k \in 0 .. 0 : k = 0
      OBVIOUS
    <3>2. 1 .. 0 = {}
      OBVIOUS
    <3>3. \A k \in 0 .. 0 : At(<<>>, k) <= 0
      BY <2>2, <3>1
    <3> QED
      BY <2>0, <2>1, <2>2, <3>2, <3>3 DEF Laid
  <2>4. Reading
    BY <2>0, <2>1 DEF Reading
  <2> QED
    BY <2>3, <2>4
<1>2. (Laid /\ Reading) /\ [Next]_vars => (Laid /\ Reading)'
  <2> SUFFICES ASSUME Laid, Reading, [Next]_vars PROVE Laid' /\ Reading'
    OBVIOUS
  <2>1. ASSUME NEW item \in Items, Put(item) PROVE Laid' /\ Reading'
    BY <2>1, PutStep, OpenStep
  <2>2. ASSUME NEW c \in 0 .. Len(dst), Open(c) PROVE Laid' /\ Reading'
    <3>1. Laid'
      BY <2>2 DEF Open, Laid
    <3> QED
      BY <2>2, <3>1, OpenStep
  <2>3. CASE Get
    <3>1. Laid'
      BY <2>3 DEF Get, Laid
    <3> QED
      BY <2>3, <3>1, GetStep
  <2>4. CASE UNCHANGED vars
    <3>1. /\ dst' = dst /\ log' = log /\ input' = input /\ cut' = cut /\ got' = got
          /\ phase' = phase
      BY <2>4, Zenon DEF vars
    <3>2. Laid'
      BY <3>1, Zenon DEF Laid
    <3>3. Reading'
      BY <3>1, Zenon DEF Reading, Stopped
    <3> QED
      BY <3>2, <3>3
  <2> QED
    BY <2>1, <2>2, <2>3, <2>4 DEF Next
<1> QED
  BY <1>1, <1>2, PTL DEF Spec

(* Every Put appends bytes and nothing wider, and no Get takes more than   *)
(* the reader was given.                                                   *)
THEOREM Types == Spec => []TypeOK
<1>1. Laid /\ Reading => TypeOK
  BY DEF Laid, Reading, TypeOK
<1> QED
  BY <1>1, Invariance, PTL

(* Whatever was put next to it and wherever the record was cut, a Get that *)
(* succeeds returns what was put.                                          *)
THEOREM RoundTrip == Spec => []GetsReturnWhatWasPut
<1>1. Reading => GetsReturnWhatWasPut
  BY DEF Reading, GetsReturnWhatWasPut
<1> QED
  BY <1>1, Invariance, PTL

(* The reader gets the whole items before the cut, one after another, and  *)
(* fails at the torn one, where it stops; VarintLength tells where each    *)
(* ends.                                                                   *)
THEOREM StopsAtTheCut == Spec => []GetsStopAtTheCut
<1>0. \A k : RecordLength(k) = At(log, k)
  BY DEF RecordLength, At
<1>1. Laid /\ Reading => GetsStopAtTheCut
  BY <1>0 DEF Laid, Reading, Stopped, GetsStopAtTheCut
<1> QED
  BY <1>1, Invariance, PTL
=============================================================================
