----------------------------- MODULE SliceProofs -----------------------------
(***************************************************************************)
(* Slices stay inside their storage, the comparisons are the order of      *)
(* strings, and Hash loses nothing of a word or of the tail, for every     *)
(* storage, every width of a byte and any number of slices.                *)
(***************************************************************************)
EXTENDS Hash, ArithmeticProofs, SequenceTheorems

(* Min finds the least element. *)
LEMMA Minimum ==
    ASSUME NEW S \in SUBSET Nat, S # {}
    PROVE  Min(S) \in S /\ \A y \in S : Min(S) <= y
<1>1. \E z \in S : \A y \in S : z <= y
  BY Least
<1> QED
  BY <1>1, Zenon DEF Min

-----------------------------------------------------------------------------
(* The terminator and the literal are zero bytes; compare can hold the     *)
(* length of the storage.                                                  *)
IInv ==
    /\ length \in Nat /\ length <= IntMax
    /\ memory[length] = 0 /\ memory[Literal] = 0
    /\ TypeOK

(* strlen stays inside the storage. *)
LEMMA Strlen ==
    ASSUME IInv, NEW d \in 0 .. Literal
    PROVE  /\ strlen(d) \in 0 .. length
           /\ d = Literal => strlen(d) = 0
           /\ d # Literal => d + strlen(d) <= length
<1> DEFINE zeros == {a \in d .. Literal : memory[a] = 0}
<1>0. length \in Nat /\ Literal = length + 1 /\ d \in Nat
  BY DEF IInv, Literal
<1>1. zeros \in SUBSET Nat /\ Literal \in zeros
  BY <1>0 DEF IInv
<1>2. d <= length => length \in zeros
  BY <1>0 DEF IInv
<1>3. \A z \in zeros : d <= z /\ z <= Literal
  BY <1>0
<1>4. strlen(d) = Min(zeros) - d
  BY DEF strlen
<1>5. zeros # {}
  BY <1>1
<1> HIDE DEF zeros
<1>6. Min(zeros) \in zeros /\ \A y \in zeros : Min(zeros) <= y
  BY <1>1, <1>5, Minimum
<1>7. Min(zeros) \in Nat /\ d <= Min(zeros) /\ Min(zeros) <= Literal
  BY <1>1, <1>3, <1>6, Zenon
<1>8. d <= length => Min(zeros) <= length
  BY <1>2, <1>6
<1> QED
  BY <1>0, <1>4, <1>7, <1>8

(* A slice that is made to point inside the storage. *)
LEMMA ReferStep ==
    ASSUME IInv, NEW x \in Slices, NEW d \in 0 .. Literal, NEW n \in 0 .. length,
           d = Literal => n = 0, d # Literal => d + n <= length,
           Refer(x, d, n)
    PROVE  IInv'
<1>1. /\ UNCHANGED <<memory, length>> /\ Literal' = Literal
      /\ data_' = [data_ EXCEPT ![x] = d] /\ size_' = [size_ EXCEPT ![x] = n]
  BY DEF Refer, Literal
<1>2. data_' \in [Slices -> 0 .. Literal] /\ size_' \in [Slices -> 0 .. length]
  BY <1>1 DEF IInv, TypeOK
<1>3. \A y \in Slices : /\ data_'[y] = IF y = x THEN d ELSE data_[y]
                        /\ size_'[y] = IF y = x THEN n ELSE size_[y]
  BY <1>1 DEF IInv, TypeOK
<1>4. \A y \in Slices : data_'[y] = Literal => size_'[y] = 0
  BY <1>3 DEF IInv, TypeOK
<1>5. \A y \in Slices : data_'[y] # Literal => data_'[y] + size_'[y] <= length
  BY <1>3, Zenon DEF IInv, TypeOK
<1> QED
  BY <1>1, <1>2, <1>4, <1>5 DEF IInv, TypeOK

(* The invariant holds of every behaviour. *)
LEMMA Invariance == Spec => []IInv
<1>1. Init => IInv
  <2> SUFFICES ASSUME Init PROVE IInv
    OBVIOUS
  <2>1. PICK t \in Texts :
          /\ length = Len(t)
          /\ memory = [a \in 0 .. length + 1 |-> IF a < length THEN t[a + 1] ELSE 0]
          /\ data_ = [x \in Slices |-> Literal]
          /\ size_ = [x \in Slices |-> 0]
    BY DEF Init
  <2>2. t \in Seq(Byte) /\ length \in Nat /\ length <= IntMax
    BY <2>1, TextsAssumption
  <2>3. 0 \in Byte
    <3>1. Digits * Digits >= 1
      BY DigitsAssumption
    <3> QED
      BY <3>1, DigitsAssumption DEF Byte
  <2>4. \A a \in 0 .. length + 1 : (IF a < length THEN t[a + 1] ELSE 0) \in Byte
    <3> SUFFICES ASSUME NEW a \in 0 .. length + 1, a < length PROVE t[a + 1] \in Byte
      BY <2>3
    <3>1. a + 1 \in 1 .. Len(t)
      BY <2>1, <2>2
    <3> QED
      BY <2>2, <3>1
  <2>5. memory \in [0 .. Literal -> Byte]
    BY <2>1, <2>4 DEF Literal
  <2>6. memory[length] = 0 /\ memory[Literal] = 0
    BY <2>1, <2>2 DEF Literal
  <2>7. data_ \in [Slices -> 0 .. Literal] /\ size_ \in [Slices -> 0 .. length]
    BY <2>1, <2>2 DEF Literal
  <2> QED
    BY <2>1, <2>2, <2>5, <2>6, <2>7 DEF IInv, TypeOK
<1>2. IInv /\ [Next]_vars => IInv'
  <2> SUFFICES ASSUME IInv, [Next]_vars PROVE IInv'
    OBVIOUS
  <2>0. length \in Nat /\ Literal = length + 1
    BY DEF IInv, Literal
  <2>1. CASE UNCHANGED vars
    BY <2>1 DEF vars, IInv, TypeOK, Literal
  <2>2. ASSUME NEW x \in Slices, NEW d \in 0 .. length, NEW n \in 0 .. length,
               Construct(x, d, n)
        PROVE  IInv'
    BY <2>0, <2>2, ReferStep DEF Construct
  <2>3. ASSUME NEW x \in Slices, NEW n \in 0 .. length, remove_prefix(x, n)
        PROVE  IInv'
    <3>1. n <= size_[x] /\ Refer(x, data_[x] + n, size_[x] - n)
      BY <2>3 DEF remove_prefix
    <3>2. /\ data_[x] \in 0 .. Literal /\ size_[x] \in 0 .. length
          /\ data_[x] = Literal => size_[x] = 0
          /\ data_[x] # Literal => data_[x] + size_[x] <= length
      BY DEF IInv, TypeOK
    <3>3. /\ data_[x] + n \in 0 .. Literal /\ size_[x] - n \in 0 .. length
          /\ data_[x] + n = Literal => size_[x] - n = 0
          /\ data_[x] + n # Literal => (data_[x] + n) + (size_[x] - n) <= length
      BY <2>0, <3>1, <3>2
    <3> QED
      BY <3>1, <3>3, ReferStep
  <2>4. ASSUME NEW x \in Slices, ConstructFromString(x) PROVE IInv'
    BY <2>0, <2>4, ReferStep DEF ConstructFromString
  <2>5. ASSUME NEW x \in Slices, NEW d \in 0 .. Literal, ConstructFromChars(x, d)
        PROVE  IInv'
    BY <2>5, Strlen, ReferStep DEF ConstructFromChars
  <2>6. ASSUME NEW x \in Slices, NEW y \in Slices, Assign(x, y) PROVE IInv'
    BY <2>6, ReferStep, Zenon DEF Assign, IInv, TypeOK
  <2>7. ASSUME NEW x \in Slices, clear(x) PROVE IInv'
    BY <2>0, <2>7, ReferStep DEF clear
  <2> QED
    BY <2>1, <2>2, <2>3, <2>4, <2>5, <2>6, <2>7 DEF Next
<1> QED
  BY <1>1, <1>2, PTL DEF Spec

(* Every slice stays inside the storage, whatever sequence of              *)
(* constructions, assignments, clear and remove_prefix it went through,    *)
(* for every storage.                                                      *)
THEOREM Inside == Spec => []TypeOK
<1>1. IInv => TypeOK
  BY DEF IInv
<1> QED
  BY <1>1, Invariance, PTL

-----------------------------------------------------------------------------
(* Sequences are equal when their elements are. *)
LEMMA SameElements ==
    ASSUME NEW u \in Seq(Int), NEW v \in Seq(Int), Len(u) = Len(v),
           \A j \in 1 .. Len(u) : u[j] = v[j]
    PROVE  u = v
BY SeqEqual, Zenon

(* What a prefix is. *)
LEMMA Prefix ==
    ASSUME NEW s \in Seq(Int), NEW k \in Nat, k <= Len(s)
    PROVE  /\ SubSeq(s, 1, k) \in Seq(Int) /\ Len(SubSeq(s, 1, k)) = k
           /\ \A i \in 1 .. k : SubSeq(s, 1, k)[i] = s[i]
<1>1. Len(s) \in Nat /\ 1 \in Int /\ k \in Int
  OBVIOUS
<1>2. \A i \in 1 .. k : i \in 1 .. Len(s)
  BY <1>1
<1>3. \A i \in 1 .. k : s[i] \in Int
  BY <1>2, ElementOfSeq, Zenon
<1>4. /\ SubSeq(s, 1, k) \in Seq(Int)
      /\ Len(SubSeq(s, 1, k)) = IF 1 <= k THEN k - 1 + 1 ELSE 0
      /\ \A i \in 1 .. k - 1 + 1 : SubSeq(s, 1, k)[i] = s[1 + i - 1]
  BY <1>1, <1>3, SubSeqProperties
<1>5. (IF 1 <= k THEN k - 1 + 1 ELSE 0) = k /\ k - 1 + 1 = k
  OBVIOUS
<1>6. \A i \in 1 .. k : 1 + i - 1 = i
  OBVIOUS
<1> QED
  BY <1>4, <1>5, <1>6, Zenon

(* Prefixes of the same length are equal byte by byte. *)
LEMMA Prefixes ==
    ASSUME NEW s \in Seq(Int), NEW t \in Seq(Int), NEW k \in Nat,
           k <= Len(s), k <= Len(t)
    PROVE  SubSeq(s, 1, k) = SubSeq(t, 1, k) <=> \A i \in 1 .. k : s[i] = t[i]
<1>1. /\ SubSeq(s, 1, k) \in Seq(Int) /\ Len(SubSeq(s, 1, k)) = k
      /\ \A i \in 1 .. k : SubSeq(s, 1, k)[i] = s[i]
  BY Prefix, Zenon
<1>2. /\ SubSeq(t, 1, k) \in Seq(Int) /\ Len(SubSeq(t, 1, k)) = k
      /\ \A i \in 1 .. k : SubSeq(t, 1, k)[i] = t[i]
  BY Prefix, Zenon
<1> DEFINE p == SubSeq(s, 1, k)
           q == SubSeq(t, 1, k)
<1> HIDE DEF p, q
<1>3. (\A i \in 1 .. k : p[i] = q[i]) => p = q
  BY <1>1, <1>2, SameElements, Zenon DEF p, q
<1> QED
  BY <1>1, <1>2, <1>3 DEF p, q

(* What Below says of the bytes: t goes on where s ends, or is larger at   *)
(* the first difference.                                                   *)
LEMMA BelowByByte ==
    ASSUME NEW s \in Seq(Int), NEW t \in Seq(Int)
    PROVE  Below(s, t) <=>
             \E k \in Nat :
                /\ k <= Len(s) /\ k < Len(t)
                /\ \A i \in 1 .. k : s[i] = t[i]
                /\ k = Len(s) \/ s[k + 1] < t[k + 1]
<1>1. Len(s) \in Nat /\ Len(t) \in Nat
  OBVIOUS
<1>2. \A k \in Nat : k <= Len(s) /\ k <= Len(t) =>
         (SubSeq(s, 1, k) = SubSeq(t, 1, k) <=> \A i \in 1 .. k : s[i] = t[i])
  BY Prefixes
<1>3. ASSUME Below(s, t)
      PROVE  \E k \in Nat :
                /\ k <= Len(s) /\ k < Len(t)
                /\ \A i \in 1 .. k : s[i] = t[i]
                /\ k = Len(s) \/ s[k + 1] < t[k + 1]
  <2>1. PICK k \in 0 .. Len(s) :
          /\ k <= Len(t)
          /\ SubSeq(s, 1, k) = SubSeq(t, 1, k)
          /\ IF k = Len(s) THEN k < Len(t) ELSE k < Len(t) /\ s[k + 1] < t[k + 1]
    BY <1>3 DEF Below
  <2> QED
    BY <1>1, <1>2, <2>1
<1>4. ASSUME NEW k \in Nat, k <= Len(s), k < Len(t), \A i \in 1 .. k : s[i] = t[i],
             k = Len(s) \/ s[k + 1] < t[k + 1]
      PROVE  Below(s, t)
  <2>1. k \in 0 .. Len(s) /\ k <= Len(t) /\ SubSeq(s, 1, k) = SubSeq(t, 1, k)
    BY <1>1, <1>2, <1>4
  <2> QED
    BY <1>4, <2>1 DEF Below
<1> QED
  BY <1>3, <1>4

(* memcmp finds the first difference. *)
LEMMA Memcmp ==
    ASSUME IInv, NEW a \in Nat, NEW b \in Nat, NEW n \in Nat,
           n > 0 => a + n - 1 <= Literal /\ b + n - 1 <= Literal
    PROVE  \/ /\ memcmp(a, b, n) = 0
              /\ \A i \in 0 .. n - 1 : memory[a + i] = memory[b + i]
           \/ /\ memcmp(a, b, n) = -1
              /\ \E k \in 0 .. n - 1 :
                    /\ \A i \in 0 .. k - 1 : memory[a + i] = memory[b + i]
                    /\ memory[a + k] < memory[b + k]
           \/ /\ memcmp(a, b, n) = 1
              /\ \E k \in 0 .. n - 1 :
                    /\ \A i \in 0 .. k - 1 : memory[a + i] = memory[b + i]
                    /\ memory[b + k] < memory[a + k]
<1> DEFINE diff == {i \in 0 .. n - 1 : memory[a + i] # memory[b + i]}
<1>1. CASE diff = {}
  <2>1. memcmp(a, b, n) = 0
    BY <1>1 DEF memcmp
  <2> QED
    BY <1>1, <2>1, Zenon
<1>2. CASE diff # {}
  <2> DEFINE k == Min(diff)
  <2>1. diff \in SUBSET Nat
    OBVIOUS
  <2>2. k \in diff /\ \A y \in diff : k <= y
    <3> HIDE DEF diff
    <3> QED
      BY <1>2, <2>1, Minimum
  <2>3. memcmp(a, b, n) = IF memory[a + k] < memory[b + k] THEN -1 ELSE 1
    BY <1>2 DEF memcmp
  <2> HIDE DEF k
  <2>4. k \in 0 .. n - 1 /\ memory[a + k] # memory[b + k]
    BY <2>2
  <2>5. \A i \in 0 .. k - 1 : memory[a + i] = memory[b + i]
    BY <2>2, <2>4
  <2>6. memory[a + k] \in Int /\ memory[b + k] \in Int
    <3>1. a + k \in 0 .. Literal /\ b + k \in 0 .. Literal
      BY <2>4 DEF IInv, Literal
    <3> QED
      BY <3>1, DigitsAssumption DEF IInv, TypeOK, Byte
  <2> QED
    BY <2>3, <2>4, <2>5, <2>6
<1> QED
  BY <1>1, <1>2

(* What Content returns. *)
LEMMA Contents ==
    ASSUME IInv, NEW x \in Slices
    PROVE  /\ Content(x) \in Seq(Int) /\ Len(Content(x)) = size_[x]
           /\ \A i \in 0 .. size_[x] - 1 : Content(x)[i + 1] = memory[data_[x] + i]
           /\ data_[x] \in Nat /\ size_[x] \in Nat /\ size_[x] <= length
           /\ data_[x] + size_[x] <= Literal
<1>1. /\ data_[x] \in 0 .. Literal /\ size_[x] \in 0 .. length
      /\ length \in Nat /\ Literal = length + 1
      /\ data_[x] = Literal => size_[x] = 0
      /\ data_[x] # Literal => data_[x] + size_[x] <= length
  BY DEF IInv, TypeOK, Literal
<1>2. data_[x] + size_[x] <= Literal
  BY <1>1
<1>3. \A i \in 1 .. size_[x] : memory[data_[x] + i - 1] \in Int
  <2> SUFFICES ASSUME NEW i \in 1 .. size_[x] PROVE memory[data_[x] + i - 1] \in Int
    OBVIOUS
  <2>1. data_[x] + i - 1 \in 0 .. Literal
    BY <1>1, <1>2
  <2> QED
    BY <2>1, DigitsAssumption DEF IInv, TypeOK, Byte
<1>4. Content(x) \in Seq(Int) /\ Len(Content(x)) = size_[x]
  BY <1>1, <1>3 DEF Content
<1>5. \A i \in 0 .. size_[x] - 1 : Content(x)[i + 1] = memory[data_[x] + i]
  BY <1>1 DEF Content
<1> QED
  BY <1>1, <1>2, <1>4, <1>5

(* A length of the storage survives the int of compare. *)
LEMMA Narrow ==
    ASSUME NEW n \in 0 .. IntMax
    PROVE  ToInt(n) = n
<1>1. /\ IntMax \in Nat /\ 2 * (IntMax + 1) \in Nat \ {0}
      /\ n + IntMax + 1 \in 0 .. 2 * (IntMax + 1) - 1
  BY TextsAssumption
<1>2. (n + IntMax + 1) % (2 * (IntMax + 1)) = n + IntMax + 1
  BY <1>1, Small
<1> QED
  BY <1>1, <1>2 DEF ToInt

(* The shorter of two lengths. *)
LEMMA Shorter ==
    ASSUME NEW p \in Nat, NEW q \in Nat
    PROVE  Min({p, q}) = IF p <= q THEN p ELSE q
<1>1. Min({p, q}) \in {p, q} /\ \A y \in {p, q} : Min({p, q}) <= y
  BY Minimum
<1> QED
  BY <1>1

(* compare by bytes: the first difference decides, and the lengths when    *)
(* there is none.                                                          *)
Precedes(s, t) ==
    \E k \in Nat : /\ k < Len(s) /\ k < Len(t)
                   /\ \A i \in 1 .. k : s[i] = t[i]
                   /\ s[k + 1] < t[k + 1]

SameUpTo(s, t, n) == \A i \in 1 .. n : s[i] = t[i]

(* What memcmp says of two slices and a length that is in both. *)
LEMMA MemcmpOfContents ==
    ASSUME IInv, NEW x \in Slices, NEW y \in Slices, NEW n \in Nat,
           n <= size_[x], n <= size_[y]
    PROVE  LET r == memcmp(data_[x], data_[y], n)
           IN \/ r = 0 /\ SameUpTo(Content(x), Content(y), n)
              \/ r = -1 /\ Precedes(Content(x), Content(y))
              \/ r = 1 /\ Precedes(Content(y), Content(x))
<1> DEFINE a == data_[x]
           b == data_[y]
           s == Content(x)
           t == Content(y)
           r == memcmp(a, b, n)
<1>1. /\ a \in Nat /\ b \in Nat /\ Len(s) = size_[x] /\ Len(t) = size_[y]
      /\ size_[x] \in Nat /\ size_[y] \in Nat /\ Literal \in Nat
      /\ a + size_[x] <= Literal /\ b + size_[y] <= Literal
  BY Contents DEF IInv, Literal
<1>2. /\ \A i \in 0 .. n - 1 : s[i + 1] = memory[a + i]
      /\ \A i \in 0 .. n - 1 : t[i + 1] = memory[b + i]
  <2>1. /\ \A i \in 0 .. size_[x] - 1 : s[i + 1] = memory[a + i]
        /\ \A i \in 0 .. size_[y] - 1 : t[i + 1] = memory[b + i]
    BY Contents, Zenon
  <2>2. \A i \in 0 .. n - 1 : i \in 0 .. size_[x] - 1 /\ i \in 0 .. size_[y] - 1
    BY <1>1
  <2> QED
    BY <2>1, <2>2, Zenon
<1>3. n > 0 => a + n - 1 <= Literal /\ b + n - 1 <= Literal
  BY <1>1
<1> HIDE DEF a, b, s, t, r
<1>4. \/ r = 0 /\ \A i \in 0 .. n - 1 : memory[a + i] = memory[b + i]
      \/ /\ r = -1
         /\ \E k \in 0 .. n - 1 :
                    /\ \A i \in 0 .. k - 1 : memory[a + i] = memory[b + i]
                    /\ memory[a + k] < memory[b + k]
      \/ /\ r = 1
         /\ \E k \in 0 .. n - 1 :
                    /\ \A i \in 0 .. k - 1 : memory[a + i] = memory[b + i]
                    /\ memory[b + k] < memory[a + k]
  BY <1>1, <1>3, Memcmp, Zenon DEF r
<1>5. ASSUME NEW k \in 0 .. n, \A i \in 0 .. k - 1 : memory[a + i] = memory[b + i]
      PROVE  \A i \in 1 .. k : s[i] = t[i]
  <2> SUFFICES ASSUME NEW i \in 1 .. k PROVE s[i] = t[i]
    OBVIOUS
  <2>1. i - 1 \in 0 .. k - 1 /\ i - 1 \in 0 .. n - 1 /\ (i - 1) + 1 = i
    OBVIOUS
  <2> QED
    BY <1>2, <1>5, <2>1
<1>6. CASE r = 0 /\ \A i \in 0 .. n - 1 : memory[a + i] = memory[b + i]
  <2>1. SameUpTo(s, t, n)
    BY <1>5, <1>6 DEF SameUpTo
  <2> QED
    BY <1>6, <2>1 DEF r, a, b, s, t
<1>7. ASSUME NEW k \in 0 .. n - 1, \A i \in 0 .. k - 1 : memory[a + i] = memory[b + i]
      PROVE  /\ k \in Nat /\ k < Len(s) /\ k < Len(t)
             /\ \A i \in 1 .. k : s[i] = t[i]
             /\ s[k + 1] = memory[a + k] /\ t[k + 1] = memory[b + k]
  <2>1. k \in Nat /\ k \in 0 .. n /\ k < Len(s) /\ k < Len(t)
    BY <1>1
  <2>2. \A i \in 1 .. k : s[i] = t[i]
    BY <1>5, <1>7, <2>1, Zenon
  <2> QED
    BY <1>2, <2>1, <2>2, Zenon
<1>8. ASSUME r = -1, NEW k \in 0 .. n - 1,
             \A i \in 0 .. k - 1 : memory[a + i] = memory[b + i],
             memory[a + k] < memory[b + k]
      PROVE  r = -1 /\ Precedes(s, t)
  BY <1>7, <1>8 DEF Precedes
<1>9. ASSUME r = 1, NEW k \in 0 .. n - 1,
             \A i \in 0 .. k - 1 : memory[a + i] = memory[b + i],
             memory[b + k] < memory[a + k]
      PROVE  r = 1 /\ Precedes(t, s)
  <2>1. \A i \in 1 .. k : t[i] = s[i]
    BY <1>7, <1>9
  <2> QED
    BY <1>7, <1>9, <2>1 DEF Precedes
<1> QED
  BY <1>4, <1>6, <1>8, <1>9 DEF r, a, b, s, t

(* Two strings differ first at one place only. *)
LEMMA FirstDifference ==
    ASSUME NEW s \in Seq(Int), NEW t \in Seq(Int), Precedes(s, t)
    PROVE  /\ ~Precedes(t, s)
           /\ \A n \in Nat : n >= Len(s) \/ n >= Len(t) =>
                 ~SameUpTo(s, t, n) /\ ~SameUpTo(t, s, n)
<1>0. /\ Len(s) \in Nat /\ Len(t) \in Nat
      /\ \A i \in 1 .. Len(s) : s[i] \in Int
      /\ \A i \in 1 .. Len(t) : t[i] \in Int
  OBVIOUS
<1>1. PICK k \in Nat : /\ k < Len(s) /\ k < Len(t)
                       /\ \A i \in 1 .. k : s[i] = t[i]
                       /\ s[k + 1] < t[k + 1]
  BY DEF Precedes
<1>2. k + 1 \in Nat /\ s[k + 1] \in Int /\ t[k + 1] \in Int /\ s[k + 1] # t[k + 1]
  BY <1>0, <1>1
<1>3. ASSUME NEW j \in Nat, j < Len(t), j < Len(s), \A i \in 1 .. j : t[i] = s[i],
             t[j + 1] < s[j + 1]
      PROVE  FALSE
  <2>0. j + 1 \in Nat /\ s[j + 1] \in Int /\ t[j + 1] \in Int /\ s[j + 1] # t[j + 1]
    BY <1>0, <1>3
  <2>1. ~(j < k)
    BY <1>1, <2>0
  <2>2. ~(k < j)
    BY <1>2, <1>3
  <2>3. j = k
    BY <2>1, <2>2
  <2> QED
    BY <1>1, <1>2, <1>3, <2>3
<1>4. ~Precedes(t, s)
  BY <1>3 DEF Precedes
<1>5. ASSUME NEW n \in Nat, n >= Len(s) \/ n >= Len(t)
      PROVE  ~SameUpTo(s, t, n) /\ ~SameUpTo(t, s, n)
  <2>1. k + 1 \in 1 .. n
    BY <1>0, <1>1, <1>5
  <2> QED
    BY <1>2, <2>1 DEF SameUpTo
<1> QED
  BY <1>4, <1>5

(* The order of strings by the first difference and the lengths. *)
LEMMA BelowCases ==
    ASSUME NEW s \in Seq(Int), NEW t \in Seq(Int)
    PROVE  Below(s, t) <=> \/ Precedes(s, t)
                           \/ Len(s) < Len(t) /\ SameUpTo(s, t, Len(s))
<1>0. Len(s) \in Nat /\ Len(t) \in Nat
  OBVIOUS
<1>1. ASSUME Below(s, t)
      PROVE  Precedes(s, t) \/ (Len(s) < Len(t) /\ SameUpTo(s, t, Len(s)))
  <2>1. PICK k \in Nat :
                /\ k <= Len(s) /\ k < Len(t)
                /\ \A i \in 1 .. k : s[i] = t[i]
                /\ k = Len(s) \/ s[k + 1] < t[k + 1]
    BY <1>1, BelowByByte
  <2>2. CASE k = Len(s)
    BY <2>1, <2>2 DEF SameUpTo
  <2>3. CASE k # Len(s)
    <3>1. k < Len(s) /\ s[k + 1] < t[k + 1]
      BY <1>0, <2>1, <2>3
    <3> QED
      BY <2>1, <3>1 DEF Precedes
  <2> QED
    BY <2>2, <2>3
<1>2. ASSUME Precedes(s, t) PROVE Below(s, t)
  <2>1. PICK k \in Nat : /\ k < Len(s) /\ k < Len(t)
                         /\ \A i \in 1 .. k : s[i] = t[i]
                         /\ s[k + 1] < t[k + 1]
    BY <1>2 DEF Precedes
  <2>2. k <= Len(s)
    BY <1>0, <2>1
  <2> QED
    BY <2>1, <2>2, BelowByByte
<1>3. ASSUME Len(s) < Len(t), SameUpTo(s, t, Len(s)) PROVE Below(s, t)
  <2>1. Len(s) <= Len(s) /\ \A i \in 1 .. Len(s) : s[i] = t[i]
    BY <1>0, <1>3 DEF SameUpTo
  <2> QED
    BY <1>0, <1>3, <2>1, BelowByByte, Zenon
<1> QED
  BY <1>1, <1>2, <1>3

(* The sign of compare is the order of the contents. *)
LEMMA CompareSign ==
    ASSUME IInv, NEW x \in Slices, NEW y \in Slices
    PROVE  LET s == Content(x)
               t == Content(y)
           IN /\ compare(x, y) < 0 <=> Below(s, t)
              /\ compare(x, y) > 0 <=> Below(t, s)
              /\ compare(x, y) = 0 <=> size_[x] = size_[y] /\ SameUpTo(s, t, size_[x])
<1> DEFINE s == Content(x)
           t == Content(y)
           p == size_[x]
           q == size_[y]
           n == IF p <= q THEN p ELSE q
           r == memcmp(data_[x], data_[y], n)
<1>1. /\ s \in Seq(Int) /\ t \in Seq(Int) /\ Len(s) = p /\ Len(t) = q
      /\ p \in Nat /\ q \in Nat /\ p <= length /\ q <= length
  BY Contents
<1>2. n \in Nat /\ n \in 0 .. IntMax /\ n <= p /\ n <= q /\ (n = p \/ n = q)
  <2>1. length \in Nat /\ length <= IntMax /\ IntMax \in Nat
    BY TextsAssumption DEF IInv
  <2> HIDE DEF p, q
  <2> QED
    BY <1>1, <2>1
<1>3. compare(x, y) = IF r # 0 THEN r ELSE IF p < q THEN -1 ELSE IF p > q THEN 1 ELSE 0
  <2>1. ToInt(Min({p, q})) = n
    BY <1>1, <1>2, Shorter, Narrow
  <2> QED
    BY <2>1 DEF compare
<1>4. \/ r = 0 /\ SameUpTo(s, t, n)
      \/ r = -1 /\ Precedes(s, t)
      \/ r = 1 /\ Precedes(t, s)
  BY <1>2, MemcmpOfContents
<1>5. n = p => (SameUpTo(s, t, n) <=> SameUpTo(s, t, p))
  OBVIOUS
<1> HIDE DEF s, t, p, q, n, r
<1>6. /\ Below(s, t) <=> Precedes(s, t) \/ (p < q /\ SameUpTo(s, t, p))
      /\ Below(t, s) <=> Precedes(t, s) \/ (q < p /\ SameUpTo(t, s, q))
  BY <1>1, BelowCases
<1>7. \A k : SameUpTo(s, t, k) <=> SameUpTo(t, s, k)
  BY DEF SameUpTo
<1>8. CASE r = 0 /\ SameUpTo(s, t, n)
  <2>1. ~Precedes(s, t) /\ ~Precedes(t, s)
    <3>1. n >= Len(s) \/ n >= Len(t)
      BY <1>1, <1>2
    <3> QED
      BY <1>1, <1>2, <1>8, <3>1, FirstDifference
  <2>2. p < q => n = p
    BY <1>1, <1>2
  <2>3. q < p => n = q
    BY <1>1, <1>2
  <2>4. p = q => n = p
    BY <1>2
  <2>5. compare(x, y) = IF p < q THEN -1 ELSE IF p > q THEN 1 ELSE 0
    BY <1>3, <1>8
  <2>6. Below(s, t) <=> p < q
    BY <1>6, <1>8, <2>1, <2>2, Zenon
  <2>7. Below(t, s) <=> q < p
    BY <1>6, <1>7, <1>8, <2>1, <2>3, Zenon
  <2>8. p = q => SameUpTo(s, t, p)
    BY <1>8, <2>4, Zenon
  <2>9. /\ compare(x, y) < 0 <=> p < q
        /\ compare(x, y) > 0 <=> q < p
        /\ compare(x, y) = 0 <=> p = q
    BY <1>1, <2>5
  <2> QED
    BY <2>6, <2>7, <2>8, <2>9, Zenon DEF s, t, p, q
<1>9. CASE r = -1 /\ Precedes(s, t)
  <2>1. ~Precedes(t, s) /\ ~SameUpTo(t, s, q) /\ ~SameUpTo(s, t, p)
    BY <1>1, <1>9, FirstDifference
  <2>2. compare(x, y) = -1
    BY <1>3, <1>9
  <2> QED
    BY <1>6, <1>9, <2>1, <2>2 DEF s, t, p, q
<1>10. CASE r = 1 /\ Precedes(t, s)
  <2>1. ~Precedes(s, t) /\ ~SameUpTo(t, s, q) /\ ~SameUpTo(s, t, p)
    BY <1>1, <1>10, FirstDifference
  <2>2. compare(x, y) = 1
    BY <1>3, <1>10
  <2> QED
    BY <1>6, <1>10, <2>1, <2>2 DEF s, t, p, q
<1> QED
  BY <1>4, <1>8, <1>9, <1>10, Zenon DEF s, t, p, q

(* == is equality of the contents. *)
LEMMA EqualContents ==
    ASSUME IInv, NEW x \in Slices, NEW y \in Slices
    PROVE  /\ Equals(x, y) <=> /\ size_[x] = size_[y]
                               /\ SameUpTo(Content(x), Content(y), size_[x])
           /\ Equals(x, y) <=> Content(x) = Content(y)
<1> DEFINE s == Content(x)
           t == Content(y)
           p == size_[x]
           r == memcmp(data_[x], data_[y], p)
<1>1. /\ s \in Seq(Int) /\ t \in Seq(Int) /\ Len(s) = p /\ Len(t) = size_[y]
      /\ p \in Nat /\ size_[y] \in Nat
  BY Contents
<1>2. Equals(x, y) <=> p = size_[y] /\ r = 0
  BY DEF Equals
<1>3. CASE p = size_[y]
  <2>1. p <= size_[x] /\ p <= size_[y]
    BY <1>1, <1>3
  <2>2. \/ r = 0 /\ SameUpTo(s, t, p)
        \/ r = -1 /\ Precedes(s, t)
        \/ r = 1 /\ Precedes(t, s)
    BY <1>1, <2>1, MemcmpOfContents
  <2>3. (Precedes(s, t) \/ Precedes(t, s)) => ~SameUpTo(s, t, p)
    <3> HIDE DEF s, t, p
    <3>1. p >= Len(s) /\ p >= Len(t)
      BY <1>1, <1>3
    <3> QED
      BY <1>1, <3>1, FirstDifference
  <2>4. r = 0 <=> SameUpTo(s, t, p)
    <3> HIDE DEF s, t, p, r
    <3> QED
      BY <2>2, <2>3
  <2>5. s = t <=> SameUpTo(s, t, p)
    <3> HIDE DEF s, t, p
    <3>1. SameUpTo(s, t, p) => s = t
      BY <1>1, <1>3, SameElements DEF SameUpTo
    <3>2. s = t => SameUpTo(s, t, p)
      BY DEF SameUpTo
    <3> QED
      BY <3>1, <3>2, Zenon
  <2> QED
    BY <1>2, <1>3, <2>4, <2>5, Zenon
<1>4. CASE p # size_[y]
  <2>1. s # t
    BY <1>1, <1>4
  <2> QED
    BY <1>2, <1>4, <2>1, Zenon
<1> QED
  BY <1>3, <1>4

(* starts_with finds a prefix. *)
LEMMA StartsWithPrefix ==
    ASSUME IInv, NEW x \in Slices, NEW y \in Slices
    PROVE  LET s == Content(x)
           IN starts_with(x, y) <=> \E k \in 0 .. Len(s) : SubSeq(s, 1, k) = Content(y)
<1> DEFINE s == Content(x)
           t == Content(y)
           q == size_[y]
           r == memcmp(data_[x], data_[y], q)
<1>1. /\ s \in Seq(Int) /\ t \in Seq(Int) /\ Len(s) = size_[x] /\ Len(t) = q
      /\ size_[x] \in Nat /\ q \in Nat
  BY Contents
<1>2. starts_with(x, y) <=> size_[x] >= q /\ r = 0
  BY DEF starts_with
<1>3. SubSeq(t, 1, q) = t
  <2> HIDE DEF s, t, q
  <2> QED
    BY <1>1
<1>4. \A k \in 0 .. Len(s) : SubSeq(s, 1, k) = t => k = q
  <2> HIDE DEF s, t, q
  <2>1. \A k \in 0 .. Len(s) : Len(SubSeq(s, 1, k)) = k
    BY <1>1
  <2> QED
    BY <1>1, <2>1
<1>5. CASE size_[x] >= q
  <2>1. q \in 0 .. Len(s) /\ q <= size_[x] /\ q <= size_[y]
    BY <1>1, <1>5
  <2>2. \/ r = 0 /\ SameUpTo(s, t, q)
        \/ r = -1 /\ Precedes(s, t)
        \/ r = 1 /\ Precedes(t, s)
    BY <1>1, <2>1, MemcmpOfContents
  <2> HIDE DEF s, t, q, r
  <2>3. (Precedes(s, t) \/ Precedes(t, s)) => ~SameUpTo(s, t, q)
    <3>1. q >= Len(t)
      BY <1>1
    <3> QED
      BY <1>1, <3>1, FirstDifference
  <2>4. SubSeq(s, 1, q) = t <=> SameUpTo(s, t, q)
    <3>1. q <= Len(s) /\ q <= Len(t)
      BY <1>1, <2>1
    <3>2. SubSeq(s, 1, q) = SubSeq(t, 1, q) <=> \A i \in 1 .. q : s[i] = t[i]
      BY <1>1, <3>1, Prefixes
    <3> QED
      BY <1>3, <3>2 DEF SameUpTo
  <2>5. r = 0 <=> SubSeq(s, 1, q) = t
    BY <2>2, <2>3, <2>4
  <2>6. starts_with(x, y) <=> \E k \in 0 .. Len(s) : SubSeq(s, 1, k) = t
    BY <1>2, <1>4, <1>5, <2>1, <2>5, Zenon
  <2> QED
    BY <2>6 DEF s, t
<1>6. CASE ~(size_[x] >= q)
  <2>1. ~(q \in 0 .. Len(s))
    BY <1>1, <1>6
  <2> QED
    BY <1>2, <1>4, <1>6, <2>1, Zenon
<1> QED
  BY <1>5, <1>6

(* compare, == and starts_with are the order, the equality and the prefix  *)
(* relation of strings, for slices of any sizes, overlapping or not, of    *)
(* any storage that compare's int can measure.                             *)
THEOREM Order == Spec => []CompareIsTheOrder
<1>1. IInv => CompareIsTheOrder
  <2> SUFFICES ASSUME IInv, NEW x \in Slices, NEW y \in Slices
               PROVE  LET s == Content(x)
                          t == Content(y)
                      IN /\ compare(x, y) < 0 <=> Below(s, t)
                         /\ compare(x, y) > 0 <=> Below(t, s)
                         /\ compare(x, y) = 0 <=> Equals(x, y)
                         /\ Equals(x, y) <=> s = t
                         /\ starts_with(x, y) <=>
                               \E k \in 0 .. Len(s) : SubSeq(s, 1, k) = t
    BY Zenon DEF CompareIsTheOrder
  <2>1. /\ compare(x, y) < 0 <=> Below(Content(x), Content(y))
        /\ compare(x, y) > 0 <=> Below(Content(y), Content(x))
        /\ compare(x, y) = 0 <=> /\ size_[x] = size_[y]
                                 /\ SameUpTo(Content(x), Content(y), size_[x])
    BY CompareSign, Zenon
  <2>2. /\ Equals(x, y) <=> /\ size_[x] = size_[y]
                            /\ SameUpTo(Content(x), Content(y), size_[x])
        /\ Equals(x, y) <=> Content(x) = Content(y)
    BY EqualContents, Zenon
  <2>3. starts_with(x, y) <=>
            \E k \in 0 .. Len(Content(x)) : SubSeq(Content(x), 1, k) = Content(y)
    BY StartsWithPrefix, Zenon
  <2>4. compare(x, y) = 0 <=> Equals(x, y)
    BY <2>1, <2>2, Zenon
  <2> QED
    BY <2>1, <2>2, <2>3, <2>4, Zenon
<1> QED
  BY <1>1, Invariance, PTL

-----------------------------------------------------------------------------
(* Concatenation, by elements. *)
LEMMA Concatenation ==
    ASSUME NEW u \in Seq(Int), NEW v \in Seq(Int)
    PROVE  /\ u \o v \in Seq(Int) /\ Len(u \o v) = Len(u) + Len(v)
           /\ \A j \in 1 .. Len(u) : (u \o v)[j] = u[j]
           /\ \A j \in 1 .. Len(v) : (u \o v)[Len(u) + j] = v[j]
OBVIOUS

(* The two digits of byte j are at 2j - 1 and 2j. *)
Digit(s, j) == IF j % 2 = 1 THEN s[(j + 1) \div 2] \div Digits ELSE s[j \div 2] % Digits

Written(s, i) == [j \in 1 .. 2 * i |-> Digit(s, j)]

(* One more byte appends two digits. *)
LEMMA OneMoreByte ==
    ASSUME NEW s \in Seq(Int), NEW i \in 1 .. Len(s)
    PROVE  Written(s, i) = Written(s, i - 1) \o HexDigits(s[i])
<1> DEFINE w == Written(s, i - 1)
           h == HexDigits(s[i])
<1>0. i \in Nat /\ i - 1 \in Nat /\ Len(s) \in Nat /\ Digits \in Nat \ {0}
  BY DigitsAssumption
<1>1. \A j \in 1 .. 2 * i : Digit(s, j) \in Int
  <2> SUFFICES ASSUME NEW j \in 1 .. 2 * i PROVE Digit(s, j) \in Int
    OBVIOUS
  <2>1. j % 2 = 1 => (j + 1) \div 2 \in 1 .. Len(s)
    BY <1>0
  <2>2. j % 2 # 1 => j \div 2 \in 1 .. Len(s)
    BY <1>0
  <2> QED
    BY <1>0, <2>1, <2>2 DEF Digit
<1>2. w \in Seq(Int) /\ Len(w) = 2 * (i - 1) /\ \A j \in 1 .. 2 * (i - 1) : w[j] = Digit(s, j)
  BY <1>0, <1>1 DEF Written
<1>3. h \in Seq(Int) /\ Len(h) = 2 /\ h[1] = s[i] \div Digits /\ h[2] = s[i] % Digits
  BY <1>0 DEF HexDigits
<1>4. Digit(s, 2 * i - 1) = s[i] \div Digits /\ Digit(s, 2 * i) = s[i] % Digits
  <2>1. (2 * i - 1) % 2 = 1 /\ ((2 * i - 1) + 1) \div 2 = i
    BY <1>0
  <2>2. (2 * i) % 2 # 1 /\ (2 * i) \div 2 = i
    BY <1>0
  <2> QED
    BY <2>1, <2>2 DEF Digit
<1> HIDE DEF w, h
<1>5. /\ w \o h \in Seq(Int) /\ Len(w \o h) = 2 * i
      /\ \A j \in 1 .. 2 * i : (w \o h)[j] = Digit(s, j)
  <2>0. /\ w \o h \in Seq(Int) /\ Len(w \o h) = 2 * (i - 1) + 2
        /\ \A j \in 1 .. 2 * (i - 1) : (w \o h)[j] = w[j]
        /\ \A j \in 1 .. 2 : (w \o h)[2 * (i - 1) + j] = h[j]
    <3>1. /\ w \o h \in Seq(Int) /\ Len(w \o h) = Len(w) + Len(h)
          /\ \A j \in 1 .. Len(w) : (w \o h)[j] = w[j]
          /\ \A j \in 1 .. Len(h) : (w \o h)[Len(w) + j] = h[j]
      BY <1>2, <1>3, Concatenation, Zenon
    <3>2. Len(w) = 2 * (i - 1) /\ Len(h) = 2
      BY <1>2, <1>3, Zenon
    <3> QED
      BY <3>1, <3>2, Zenon
  <2> DEFINE c == w \o h
  <2> HIDE DEF c
  <2>1. c \in Seq(Int) /\ Len(c) = 2 * i
    BY <1>0, <2>0 DEF c
  <2>2. \A j \in 1 .. 2 * (i - 1) : c[j] = w[j]
    BY <2>0, Zenon DEF c
  <2>3. c[2 * i - 1] = h[1] /\ c[2 * i] = h[2]
    <3>1. 2 * i - 1 = 2 * (i - 1) + 1 /\ 2 * i = 2 * (i - 1) + 2 /\ 1 \in 1 .. 2 /\ 2 \in 1 .. 2
      BY <1>0
    <3> QED
      BY <2>0, <3>1, Zenon DEF c
  <2>4. \A j \in 1 .. 2 * i : j \in 1 .. 2 * (i - 1) \/ j = 2 * i - 1 \/ j = 2 * i
    BY <1>0
  <2>5. \A j \in 1 .. 2 * i : c[j] = Digit(s, j)
    BY <1>2, <1>3, <1>4, <2>2, <2>3, <2>4, Zenon
  <2> QED
    BY <2>1, <2>5 DEF c
<1>6. /\ Written(s, i) \in Seq(Int) /\ Len(Written(s, i)) = 2 * i
      /\ \A j \in 1 .. 2 * i : Written(s, i)[j] = Digit(s, j)
  BY <1>0, <1>1 DEF Written
<1>7. Written(s, i) = w \o h
  BY <1>5, <1>6, SameElements, Zenon
<1> QED
  BY <1>7 DEF w, h

(* ToString(true) writes the digits of every byte. *)
LEMMA HexIsWritten ==
    ASSUME IInv, NEW x \in Slices
    PROVE  Hex(x) = Written(Content(x), size_[x])
<1> DEFINE n == size_[x]
           s == Content(x)
           Def(g) == [i \in 0 .. n |-> IF i = 0 THEN <<>> ELSE g[i - 1] \o HexDigits(s[i])]
           result == CHOOSE g : g = Def(g)
           closed == [i \in 0 .. n |-> Written(s, i)]
<1>0. n \in Nat /\ s \in Seq(Int) /\ Len(s) = n
  BY Contents
<1>1. Hex(x) = result[n]
  BY DEF Hex
<1>2. Written(s, 0) = <<>>
  BY DEF Written
<1> HIDE DEF s, n
<1>3. closed = Def(closed)
  <2>1. ASSUME NEW i \in 0 .. n, i # 0
        PROVE  closed[i] = closed[i - 1] \o HexDigits(s[i])
    <3>1. /\ i \in 1 .. Len(s) /\ i - 1 \in 0 .. n
          /\ closed[i] = Written(s, i) /\ closed[i - 1] = Written(s, i - 1)
      BY <1>0, <2>1
    <3> QED
      BY <1>0, <3>1, OneMoreByte, Zenon
  <2>2. closed[0] = <<>>
    BY <1>0, <1>2
  <2> QED
    BY <2>1, <2>2, Zenon
<1>4. result = Def(result)
  BY <1>3, Zenon
<1> HIDE DEF result
<1> DEFINE S == {i \in Nat : i <= n => result[i] = Written(s, i)}
<1>5. 0 \in S
  BY <1>0, <1>2, <1>4
<1>6. ASSUME NEW i \in S PROVE i + 1 \in S
  <2> SUFFICES ASSUME i + 1 <= n PROVE result[i + 1] = Written(s, i + 1)
    BY <1>6
  <2>1. i \in Nat /\ result[i] = Written(s, i) /\ i + 1 \in 1 .. Len(s) /\ (i + 1) - 1 = i
    BY <1>0, <1>6
  <2>2. result[i + 1] = result[i] \o HexDigits(s[i + 1])
    <3>1. i + 1 \in 0 .. n /\ i + 1 # 0
      BY <1>0, <2>1
    <3> QED
      BY <1>4, <2>1, <3>1, Zenon
  <2> QED
    BY <1>0, <2>1, <2>2, OneMoreByte, Zenon
<1>7. S \in SUBSET Nat
  OBVIOUS
<1>8. S = Nat
  <2> HIDE DEF S
  <2> QED
    BY <1>5, <1>6, <1>7, Induction
<1>9. n \in S
  BY <1>0, <1>8
<1>10. result[n] = Written(s, n)
  BY <1>0, <1>9
<1> QED
  BY <1>1, <1>10 DEF s, n

(* ToString(true) tells slices apart, for every number of digits.          *)
THEOREM HexIsInjective == Spec => []HexTellsApart
<1>1. IInv => HexTellsApart
  <2> SUFFICES ASSUME IInv, NEW x \in Slices, NEW y \in Slices, Hex(x) = Hex(y)
               PROVE  Content(x) = Content(y)
    BY DEF HexTellsApart
  <2> DEFINE s == Content(x)
             t == Content(y)
             n == size_[x]
  <2>1. /\ s \in Seq(Int) /\ t \in Seq(Int) /\ Len(s) = n /\ Len(t) = size_[y]
        /\ n \in Nat /\ size_[y] \in Nat
    BY Contents
  <2>2. Written(s, n) = Written(t, size_[y])
    BY HexIsWritten
  <2> HIDE DEF s, t, n
  <2>3. n = size_[y]
    <3>1. DOMAIN Written(s, n) = 1 .. 2 * n /\ DOMAIN Written(t, size_[y]) = 1 .. 2 * size_[y]
      BY DEF Written
    <3>2. 1 .. 2 * n = 1 .. 2 * size_[y]
      BY <2>2, <3>1
    <3> QED
      BY <2>1, <3>2
  <2>4. ASSUME NEW i \in 1 .. n PROVE s[i] = t[i]
    <3>1. /\ 2 * i - 1 \in 1 .. 2 * n /\ 2 * i \in 1 .. 2 * n
          /\ (2 * i - 1) % 2 = 1 /\ ((2 * i - 1) + 1) \div 2 = i
          /\ (2 * i) % 2 # 1 /\ (2 * i) \div 2 = i
      BY <2>1
    <3>2. \A j \in 1 .. 2 * n : Digit(s, j) = Digit(t, j)
      <4>1. \A j \in 1 .. 2 * n : Written(s, n)[j] = Digit(s, j)
        BY DEF Written
      <4>2. \A j \in 1 .. 2 * n : Written(t, n)[j] = Digit(t, j)
        BY DEF Written
      <4> QED
        BY <2>2, <2>3, <4>1, <4>2
    <3>3. s[i] \div Digits = t[i] \div Digits /\ s[i] % Digits = t[i] % Digits
      BY <3>1, <3>2 DEF Digit
    <3>4. s[i] \in Int /\ t[i] \in Int /\ Digits \in Nat \ {0}
      BY <2>1, <2>3, DigitsAssumption
    <3>5. s[i] = (s[i] \div Digits) * Digits + (s[i] % Digits)
      BY <3>4, Division, Zenon
    <3>6. t[i] = (t[i] \div Digits) * Digits + (t[i] % Digits)
      BY <3>4, Division, Zenon
    <3> QED
      BY <3>3, <3>5, <3>6
  <2>5. s = t
    BY <2>1, <2>3, <2>4, SameElements
  <2> QED
    BY <2>5 DEF s, t
<1> QED
  BY <1>1, Invariance, PTL

-----------------------------------------------------------------------------
(* The widths of a byte and of a word. *)
LEMMA Widths ==
    /\ ByteBits \in Nat \ {0} /\ WordBits \in Nat
    /\ Pow2(ByteBits) \in Nat \ {0} /\ Word \in Nat \ {0}
    /\ Pow2(2 * ByteBits) = Pow2(ByteBits) * Pow2(ByteBits)
    /\ Pow2(3 * ByteBits) = (Pow2(ByteBits) * Pow2(ByteBits)) * Pow2(ByteBits)
    /\ Word = ((Pow2(ByteBits) * Pow2(ByteBits)) * Pow2(ByteBits)) * Pow2(ByteBits)
    /\ Byte = 0 .. Pow2(ByteBits) - 1
<1>1. ByteBits \in Nat \ {0} /\ WordBits \in Nat /\ DigitBits \in Nat
  BY WidthAssumption DEF ByteBits, WordBits
<1>2. /\ 2 * ByteBits = ByteBits + ByteBits /\ 3 * ByteBits = 2 * ByteBits + ByteBits
      /\ WordBits = 3 * ByteBits + ByteBits
      /\ 2 * ByteBits \in Nat /\ 3 * ByteBits \in Nat
  BY <1>1 DEF WordBits
<1>3. /\ Pow2(2 * ByteBits) = Pow2(ByteBits) * Pow2(ByteBits)
      /\ Pow2(3 * ByteBits) = Pow2(2 * ByteBits) * Pow2(ByteBits)
      /\ Word = Pow2(3 * ByteBits) * Pow2(ByteBits)
  BY <1>1, <1>2, PowerOfSum DEF Word
<1>4. Pow2(ByteBits) \in Nat \ {0} /\ Word \in Nat \ {0}
  BY <1>1, Powers DEF Word
<1>5. Pow2(ByteBits) = Digits * Digits
  <2>1. ByteBits = DigitBits + DigitBits
    BY <1>1 DEF ByteBits
  <2> QED
    BY <1>1, <2>1, PowerOfSum, WidthAssumption
<1>6. Byte = 0 .. Pow2(ByteBits) - 1
  BY <1>5 DEF Byte
<1> QED
  BY <1>1, <1>3, <1>4, <1>6

(* The bits of an exclusive or *)
LEMMA XorBits ==
    ASSUME NEW x \in Nat, NEW y \in Nat
    PROVE  /\ Xor(x, y) \in 0 .. Word - 1
           /\ \A j \in 0 .. WordBits - 1 :
                Field(Xor(x, y), j, 1) = (Field(x, j, 1) + Field(y, j, 1)) % 2
<1> DEFINE e == [j \in 0 .. WordBits - 1 |-> (Field(x, j, 1) + Field(y, j, 1)) % 2]
<1>0. WordBits \in Nat
  BY Widths
<1>1. \A j \in 0 .. WordBits - 1 : e[j] \in 0 .. 1
  <2> SUFFICES ASSUME NEW j \in 0 .. WordBits - 1 PROVE e[j] \in 0 .. 1
    OBVIOUS
  <2>1. Field(x, j, 1) \in 0 .. 1 /\ Field(y, j, 1) \in 0 .. 1
    BY <1>0, OneBit
  <2>2. (Field(x, j, 1) + Field(y, j, 1)) % 2 \in 0 .. 1
    BY <2>1
  <2> QED
    BY <2>2
<1>2. Xor(x, y) = Number(e, 0, WordBits)
  <2>1. \A k \in 1 .. WordBits : 0 + k - 1 = k - 1 /\ k - 1 \in 0 .. WordBits - 1
    BY <1>0
  <2>2. ASSUME NEW k \in 1 .. WordBits
        PROVE  ((x \div Pow2(k - 1) + y \div Pow2(k - 1)) % 2) * Pow2(k - 1) = e[0 + k - 1] * Pow2(k - 1)
    <3> DEFINE a == x \div Pow2(k - 1)
               b == y \div Pow2(k - 1)
    <3>1. k - 1 \in Nat
      BY <1>0
    <3>2. a \in Nat /\ b \in Nat /\ Field(x, k - 1, 1) = a % 2 /\ Field(y, k - 1, 1) = b % 2
      BY <3>1, OneBit, Zenon
    <3>3. e[0 + k - 1] = (Field(x, k - 1, 1) + Field(y, k - 1, 1)) % 2
      BY <2>1, Zenon
    <3> HIDE DEF a, b
    <3>4. (a + b) % 2 = ((a % 2) + (b % 2)) % 2
      BY <3>2
    <3> HIDE DEF e
    <3>5. (a + b) % 2 = e[0 + k - 1]
      BY <3>2, <3>3, <3>4, Zenon
    <3> QED
      BY <3>5, Zenon DEF a, b
  <2> HIDE DEF e
  <2>3. [k \in 1 .. WordBits |-> ((x \div Pow2(k - 1) + y \div Pow2(k - 1)) % 2) * Pow2(k - 1)]
          = [k \in 1 .. WordBits |-> e[0 + k - 1] * Pow2(k - 1)]
    BY <2>2, Zenon
  <2> QED
    BY <2>3, Zenon DEF Xor, Number
<1>3. \A j \in 0 .. WordBits - 1 : e[j] = (Field(x, j, 1) + Field(y, j, 1)) % 2
  BY Zenon
<1> HIDE DEF e
<1>4. /\ Number(e, 0, WordBits) \in 0 .. Pow2(WordBits) - 1
      /\ \A j \in 0 .. WordBits - 1 : Field(Number(e, 0, WordBits), j, 1) = e[j]
  BY <1>0, <1>1, NumberBits
<1> QED
  BY <1>2, <1>3, <1>4, Zenon DEF Word

(* A word can be recovered from its exclusive or with itself shifted:      *)
(* the upper bits are its own, and give the lower ones.                    *)
LEMMA XorShift ==
    ASSUME NEW p \in 0 .. Word - 1, NEW q \in 0 .. Word - 1, NEW s \in Nat \ {0},
           Xor(p, p \div Pow2(s)) = Xor(q, q \div Pow2(s))
    PROVE  p = q
<1> DEFINE w == WordBits
           Same(j) == Field(p, j, 1) = Field(q, j, 1)
           S == {k \in Nat : \A j \in Nat : j + k >= w => Same(j)}
<1>0. /\ w \in Nat /\ p \in Nat /\ q \in Nat
      /\ p \in 0 .. Pow2(w) - 1 /\ q \in 0 .. Pow2(w) - 1
  BY Widths DEF Word
<1>1. p \div Pow2(s) \in Nat /\ q \div Pow2(s) \in Nat
  <2>1. Pow2(w) \in Nat
    BY <1>0, Powers
  <2>2. p \div Pow2(s) \in 0 .. Pow2(w) - 1 /\ q \div Pow2(s) \in 0 .. Pow2(w) - 1
    BY <1>0, Shifted
  <2> QED
    BY <2>1, <2>2
<1>6. ASSUME NEW x \in {p, q}, NEW j \in Nat
      PROVE  /\ Field(x \div Pow2(s), j, 1) = Field(x, s + j, 1)
             /\ j >= w => Field(x, j, 1) = 0
  <2>1. x \in 0 .. Pow2(w) - 1 /\ s \in Nat /\ w \in Nat /\ x \in Nat
    BY <1>0
  <2> HIDE DEF w
  <2>2. Field(x \div Pow2(s), j, 1) = Field(x, s + j, 1)
    BY <2>1, ShiftedBit
  <2>3. j >= w => Field(x, j, 1) = 0
    BY <2>1, Shifted
  <2> QED
    BY <2>2, <2>3
<1>2. 0 \in S
  <2>1. ASSUME NEW j \in Nat, j + 0 >= w PROVE Same(j)
    <3>1. j >= w /\ 0 \in Nat
      BY <1>0, <2>1
    <3>2. Field(p, j, 1) = 0 /\ Field(q, j, 1) = 0
      BY <1>6, <3>1
    <3> QED
      BY <3>2
  <2> QED
    BY <2>1
<1>3. ASSUME NEW k \in S PROVE k + 1 \in S
  <2>1. k \in Nat /\ \A j \in Nat : j + k >= w => Same(j)
    OBVIOUS
  <2>2. ASSUME NEW j \in Nat, j + (k + 1) >= w PROVE Same(j)
    <3>1. CASE j + k >= w
      BY <2>1, <3>1
    <3>2. CASE j + k < w
      <4>1. s + j \in Nat /\ (s + j) + k >= w /\ j \in 0 .. w - 1
        BY <1>0, <2>1, <2>2, <3>2
      <4>2. Field(p, s + j, 1) = Field(q, s + j, 1)
        BY <2>1, <4>1
      <4>3. /\ Field(p \div Pow2(s), j, 1) = Field(p, s + j, 1)
            /\ Field(q \div Pow2(s), j, 1) = Field(q, s + j, 1)
        BY <1>6
      <4>4. /\ Field(Xor(p, p \div Pow2(s)), j, 1) = (Field(p, j, 1) + Field(p \div Pow2(s), j, 1)) % 2
            /\ Field(Xor(q, q \div Pow2(s)), j, 1) = (Field(q, j, 1) + Field(q \div Pow2(s), j, 1)) % 2
        <5>1. ASSUME NEW x \in Nat, NEW y \in Nat
              PROVE  Field(Xor(x, y), j, 1) = (Field(x, j, 1) + Field(y, j, 1)) % 2
          BY <4>1, XorBits
        <5> QED
          BY <1>0, <1>1, <5>1
      <4> DEFINE a == Field(p, j, 1)
                 b == Field(q, j, 1)
                 c == Field(p, s + j, 1)
      <4>5. (a + c) % 2 = (b + c) % 2
        BY <4>2, <4>3, <4>4, Zenon
      <4>6. a \in 0 .. 1 /\ b \in 0 .. 1 /\ c \in 0 .. 1
        BY <1>0, <4>1, OneBit, Zenon
      <4> HIDE DEF a, b, c
      <4>7. a = b
        BY <4>5, <4>6
      <4> QED
        BY <4>7 DEF a, b
    <3> QED
      BY <1>0, <2>1, <3>1, <3>2
  <2> QED
    BY <2>1, <2>2
<1>4. S = Nat
  <2>1. S \in SUBSET Nat
    OBVIOUS
  <2> HIDE DEF S
  <2> QED
    BY <1>2, <1>3, <2>1, Induction
<1>5. \A j \in 0 .. w - 1 : Same(j)
  <2>1. w \in S
    BY <1>0, <1>4, Zenon
  <2> QED
    BY <1>0, <2>1
<1> HIDE DEF w
<1> QED
  BY <1>0, <1>5, SameBits
(* A word that is mixed in can be told from any other that is less than a  *)
(* word away: nothing that Mix does loses it.                              *)
LEMMA MixSeparates ==
    ASSUME NEW g \in 0 .. Word - 1, NEW h \in 0 .. Word - 1, NEW v \in Int, NEW w \in Int,
           NEW s \in Nat \ {0},
           (g + v) - (h + w) < Word, (h + w) - (g + v) < Word
    PROVE  /\ Mix(g, v, s) \in 0 .. Word - 1
           /\ Mix(g, v, s) = Mix(h, w, s) => g + v = h + w
<1>0. Word \in Nat \ {0} /\ m \in Nat
  BY Widths, MultiplierAssumption
<1>1. g \in Int /\ h \in Int /\ g + v \in Int /\ h + w \in Int
  BY <1>0
<1> DEFINE x == g + v
           y == h + w
           p == (x * m) % Word
           q == (y * m) % Word
           d == x - y
<1>2. x \in Int /\ y \in Int /\ d \in Int
  BY <1>1
<1>3. d < Word /\ -d < Word
  BY <1>0, <1>1
<1>4. /\ Mix(g, v, s) = Xor(p, p \div Pow2(s))
      /\ Mix(h, w, s) = Xor(q, q \div Pow2(s))
  BY DEF Mix
<1> HIDE DEF x, y, d
<1>5. /\ p \in 0 .. Word - 1 /\ q \in 0 .. Word - 1
      /\ x * m = ((x * m) \div Word) * Word + p
      /\ y * m = ((y * m) \div Word) * Word + q
      /\ (x * m) \div Word \in Int /\ (y * m) \div Word \in Int
  <2>1. x * m \in Int /\ y * m \in Int
    BY <1>0, <1>2
  <2> QED
    BY <1>0, <2>1, Division, Zenon
<1>6. p \in Nat /\ p \div Pow2(s) \in Nat
  <2>1. Pow2(s) \in Nat \ {0} /\ p \in Nat
    BY <1>0, <1>5, Powers
  <2> HIDE DEF p
  <2> QED
    BY <2>1, NatDivision, Zenon
<1>7. Xor(p, p \div Pow2(s)) \in 0 .. Word - 1
  BY <1>6, XorBits
<1>8. ASSUME p = q PROVE x = y
  <2> DEFINE i == (x * m) \div Word
             j == (y * m) \div Word
  <2>1. i \in Int /\ j \in Int /\ x * m = i * Word + p /\ y * m = j * Word + p /\ p \in Int
    <3>1. p \in Int
      BY <1>6
    <3> QED
      BY <1>5, <1>8, <3>1
  <2> HIDE DEF i, j, p, q
  <2>2. d * m = (i - j) * Word
    <3>1. (x - y) * m = x * m - y * m
      BY <1>0, <1>2
    <3>2. (i - j) * Word = i * Word - j * Word
      BY <1>0, <2>1
    <3>3. i * Word \in Int /\ j * Word \in Int
      BY <1>0, <2>1
    <3> QED
      BY <2>1, <3>1, <3>2, <3>3 DEF d
  <2>3. PICK e \in Int : d = e * Word
    <3>1. i - j \in Int /\ WordBits \in Nat /\ m % 2 = 1
      BY <2>1, Widths, MultiplierAssumption
    <3>2. d * m = (i - j) * Pow2(WordBits)
      BY <2>2 DEF Word
    <3>3. \E e \in Int : d = e * Pow2(WordBits)
      BY <1>0, <1>2, <3>1, <3>2, OddFactor
    <3> QED
      BY <3>3 DEF Word
  <2>4. ~(e >= 1)
    BY <1>0, <1>3, <2>3
  <2>5. ~(e <= -1)
    BY <1>0, <1>3, <2>3
  <2>6. e = 0
    BY <2>4, <2>5
  <2>7. d = 0
    BY <1>0, <2>3, <2>6
  <2> QED
    BY <1>2, <2>7 DEF d
<1>9. Xor(p, p \div Pow2(s)) = Xor(q, q \div Pow2(s)) => p = q
  BY <1>5, XorShift
<1> HIDE DEF p, q
<1> QED
  BY <1>4, <1>7, <1>8, <1>9 DEF x, y

(* The state after a round is a word. *)
LEMMA MixIsWord ==
    ASSUME NEW h \in 0 .. Word - 1, NEW w \in Int, NEW s \in Nat \ {0}
    PROVE  Mix(h, w, s) \in 0 .. Word - 1
<1>1. (h + w) - (h + w) < Word /\ Word \in Nat
  <2>1. Word \in Nat \ {0}
    BY Widths
  <2> QED
    BY <2>1
<1> QED
  BY <1>1, MixSeparates

(* The places from d on hold n bytes. *)
Text(mem, d, n) == \A i \in 0 .. n - 1 : mem[d + i] \in Byte

(* Bytes are digits in base Pow2(ByteBits), and as chars as well. *)
LEMMA BytesNear ==
    ASSUME NEW b \in Byte, NEW c \in Byte
    PROVE  /\ Near(Pow2(ByteBits), b, c) /\ Near(Pow2(ByteBits), Char(b), Char(c))
           /\ Char(b) = Char(c) => b = c
<1> DEFINE P == Pow2(ByteBits)
<1>1. P \in Nat \ {0} /\ Byte = 0 .. P - 1
  BY Widths
<1>2. /\ Char(b) = IF CharIsSigned /\ 2 * b >= P THEN b - P ELSE b
      /\ Char(c) = IF CharIsSigned /\ 2 * c >= P THEN c - P ELSE c
  BY Zenon DEF Char
<1> HIDE DEF P
<1>3. b \in Int /\ c \in Int /\ b - c < P /\ c - b < P
  BY <1>1
<1>4. /\ Char(b) \in Int /\ Char(c) \in Int /\ Char(b) - Char(c) < P /\ Char(c) - Char(b) < P
      /\ Char(b) = Char(c) => b = c
  <2>1. CASE CharIsSigned = TRUE
    BY <1>1, <1>2, <2>1
  <2>2. CASE CharIsSigned # TRUE
    <3>1. Char(b) = b /\ Char(c) = c
      BY <1>2, <2>2, Zenon
    <3> QED
      BY <1>3, <3>1
  <2> QED
    BY <2>1, <2>2, Zenon
<1> QED
  BY <1>3, <1>4 DEF P, Near
(* A word can be told from its four bytes, and words are near. *)
LEMMA DecodeSeparates ==
    ASSUME NEW mem, NEW p, NEW other, NEW q,
           mem[p] \in Byte /\ mem[p + 1] \in Byte /\ mem[p + 2] \in Byte /\ mem[p + 3] \in Byte,
           other[q] \in Byte /\ other[q + 1] \in Byte /\ other[q + 2] \in Byte /\ other[q + 3] \in Byte
    PROVE  /\ Near(Word, DecodeFixed32(mem, p), DecodeFixed32(other, q))
           /\ DecodeFixed32(mem, p) = DecodeFixed32(other, q)
                => /\ mem[p] = other[q] /\ mem[p + 1] = other[q + 1]
                   /\ mem[p + 2] = other[q + 2] /\ mem[p + 3] = other[q + 3]
<1> DEFINE P == Pow2(ByteBits)
<1>1. /\ P \in Nat \ {0} /\ Pow2(2 * ByteBits) = P * P /\ Pow2(3 * ByteBits) = (P * P) * P
      /\ Word = ((P * P) * P) * P
  BY Widths
<1>2. /\ DecodeFixed32(mem, p) = Digits4(P, mem[p], mem[p + 1], mem[p + 2], mem[p + 3])
      /\ DecodeFixed32(other, q) = Digits4(P, other[q], other[q + 1], other[q + 2], other[q + 3])
  BY <1>1, Zenon DEF DecodeFixed32, Digits4
<1>3. /\ Near(P, mem[p], other[q]) /\ Near(P, mem[p + 1], other[q + 1])
      /\ Near(P, mem[p + 2], other[q + 2]) /\ Near(P, mem[p + 3], other[q + 3])
  BY BytesNear, Zenon
<1> DEFINE c0 == mem[p]
           c1 == mem[p + 1]
           c2 == mem[p + 2]
           c3 == mem[p + 3]
           d0 == other[q]
           d1 == other[q + 1]
           d2 == other[q + 2]
           d3 == other[q + 3]
<1>4. Near(P, c0, d0) /\ Near(P, c1, d1) /\ Near(P, c2, d2) /\ Near(P, c3, d3)
  BY <1>3, Zenon
<1> HIDE DEF P, c0, c1, c2, c3, d0, d1, d2, d3
<1>5. Near(((P * P) * P) * P, Digits4(P, c0, c1, c2, c3), Digits4(P, d0, d1, d2, d3))
  BY <1>1, <1>4, DigitsNear
<1>6. Digits4(P, c0, c1, c2, c3) = Digits4(P, d0, d1, d2, d3)
        => c0 = d0 /\ c1 = d1 /\ c2 = d2 /\ c3 = d3
  BY <1>1, <1>4, FourDigits
<1> QED
  BY <1>1, <1>2, <1>5, <1>6, Zenon DEF c0, c1, c2, c3, d0, d1, d2, d3

(* The rest of one to three bytes, likewise. *)
LEMMA RemainingSeparates ==
    ASSUME NEW mem, NEW p, NEW other, NEW q, NEW k \in 1 .. 3,
           mem[p] \in Byte /\ other[q] \in Byte,
           k >= 2 => mem[p + 1] \in Byte /\ other[q + 1] \in Byte,
           k >= 3 => mem[p + 2] \in Byte /\ other[q + 2] \in Byte
    PROVE  /\ Near(Word, Remaining(mem, p, k), Remaining(other, q, k))
           /\ Remaining(mem, p, k) = Remaining(other, q, k)
                => /\ mem[p] = other[q]
                   /\ k >= 2 => mem[p + 1] = other[q + 1]
                   /\ k >= 3 => mem[p + 2] = other[q + 2]
<1> DEFINE P == Pow2(ByteBits)
           Two(t, at) == IF k >= 2 THEN Char(t[at + 1]) ELSE 0
           Three(t, at) == IF k >= 3 THEN Char(t[at + 2]) ELSE 0
<1>1. /\ P \in Nat \ {0} /\ Pow2(2 * ByteBits) = P * P
      /\ Word = ((P * P) * P) * P
  BY Widths
<1>2. 0 \in Int /\ Near(P, 0, 0)
  <2>1. 0 - 0 < P
    BY <1>1
  <2> HIDE DEF P
  <2> QED
    BY <2>1 DEF Near
<1>3. Near(P, Char(mem[p]), Char(other[q])) /\ (Char(mem[p]) = Char(other[q]) => mem[p] = other[q])
  BY BytesNear, Zenon
<1>4. /\ Near(P, Two(mem, p), Two(other, q))
      /\ Two(mem, p) = Two(other, q) => (k >= 2 => mem[p + 1] = other[q + 1])
  <2>1. CASE k >= 2
    BY <2>1, BytesNear, Zenon
  <2>2. CASE ~(k >= 2)
    BY <1>2, <2>2, Zenon
  <2> QED
    BY <2>1, <2>2, Zenon
<1>5. /\ Near(P, Three(mem, p), Three(other, q))
      /\ Three(mem, p) = Three(other, q) => (k >= 3 => mem[p + 2] = other[q + 2])
  <2>1. CASE k >= 3
    BY <2>1, BytesNear, Zenon
  <2>2. CASE ~(k >= 3)
    BY <1>2, <2>2, Zenon
  <2> QED
    BY <2>1, <2>2, Zenon
<1>6. ASSUME NEW t, NEW at, Char(t[at]) \in Int, Two(t, at) \in Int, Three(t, at) \in Int
      PROVE  Remaining(t, at, k) = Digits4(P, Char(t[at]), Two(t, at), Three(t, at), 0)
  <2> DEFINE c == Char(t[at])
             u == IF k >= 2 THEN Char(t[at + 1]) * P ELSE 0
             v == IF k >= 3 THEN Char(t[at + 2]) * (P * P) ELSE 0
  <2>1. Remaining(t, at, k) = c + u + v
    BY <1>1, Zenon DEF Remaining
  <2>2. u = Two(t, at) * P
    <3>1. 0 * P = 0
      BY <1>1
    <3> QED
      BY <3>1, Zenon
  <2>3. v = Three(t, at) * (P * P)
    <3>1. 0 * (P * P) = 0
      BY <1>1
    <3> QED
      BY <3>1, Zenon
  <2>4. c \in Int /\ Two(t, at) * P \in Int /\ Three(t, at) * (P * P) \in Int
    <3>1. P * P \in Int /\ P \in Int
      BY <1>1
    <3>2. \A x, y \in Int : x * y \in Int
      OBVIOUS
    <3> QED
      BY <1>6, <3>1, <3>2, Zenon
  <2>5. \A x, y, z \in Int : x + y + z = x + y + z + 0 * ((P * P) * P)
    BY <1>1
  <2> HIDE DEF c, u, v, P, Two, Three
  <2>6. c + u + v = c + u + v + 0 * ((P * P) * P)
    BY <2>2, <2>3, <2>4, <2>5, Zenon
  <2> QED
    BY <2>1, <2>2, <2>3, <2>6, Zenon DEF c, Digits4
<1> DEFINE c0 == Char(mem[p])
           c1 == Two(mem, p)
           c2 == Three(mem, p)
           d0 == Char(other[q])
           d1 == Two(other, q)
           d2 == Three(other, q)
<1>7. Near(P, c0, d0) /\ Near(P, c1, d1) /\ Near(P, c2, d2)
  BY <1>3, <1>4, <1>5, Zenon
<1>8. Remaining(mem, p, k) = Digits4(P, c0, c1, c2, 0)
  <2>1. c0 \in Int /\ c1 \in Int /\ c2 \in Int
    BY <1>7, Zenon DEF Near
  <2> QED
    BY <1>6, <2>1, Zenon
<1>9. Remaining(other, q, k) = Digits4(P, d0, d1, d2, 0)
  <2>1. d0 \in Int /\ d1 \in Int /\ d2 \in Int
    BY <1>7, Zenon DEF Near
  <2> QED
    BY <1>6, <2>1, Zenon
<1> HIDE DEF P, c0, c1, c2, d0, d1, d2
<1>10. Near(((P * P) * P) * P, Digits4(P, c0, c1, c2, 0), Digits4(P, d0, d1, d2, 0))
  BY <1>1, <1>2, <1>7, DigitsNear
<1>11. Digits4(P, c0, c1, c2, 0) = Digits4(P, d0, d1, d2, 0) => c0 = d0 /\ c1 = d1 /\ c2 = d2
  BY <1>1, <1>2, <1>7, FourDigits
<1> QED
  BY <1>1, <1>3, <1>4, <1>5, <1>8, <1>9, <1>10, <1>11, Zenon DEF c0, c1, c2, d0, d1, d2
-----------------------------------------------------------------------------
(* The word that round i takes *)
WordAt(mem, d, i) == DecodeFixed32(mem, d + 4 * (i - 1))

(* The states of the loop over the words. *)
Mixes(h, mem, d, first, n) ==
    /\ h \in [0 .. n -> 0 .. Word - 1] /\ h[0] = first
    /\ \A i \in 1 .. n : h[i] = Mix(h[i - 1], WordAt(mem, d, i), 2 * ByteBits)

(* The recursive function inside MixWords. *)
IsMix(h, mem, d, first, n) ==
    h = [i \in 0 .. n |-> IF i = 0 THEN first
                          ELSE Mix(h[i - 1], DecodeFixed32(mem, d + 4 * (i - 1)), 2 * ByteBits)]

(* The places from the i-th to the k-th hold the same in both. *)
Agree(mem, d, other, e, i, k) == \A j \in i .. k : mem[d + j] = other[e + j]

(* What the words of a text are, compared with those of another. *)
LEMMA WordsSeparate ==
    ASSUME NEW mem, NEW d \in Int, NEW other, NEW e \in Int, NEW n \in Nat, NEW i \in 1 .. n,
           Text(mem, d, 4 * n), Text(other, e, 4 * n)
    PROVE  /\ WordAt(mem, d, i) \in Int
           /\ Near(Word, WordAt(mem, d, i), WordAt(other, e, i))
           /\ WordAt(mem, d, i) = WordAt(other, e, i)
                <=> Agree(mem, d, other, e, 4 * (i - 1), 4 * (i - 1) + 3)
<1> DEFINE p == d + 4 * (i - 1)
           q == e + 4 * (i - 1)
           o == 4 * (i - 1)
<1>1. /\ o \in Int /\ {o, o + 1, o + 2, o + 3} \subseteq 0 .. 4 * n - 1
      /\ o .. o + 3 = {o, o + 1, o + 2, o + 3}
      /\ p = d + o /\ p + 1 = d + (o + 1) /\ p + 2 = d + (o + 2) /\ p + 3 = d + (o + 3)
      /\ q = e + o /\ q + 1 = e + (o + 1) /\ q + 2 = e + (o + 2) /\ q + 3 = e + (o + 3)
  OBVIOUS
<1>2. WordAt(mem, d, i) = DecodeFixed32(mem, p) /\ WordAt(other, e, i) = DecodeFixed32(other, q)
  BY Zenon DEF WordAt
<1>3. Agree(mem, d, other, e, 4 * (i - 1), 4 * (i - 1) + 3)
        <=> \A j \in {o, o + 1, o + 2, o + 3} : mem[d + j] = other[e + j]
  BY <1>1, Zenon DEF Agree
<1> HIDE DEF p, q, o
<1>4. \A j \in {o, o + 1, o + 2, o + 3} : mem[d + j] \in Byte /\ other[e + j] \in Byte
  BY <1>1, Zenon DEF Text
<1>5. /\ mem[p] \in Byte /\ mem[p + 1] \in Byte /\ mem[p + 2] \in Byte /\ mem[p + 3] \in Byte
      /\ other[q] \in Byte /\ other[q + 1] \in Byte /\ other[q + 2] \in Byte /\ other[q + 3] \in Byte
  BY <1>1, <1>4, Zenon
<1>6. /\ Near(Word, DecodeFixed32(mem, p), DecodeFixed32(other, q))
      /\ DecodeFixed32(mem, p) = DecodeFixed32(other, q)
           => /\ mem[p] = other[q] /\ mem[p + 1] = other[q + 1]
              /\ mem[p + 2] = other[q + 2] /\ mem[p + 3] = other[q + 3]
  BY <1>5, DecodeSeparates
<1>7. /\ mem[p] = other[q] /\ mem[p + 1] = other[q + 1]
      /\ mem[p + 2] = other[q + 2] /\ mem[p + 3] = other[q + 3]
      => DecodeFixed32(mem, p) = DecodeFixed32(other, q)
  BY Zenon DEF DecodeFixed32
<1>8. /\ mem[p] = other[q] /\ mem[p + 1] = other[q + 1]
      /\ mem[p + 2] = other[q + 2] /\ mem[p + 3] = other[q + 3]
      <=> \A j \in {o, o + 1, o + 2, o + 3} : mem[d + j] = other[e + j]
  BY <1>1, Zenon
<1>9. DecodeFixed32(mem, p) \in Int
  BY <1>6, Zenon DEF Near
<1> QED
  BY <1>2, <1>3, <1>6, <1>7, <1>8, <1>9, Zenon

(* A state that is mixed with a word is a state. *)
LEMMA RoundIsWord ==
    ASSUME NEW mem, NEW d \in Int, NEW n \in Nat, NEW i \in 1 .. n, NEW v \in 0 .. Word - 1,
           Text(mem, d, 4 * n)
    PROVE  Mix(v, WordAt(mem, d, i), 2 * ByteBits) \in 0 .. Word - 1
<1>1. 2 * ByteBits \in Nat \ {0}
  <2>1. ByteBits \in Nat \ {0}
    BY Widths
  <2> QED
    BY <2>1
<1>2. WordAt(mem, d, i) \in Int
  BY WordsSeparate
<1> QED
  BY <1>1, <1>2, MixIsWord

(* MixWords is the last of the loop's states. *)
LEMMA Rounds ==
    ASSUME NEW mem, NEW d \in Int, NEW n \in Nat, NEW first \in 0 .. Word - 1,
           Text(mem, d, 4 * n)
    PROVE  \E h : Mixes(h, mem, d, first, n) /\ MixWords(mem, d, first, n) = h[n]
<1> DEFINE V == 0 .. Word - 1
           Go(i, v) == Mix(v, WordAt(mem, d, i), 2 * ByteBits)
           step == [x \in (1 .. n) \X V |-> Go(x[1], x[2])]
           g == CHOOSE h : IsMix(h, mem, d, first, n)
<1>0. \A i \in 1 .. n : \A v \in V : Go(i, v) \in V
  BY RoundIsWord
<1>1. \A i \in 1 .. n : \A v \in V : step[<<i, v>>] = Go(i, v)
  OBVIOUS
<1> HIDE DEF step, g, V, Go
<1>2. PICK f \in [0 .. n -> V] : Iterates(f, first, step, n)
  <2>1. \A i \in 1 .. n : \A v \in V : step[<<i, v>>] \in V
    BY <1>0, <1>1, Zenon
  <2>2. first \in V
    BY Zenon DEF V
  <2> QED
    BY <2>1, <2>2, Iteration, Zenon
<1>3. \A i \in 1 .. n : f[i] = Go(i, f[i - 1])
  <2> SUFFICES ASSUME NEW i \in 1 .. n PROVE f[i] = Go(i, f[i - 1])
    OBVIOUS
  <2>1. f[i - 1] \in V
    BY <1>2
  <2> QED
    BY <1>1, <1>2, <2>1, Zenon DEF Iterates
<1>4. IsMix(f, mem, d, first, n)
  <2>1. \A i \in 0 .. n : f[i] = IF i = 0 THEN first ELSE Go(i, f[i - 1])
    BY <1>2, <1>3 DEF Iterates
  <2>2. f = [i \in 0 .. n |-> IF i = 0 THEN first ELSE Go(i, f[i - 1])]
    BY <1>2, <2>1
  <2> QED
    BY <2>2, Zenon DEF IsMix, Go, WordAt
<1>5. MixWords(mem, d, first, n) = g[n]
  BY Zenon DEF MixWords, IsMix, g
<1>6. IsMix(g, mem, d, first, n)
  BY <1>4, Zenon DEF g
<1>7. g = [i \in 0 .. n |-> IF i = 0 THEN first ELSE Go(i, g[i - 1])]
  BY <1>6, Zenon DEF IsMix, Go, WordAt
<1>8. g[0] = first /\ \A i \in 1 .. n : g[i] = Go(i, g[i - 1])
  BY <1>7
<1> DEFINE S == {i \in Nat : i <= n => g[i] \in V}
<1>9. 0 \in S
  BY <1>8 DEF V
<1>10. ASSUME NEW i \in S PROVE i + 1 \in S
  <2> SUFFICES ASSUME i + 1 <= n PROVE g[i + 1] \in V
    OBVIOUS
  <2>1. i \in Nat /\ i + 1 \in 1 .. n /\ (i + 1) - 1 = i /\ g[i] \in V
    OBVIOUS
  <2>2. g[i + 1] = Go(i + 1, g[i])
    BY <1>8, <2>1, Zenon
  <2> QED
    BY <1>0, <2>1, <2>2, Zenon
<1>11. S = Nat
  <2>1. S \in SUBSET Nat
    OBVIOUS
  <2> HIDE DEF S
  <2> QED
    BY <1>9, <1>10, <2>1, Induction, Zenon
<1>12. g \in [0 .. n -> V]
  <2>1. \A i \in 0 .. n : g[i] \in V
    BY <1>11
  <2> QED
    BY <1>7, <2>1
<1>13. Mixes(g, mem, d, first, n)
  BY <1>8, <1>12, Zenon DEF Mixes, V, Go
<1> QED
  BY <1>5, <1>13, Zenon
(* As long as the words agree, the states do. *)
LEMMA SameBefore ==
    ASSUME NEW mem, NEW d, NEW other, NEW e, NEW n \in Nat, NEW first, NEW g, NEW h,
           Mixes(g, mem, d, first, n), Mixes(h, other, e, first, n),
           NEW k \in 0 .. n, \A i \in 1 .. k : WordAt(mem, d, i) = WordAt(other, e, i)
    PROVE  g[k] = h[k]
<1> DEFINE S == {i \in Nat : i <= k => g[i] = h[i]}
<1>1. 0 \in S
  BY DEF Mixes
<1>2. ASSUME NEW i \in S PROVE i + 1 \in S
  <2> SUFFICES ASSUME i + 1 <= k PROVE g[i + 1] = h[i + 1]
    OBVIOUS
  <2>1. i + 1 \in 1 .. n /\ i + 1 \in 1 .. k /\ (i + 1) - 1 = i /\ g[i] = h[i]
    OBVIOUS
  <2>2. /\ g[i + 1] = Mix(g[i], WordAt(mem, d, i + 1), 2 * ByteBits)
        /\ h[i + 1] = Mix(h[i], WordAt(other, e, i + 1), 2 * ByteBits)
    BY <2>1, Zenon DEF Mixes
  <2> QED
    BY <2>1, <2>2, Zenon
<1>3. S = Nat
  <2>1. S \in SUBSET Nat
    OBVIOUS
  <2> HIDE DEF S
  <2> QED
    BY <1>1, <1>2, <2>1, Induction
<1>4. k \in S /\ k <= k
  BY <1>3
<1> QED
  BY <1>4

(* A round keeps apart what differs in the state, or in the word. *)
LEMMA RoundSeparates ==
    ASSUME NEW x \in 0 .. Word - 1, NEW y \in 0 .. Word - 1, NEW v, NEW w,
           Near(Word, v, w), NEW s \in Nat \ {0}, Mix(x, v, s) = Mix(y, w, s)
    PROVE  (v = w => x = y) /\ (x = y => v = w)
<1>1. v \in Int /\ w \in Int /\ v - w < Word /\ w - v < Word /\ Word \in Nat /\ x \in Int /\ y \in Int
  BY Widths DEF Near
<1>2. CASE v = w
  <2>1. (x + v) - (y + w) < Word /\ (y + w) - (x + v) < Word
    BY <1>1, <1>2
  <2>2. x + v = y + w
    BY <1>1, <2>1, MixSeparates
  <2> QED
    BY <1>1, <1>2, <2>2
<1>3. CASE x = y
  <2>1. (x + v) - (y + w) < Word /\ (y + w) - (x + v) < Word
    BY <1>1, <1>3
  <2>2. x + v = y + w
    BY <1>1, <2>1, MixSeparates
  <2> QED
    BY <1>1, <1>3, <2>2
<1> QED
  BY <1>2, <1>3

(* Where the words agree from a round on, different states stay different. *)
LEMMA SameAfter ==
    ASSUME NEW mem, NEW d \in Int, NEW other, NEW e \in Int, NEW n \in Nat, NEW first, NEW g, NEW h,
           Text(mem, d, 4 * n), Text(other, e, 4 * n),
           Mixes(g, mem, d, first, n), Mixes(h, other, e, first, n),
           NEW k \in 0 .. n, \A i \in k + 1 .. n : WordAt(mem, d, i) = WordAt(other, e, i),
           g[n] = h[n]
    PROVE  g[k] = h[k]
<1> DEFINE S == {t \in Nat : t <= n - k => g[n - t] = h[n - t]}
<1>0. 2 * ByteBits \in Nat \ {0}
  <2>1. ByteBits \in Nat \ {0}
    BY Widths
  <2> QED
    BY <2>1
<1>1. 0 \in S
  <2>1. n - 0 = n
    OBVIOUS
  <2> QED
    BY <2>1
<1>2. ASSUME NEW t \in S PROVE t + 1 \in S
  <2> SUFFICES ASSUME t + 1 <= n - k PROVE g[n - (t + 1)] = h[n - (t + 1)]
    OBVIOUS
  <2> DEFINE i == n - t
  <2>1. /\ i \in 1 .. n /\ i \in k + 1 .. n /\ i - 1 \in 0 .. n /\ n - (t + 1) = i - 1
        /\ g[i] = h[i]
    OBVIOUS
  <2> HIDE DEF i
  <2> DEFINE v == WordAt(mem, d, i)
             w == WordAt(other, e, i)
  <2>2. g[i] = Mix(g[i - 1], v, 2 * ByteBits) /\ h[i] = Mix(h[i - 1], w, 2 * ByteBits)
    BY <2>1, Zenon DEF Mixes
  <2>3. v = w
    BY <2>1, Zenon
  <2>4. Near(Word, v, w)
    BY <2>1, WordsSeparate, Zenon
  <2>5. g[i - 1] \in 0 .. Word - 1 /\ h[i - 1] \in 0 .. Word - 1
    BY <2>1 DEF Mixes
  <2> HIDE DEF v, w
  <2>6. Mix(g[i - 1], v, 2 * ByteBits) = Mix(h[i - 1], w, 2 * ByteBits)
    BY <2>1, <2>2, Zenon
  <2>7. g[i - 1] = h[i - 1]
    BY <1>0, <2>3, <2>4, <2>5, <2>6, RoundSeparates
  <2> QED
    BY <2>1, <2>7, Zenon
<1>3. S = Nat
  <2>1. S \in SUBSET Nat
    OBVIOUS
  <2> HIDE DEF S
  <2> QED
    BY <1>1, <1>2, <2>1, Induction
<1>4. n - k \in Nat /\ n - k <= n - k /\ n - (n - k) = k
  OBVIOUS
<1>5. g[n - (n - k)] = h[n - (n - k)]
  BY <1>3, <1>4, Zenon
<1> QED
  BY <1>4, <1>5, Zenon

(* The tail of a text, compared with that of another. *)
LEMMA TailsSeparate ==
    ASSUME NEW mem, NEW d \in Int, NEW other, NEW e \in Int, NEW n \in Nat, n % 4 # 0,
           Text(mem, d, n), Text(other, e, n)
    PROVE  LET v == Remaining(mem, d + 4 * (n \div 4), n % 4)
               w == Remaining(other, e + 4 * (n \div 4), n % 4)
           IN /\ Near(Word, v, w)
              /\ v = w <=> Agree(mem, d, other, e, 4 * (n \div 4), n - 1)
<1> DEFINE k == n % 4
           o == 4 * (n \div 4)
           p == d + o
           q == e + o
<1>1. k \in 1 .. 3 /\ o \in Nat /\ n = o + k
  OBVIOUS
<1> HIDE DEF k, o
<1>2. /\ o \in 0 .. n - 1 /\ (k >= 2 => o + 1 \in 0 .. n - 1) /\ (k >= 3 => o + 2 \in 0 .. n - 1)
      /\ o .. n - 1 = {j \in {o, o + 1, o + 2} : (j = o + 1 => k >= 2) /\ (j = o + 2 => k >= 3)}
      /\ o # o + 1 /\ o # o + 2 /\ o + 1 # o + 2
  BY <1>1
<1>3. p = d + o /\ p + 1 = d + (o + 1) /\ p + 2 = d + (o + 2)
      /\ q = e + o /\ q + 1 = e + (o + 1) /\ q + 2 = e + (o + 2)
  BY <1>1
<1> HIDE DEF p, q
<1>4. /\ mem[p] \in Byte /\ other[q] \in Byte
      /\ k >= 2 => mem[p + 1] \in Byte /\ other[q + 1] \in Byte
      /\ k >= 3 => mem[p + 2] \in Byte /\ other[q + 2] \in Byte
  BY <1>2, <1>3, Zenon DEF Text
<1> DEFINE Same == /\ mem[p] = other[q]
                   /\ k >= 2 => mem[p + 1] = other[q + 1]
                   /\ k >= 3 => mem[p + 2] = other[q + 2]
<1>5. /\ Near(Word, Remaining(mem, p, k), Remaining(other, q, k))
      /\ Remaining(mem, p, k) = Remaining(other, q, k) => Same
  BY <1>1, <1>4, RemainingSeparates
<1>6. Same => Remaining(mem, p, k) = Remaining(other, q, k)
  BY Zenon DEF Remaining
<1>7. Same <=> \A j \in o .. n - 1 : mem[d + j] = other[e + j]
  <2>1. ASSUME Same, NEW j \in o .. n - 1 PROVE mem[d + j] = other[e + j]
    <3>1. j = o \/ (j = o + 1 /\ k >= 2) \/ (j = o + 2 /\ k >= 3)
      BY <1>2, Zenon
    <3> QED
      BY <1>3, <2>1, <3>1, Zenon
  <2>2. ASSUME \A j \in o .. n - 1 : mem[d + j] = other[e + j] PROVE Same
    <3>1. o \in o .. n - 1 /\ (k >= 2 => o + 1 \in o .. n - 1) /\ (k >= 3 => o + 2 \in o .. n - 1)
      BY <1>1
    <3> QED
      BY <1>3, <2>2, <3>1, Zenon
  <2> QED
    BY <2>1, <2>2, Zenon
<1> HIDE DEF Same
<1> QED
  BY <1>5, <1>6, <1>7, Zenon DEF Agree, p, q, o, k
(* The state before the first round. *)
LEMMA FirstIsWord ==
    ASSUME NEW seed \in 0 .. Word - 1, NEW n \in Nat
    PROVE  Xor(seed, (n * m) % Word) \in 0 .. Word - 1
<1>1. Word \in Nat \ {0} /\ n * m \in Nat
  BY Widths, MultiplierAssumption
<1>2. seed \in Nat /\ (n * m) % Word \in Nat
  <2>1. (n * m) % Word \in 0 .. Word - 1
    BY <1>1, NatDivision
  <2> QED
    BY <1>1, <2>1
<1> QED
  BY <1>2, XorBits

(* What Hash makes of two texts of n bytes: g and h are the states of its  *)
(* loops, v and w the tails.                                               *)
LEMMA TwoHashes ==
    ASSUME NEW mem, NEW d \in Int, NEW other, NEW e \in Int, NEW n \in Nat,
           NEW seed \in 0 .. Word - 1, Text(mem, d, n), Text(other, e, n)
    PROVE  LET words == n \div 4
               first == Xor(seed, (n * m) % Word)
               v == Remaining(mem, d + 4 * words, n % 4)
               w == Remaining(other, e + 4 * words, n % 4)
           IN /\ words \in Nat /\ 4 * words <= n /\ (n % 4 = 0 => 4 * words = n)
              /\ Text(mem, d, 4 * words) /\ Text(other, e, 4 * words)
              /\ \E g, h :
                   /\ Mixes(g, mem, d, first, words) /\ Mixes(h, other, e, first, words)
                   /\ HashOf(mem, d, n, seed) = IF n % 4 = 0 THEN g[words]
                                                ELSE Mix(g[words], v, 3 * ByteBits)
                   /\ HashOf(other, e, n, seed) = IF n % 4 = 0 THEN h[words]
                                                  ELSE Mix(h[words], w, 3 * ByteBits)
<1> DEFINE words == n \div 4
           first == Xor(seed, (n * m) % Word)
<1>1. words \in Nat /\ 4 * words <= n /\ (n % 4 = 0 => 4 * words = n)
  OBVIOUS
<1>2. 0 .. 4 * words - 1 \subseteq 0 .. n - 1
  BY <1>1
<1>3. Text(mem, d, 4 * words) /\ Text(other, e, 4 * words)
  BY <1>2, Zenon DEF Text
<1>4. first \in 0 .. Word - 1
  BY FirstIsWord
<1>5. /\ HashOf(mem, d, n, seed) = IF n % 4 = 0 THEN MixWords(mem, d, first, words)
                                   ELSE Mix(MixWords(mem, d, first, words),
                                            Remaining(mem, d + 4 * words, n % 4), 3 * ByteBits)
      /\ HashOf(other, e, n, seed) = IF n % 4 = 0 THEN MixWords(other, e, first, words)
                                     ELSE Mix(MixWords(other, e, first, words),
                                              Remaining(other, e + 4 * words, n % 4), 3 * ByteBits)
  BY Zenon DEF HashOf
<1> HIDE DEF words, first
<1>6. PICK g : Mixes(g, mem, d, first, words) /\ MixWords(mem, d, first, words) = g[words]
  BY <1>1, <1>3, <1>4, Rounds
<1>7. PICK h : Mixes(h, other, e, first, words) /\ MixWords(other, e, first, words) = h[words]
  BY <1>1, <1>3, <1>4, Rounds
<1>8. \E x, y : /\ Mixes(x, mem, d, first, words) /\ Mixes(y, other, e, first, words)
                /\ HashOf(mem, d, n, seed) = IF n % 4 = 0 THEN x[words]
                     ELSE Mix(x[words], Remaining(mem, d + 4 * words, n % 4), 3 * ByteBits)
                /\ HashOf(other, e, n, seed) = IF n % 4 = 0 THEN y[words]
                     ELSE Mix(y[words], Remaining(other, e + 4 * words, n % 4), 3 * ByteBits)
  BY <1>5, <1>6, <1>7, Zenon
<1> QED
  BY <1>1, <1>3, <1>8, Zenon DEF words, first

(* Texts of the same bytes have the same hash. *)
LEMMA SameHash ==
    ASSUME NEW mem, NEW d \in Int, NEW other, NEW e \in Int, NEW n \in Nat,
           NEW seed \in 0 .. Word - 1, Text(mem, d, n), Text(other, e, n),
           \A j \in 0 .. n - 1 : mem[d + j] = other[e + j]
    PROVE  HashOf(mem, d, n, seed) = HashOf(other, e, n, seed)
<1> DEFINE words == n \div 4
           first == Xor(seed, (n * m) % Word)
           v == Remaining(mem, d + 4 * words, n % 4)
           w == Remaining(other, e + 4 * words, n % 4)
<1>1. /\ words \in Nat /\ 4 * words <= n
      /\ Text(mem, d, 4 * words) /\ Text(other, e, 4 * words)
      /\ \E x, y :
           /\ Mixes(x, mem, d, first, words) /\ Mixes(y, other, e, first, words)
           /\ HashOf(mem, d, n, seed) = IF n % 4 = 0 THEN x[words] ELSE Mix(x[words], v, 3 * ByteBits)
           /\ HashOf(other, e, n, seed) = IF n % 4 = 0 THEN y[words] ELSE Mix(y[words], w, 3 * ByteBits)
  BY TwoHashes
<1>2. n % 4 # 0 => v = w
  <2>1. 4 * words .. n - 1 \subseteq 0 .. n - 1
    BY <1>1
  <2>2. Agree(mem, d, other, e, 4 * words, n - 1)
    BY <2>1, Zenon DEF Agree
  <2> QED
    BY <2>2, TailsSeparate
<1> HIDE DEF words, first, v, w
<1>3. PICK g, h :
           /\ Mixes(g, mem, d, first, words) /\ Mixes(h, other, e, first, words)
           /\ HashOf(mem, d, n, seed) = IF n % 4 = 0 THEN g[words] ELSE Mix(g[words], v, 3 * ByteBits)
           /\ HashOf(other, e, n, seed) = IF n % 4 = 0 THEN h[words] ELSE Mix(h[words], w, 3 * ByteBits)
  BY <1>1, Zenon
<1>4. \A i \in 1 .. words : WordAt(mem, d, i) = WordAt(other, e, i)
  <2> SUFFICES ASSUME NEW i \in 1 .. words PROVE WordAt(mem, d, i) = WordAt(other, e, i)
    OBVIOUS
  <2>1. 4 * (i - 1) .. 4 * (i - 1) + 3 \subseteq 0 .. n - 1
    BY <1>1
  <2>2. Agree(mem, d, other, e, 4 * (i - 1), 4 * (i - 1) + 3)
    BY <2>1, Zenon DEF Agree
  <2> QED
    BY <1>1, <2>2, WordsSeparate
<1>5. g[words] = h[words]
  <2>1. words \in 0 .. words
    BY <1>1
  <2> QED
    BY <1>1, <1>3, <1>4, <2>1, SameBefore
<1>6. CASE n % 4 = 0
  BY <1>3, <1>5, <1>6, Zenon
<1>7. CASE n % 4 # 0
  <2>1. v = w
    BY <1>2, <1>7, Zenon
  <2> QED
    BY <1>3, <1>5, <1>7, <2>1, Zenon
<1> QED
  BY <1>6, <1>7, Zenon
(* The texts differ in the bytes of block b at most. *)
SameOutside(mem, other, d, n, b) ==
    \A j \in 0 .. n - 1 : j \div 4 # b => mem[d + j] = other[d + j]

(* Texts that differ within a word or within the tail only, and have the   *)
(* same hash, are the same.                                                *)
LEMMA BlockSeparates ==
    ASSUME NEW mem, NEW other, NEW d \in Int, NEW n \in Nat,
           NEW seed \in 0 .. Word - 1, Text(mem, d, n), Text(other, d, n),
           NEW b \in 0 .. n \div 4,
           SameOutside(mem, other, d, n, b),
           HashOf(mem, d, n, seed) = HashOf(other, d, n, seed)
    PROVE  Agree(mem, d, other, d, 0, n - 1)
<1> DEFINE words == n \div 4
           first == Xor(seed, (n * m) % Word)
           v == Remaining(mem, d + 4 * words, n % 4)
           w == Remaining(other, d + 4 * words, n % 4)
<1>1. /\ words \in Nat /\ 4 * words <= n /\ (n % 4 = 0 => 4 * words = n)
      /\ Text(mem, d, 4 * words) /\ Text(other, d, 4 * words)
      /\ \E x, y :
           /\ Mixes(x, mem, d, first, words) /\ Mixes(y, other, d, first, words)
           /\ HashOf(mem, d, n, seed) = IF n % 4 = 0 THEN x[words] ELSE Mix(x[words], v, 3 * ByteBits)
           /\ HashOf(other, d, n, seed) = IF n % 4 = 0 THEN y[words] ELSE Mix(y[words], w, 3 * ByteBits)
  BY TwoHashes
<1>2. n % 4 # 0 => Near(Word, v, w) /\ (v = w <=> Agree(mem, d, other, d, 4 * words, n - 1))
  BY TailsSeparate
<1>3. ASSUME NEW i \in 1 .. words
      PROVE  /\ Near(Word, WordAt(mem, d, i), WordAt(other, d, i))
             /\ WordAt(mem, d, i) = WordAt(other, d, i) <=> Agree(mem, d, other, d, 4 * (i - 1), 4 * (i - 1) + 3)
  BY <1>1, WordsSeparate
<1>4. b \in Nat /\ b <= words
  BY <1>1
<1>5. ASSUME NEW i \in Nat, i # b, NEW j \in 0 .. n - 1, j \in 4 * i .. 4 * i + 3
      PROVE  mem[d + j] = other[d + j]
  <2>1. j \div 4 = i
    BY <1>5
  <2> QED
    BY <1>5, <2>1, Zenon DEF SameOutside
<1>6. ASSUME NEW i \in 1 .. words, i - 1 # b PROVE WordAt(mem, d, i) = WordAt(other, d, i)
  <2>1. i - 1 \in Nat /\ 4 * (i - 1) .. 4 * (i - 1) + 3 \subseteq 0 .. n - 1
    BY <1>1
  <2>2. Agree(mem, d, other, d, 4 * (i - 1), 4 * (i - 1) + 3)
    <3> SUFFICES ASSUME NEW j \in 4 * (i - 1) .. 4 * (i - 1) + 3 PROVE mem[d + j] = other[d + j]
      BY Zenon DEF Agree
    <3>1. j \in 0 .. n - 1
      BY <2>1
    <3> QED
      BY <1>5, <1>6, <2>1, <3>1, Zenon
  <2> QED
    BY <1>3, <2>2, Zenon
<1>7. n % 4 # 0 /\ words # b => v = w
  <2> SUFFICES ASSUME n % 4 # 0, words # b PROVE v = w
    OBVIOUS
  <2>1. Agree(mem, d, other, d, 4 * words, n - 1)
    <3> SUFFICES ASSUME NEW j \in 4 * words .. n - 1 PROVE mem[d + j] = other[d + j]
      BY Zenon DEF Agree
    <3>1. j \in 0 .. n - 1 /\ j \in 4 * words .. 4 * words + 3
      BY <1>1
    <3> QED
      BY <1>1, <1>5, <3>1, Zenon
  <2> QED
    BY <1>2, <2>1, Zenon
<1>8. 2 * ByteBits \in Nat \ {0} /\ 3 * ByteBits \in Nat \ {0}
  <2>1. ByteBits \in Nat \ {0}
    BY Widths
  <2> QED
    BY <2>1
<1> HIDE DEF words, first, v, w
<1>9. PICK g, h :
           /\ Mixes(g, mem, d, first, words) /\ Mixes(h, other, d, first, words)
           /\ HashOf(mem, d, n, seed) = IF n % 4 = 0 THEN g[words] ELSE Mix(g[words], v, 3 * ByteBits)
           /\ HashOf(other, d, n, seed) = IF n % 4 = 0 THEN h[words] ELSE Mix(h[words], w, 3 * ByteBits)
  BY <1>1, Zenon
<1>10. \A i \in 0 .. words : g[i] \in 0 .. Word - 1 /\ h[i] \in 0 .. Word - 1
  BY <1>9 DEF Mixes
<1>11. g[b] = h[b]
  <2>1. b \in 0 .. words /\ \A i \in 1 .. b : i \in 1 .. words /\ i - 1 # b
    BY <1>1, <1>4
  <2>2. \A i \in 1 .. b : WordAt(mem, d, i) = WordAt(other, d, i)
    BY <1>6, <2>1, Zenon
  <2> QED
    BY <1>1, <1>9, <2>1, <2>2, SameBefore
<1>12. CASE b = words
  <2>1. CASE n % 4 = 0
    <3>1. ASSUME NEW j \in 0 .. n - 1 PROVE j \div 4 # b
      <4>1. 4 * b = n /\ j \in Nat
        BY <1>1, <1>12, <2>1
      <4> QED
        BY <1>4, <4>1
    <3> QED
      BY <3>1, Zenon DEF Agree, SameOutside
  <2>2. CASE n % 4 # 0
    <3>1. Mix(g[words], v, 3 * ByteBits) = Mix(h[words], w, 3 * ByteBits)
      BY <1>9, <2>2, Zenon
    <3>2. words \in 0 .. words /\ g[words] = h[words]
      BY <1>1, <1>11, <1>12
    <3>3. v = w
      BY <1>2, <1>8, <1>10, <2>2, <3>1, <3>2, RoundSeparates
    <3>4. Agree(mem, d, other, d, 4 * words, n - 1)
      BY <1>2, <2>2, <3>3, Zenon
    <3> SUFFICES ASSUME NEW j \in 0 .. n - 1, j \div 4 = b PROVE mem[d + j] = other[d + j]
      BY Zenon DEF Agree, SameOutside
    <3>5. j \in 4 * words .. n - 1
      BY <1>1, <1>12
    <3> QED
      BY <3>4, <3>5, Zenon DEF Agree
  <2> QED
    BY <2>1, <2>2, Zenon
<1>13. CASE b # words
  <2>1. g[words] = h[words]
    <3>1. CASE n % 4 = 0
      BY <1>9, <3>1, Zenon
    <3>2. CASE n % 4 # 0
      <4>1. Mix(g[words], v, 3 * ByteBits) = Mix(h[words], w, 3 * ByteBits)
        BY <1>9, <3>2, Zenon
      <4>2. v = w /\ Near(Word, v, w)
        BY <1>2, <1>7, <1>13, <3>2, Zenon
      <4>3. words \in 0 .. words
        BY <1>1
      <4> QED
        BY <1>8, <1>10, <4>1, <4>2, <4>3, RoundSeparates
    <3> QED
      BY <3>1, <3>2, Zenon
  <2> DEFINE k == b + 1
  <2>2. /\ k \in 1 .. words /\ k \in 0 .. words /\ k - 1 = b /\ b \in 0 .. words
        /\ \A i \in k + 1 .. words : i \in 1 .. words /\ i - 1 # b
    BY <1>1, <1>4, <1>13
  <2> HIDE DEF k
  <2>3. \A i \in k + 1 .. words : WordAt(mem, d, i) = WordAt(other, d, i)
    BY <1>6, <2>2, Zenon
  <2>4. g[k] = h[k]
    BY <1>1, <1>9, <2>1, <2>2, <2>3, SameAfter
  <2>5. /\ g[k] = Mix(g[b], WordAt(mem, d, k), 2 * ByteBits)
        /\ h[k] = Mix(h[b], WordAt(other, d, k), 2 * ByteBits)
    BY <1>9, <2>2, Zenon DEF Mixes
  <2>6. WordAt(mem, d, k) = WordAt(other, d, k)
    <3> DEFINE p == WordAt(mem, d, k)
               q == WordAt(other, d, k)
    <3>1. Near(Word, p, q)
      BY <1>3, <2>2, Zenon
    <3>2. Mix(g[b], p, 2 * ByteBits) = Mix(h[b], q, 2 * ByteBits)
      BY <2>4, <2>5, Zenon
    <3> HIDE DEF p, q
    <3>3. p = q
      BY <1>8, <1>10, <1>11, <2>2, <3>1, <3>2, RoundSeparates
    <3> QED
      BY <3>3 DEF p, q
  <2>7. Agree(mem, d, other, d, 4 * (k - 1), 4 * (k - 1) + 3)
    BY <1>3, <2>2, <2>6, Zenon
  <2> SUFFICES ASSUME NEW j \in 0 .. n - 1, j \div 4 = b PROVE mem[d + j] = other[d + j]
    BY Zenon DEF Agree, SameOutside
  <2>8. j \in 4 * (k - 1) .. 4 * (k - 1) + 3
    BY <1>4, <2>2
  <2> QED
    BY <2>7, <2>8, Zenon DEF Agree
<1> QED
  BY <1>12, <1>13, Zenon

-----------------------------------------------------------------------------
(* A slice refers to bytes. *)
LEMMA SliceIsText ==
    ASSUME IInv, NEW x \in Slices
    PROVE  /\ data_[x] \in Nat /\ size_[x] \in Nat
           /\ data_[x] .. data_[x] + size_[x] - 1 \subseteq 0 .. Literal
           /\ Text(memory, data_[x], size_[x])
<1>1. /\ data_[x] \in Nat /\ size_[x] \in Nat /\ data_[x] + size_[x] <= Literal
  BY Contents
<1>2. Literal \in Nat /\ memory \in [0 .. Literal -> Byte]
  BY DEF IInv, TypeOK, Literal
<1>3. data_[x] .. data_[x] + size_[x] - 1 \subseteq 0 .. Literal
  BY <1>1, <1>2
<1>4. ASSUME NEW i \in 0 .. size_[x] - 1 PROVE memory[data_[x] + i] \in Byte
  <2>1. data_[x] + i \in 0 .. Literal
    BY <1>1, <1>2
  <2> QED
    BY <1>2, <2>1, Zenon
<1> QED
  BY <1>1, <1>3, <1>4 DEF Text

(* Hash depends on the content alone: equal slices have equal hashes, for  *)
(* every seed, every odd multiplier and every width of a byte.             *)
THEOREM ContentHash == Spec => []HashOfContent
<1>1. IInv => HashOfContent
  <2> SUFFICES ASSUME IInv, NEW x \in Slices, NEW y \in Slices, NEW seed \in Seeds, Equals(x, y)
               PROVE  HashOf(memory, data_[x], size_[x], seed)
                          = HashOf(memory, data_[y], size_[y], seed)
    BY Zenon DEF HashOfContent
  <2> DEFINE d == data_[x]
             e == data_[y]
             n == size_[x]
  <2>1. size_[y] = n /\ SameUpTo(Content(x), Content(y), n)
    BY EqualContents
  <2>2. d \in Nat /\ n \in Nat /\ Text(memory, d, n)
    BY SliceIsText
  <2>3. e \in Nat /\ Text(memory, e, n)
    BY <2>1, SliceIsText
  <2>4. ASSUME NEW j \in 0 .. n - 1 PROVE memory[d + j] = memory[e + j]
    <3>1. Content(x)[j + 1] = memory[d + j]
      BY Contents
    <3>2. j \in 0 .. size_[y] - 1
      BY <2>1, <2>2
    <3>3. Content(y)[j + 1] = memory[e + j]
      BY <3>2, Contents
    <3>4. j + 1 \in 1 .. n
      BY <2>2
    <3>5. Content(x)[j + 1] = Content(y)[j + 1]
      BY <2>1, <3>4, Zenon DEF SameUpTo
    <3> QED
      BY <3>1, <3>3, <3>5, Zenon
  <2>5. d \in Int /\ e \in Int /\ seed \in 0 .. Word - 1
    BY <2>2, <2>3, SeedsAssumption
  <2> HIDE DEF d, e, n
  <2>6. HashOf(memory, d, n, seed) = HashOf(memory, e, n, seed)
    BY <2>2, <2>3, <2>4, <2>5, SameHash
  <2> QED
    BY <2>1, <2>6, Zenon DEF d, e, n
<1> QED
  BY <1>1, Invariance, PTL

(* Inputs that differ within one word, or within the tail, have different  *)
(* hashes, with char signed or not.                                        *)
THEOREM NoCollision == Spec => []HashSeparates
<1>1. IInv => HashSeparates
  <2> SUFFICES ASSUME IInv, NEW x \in Slices, NEW seed \in Seeds,
                      NEW i \in 0 .. size_[x] \div 4, NEW bytes \in [Block(x, i) -> Byte]
               PROVE  LET other == [a \in DOMAIN memory |->
                                      IF a \in DOMAIN bytes THEN bytes[a] ELSE memory[a]]
                      IN HashOf(other, data_[x], size_[x], seed)
                             = HashOf(memory, data_[x], size_[x], seed) => other = memory
    BY Zenon DEF HashSeparates
  <2> DEFINE d == data_[x]
             n == size_[x]
             other == [a \in DOMAIN memory |-> IF a \in DOMAIN bytes THEN bytes[a] ELSE memory[a]]
  <2> SUFFICES ASSUME HashOf(other, d, n, seed) = HashOf(memory, d, n, seed)
               PROVE  other = memory
    BY Zenon
  <2>1. d \in Nat /\ n \in Nat /\ d .. d + n - 1 \subseteq 0 .. Literal /\ Text(memory, d, n)
    BY SliceIsText
  <2>2. DOMAIN memory = 0 .. Literal /\ memory \in [0 .. Literal -> Byte]
    BY DEF IInv, TypeOK
  <2>3. /\ DOMAIN bytes = Block(x, i) /\ \A a \in Block(x, i) : bytes[a] \in Byte
        /\ Block(x, i) = {a \in d .. d + n - 1 : (a - d) \div 4 = i}
    BY Zenon DEF Block
  <2> HIDE DEF d, n
  <2>4. /\ \A a \in 0 .. Literal : a \in Block(x, i) => other[a] = bytes[a]
        /\ \A a \in 0 .. Literal : a \notin Block(x, i) => other[a] = memory[a]
    BY <2>2, <2>3, Zenon
  <2>5. \A j \in 0 .. n - 1 : d + j \in d .. d + n - 1 /\ d + j \in 0 .. Literal /\ (d + j) - d = j
    BY <2>1
  <2>6. Text(other, d, n)
    <3> SUFFICES ASSUME NEW j \in 0 .. n - 1 PROVE other[d + j] \in Byte
      BY Zenon DEF Text
    <3>1. d + j \in 0 .. Literal
      BY <2>5, Zenon
    <3> HIDE DEF other
    <3> QED
      BY <2>2, <2>3, <2>4, <3>1, Zenon
  <2>7. SameOutside(memory, other, d, n, i)
    <3> SUFFICES ASSUME NEW j \in 0 .. n - 1, j \div 4 # i PROVE memory[d + j] = other[d + j]
      BY Zenon DEF SameOutside
    <3>1. d + j \notin Block(x, i) /\ d + j \in 0 .. Literal
      BY <2>3, <2>5, Zenon
    <3> HIDE DEF other
    <3> QED
      BY <2>4, <3>1, Zenon
  <2>8. d \in Int /\ i \in 0 .. n \div 4 /\ seed \in 0 .. Word - 1
    BY <2>1, SeedsAssumption DEF n
  <2> HIDE DEF other
  <2>9. Agree(memory, d, other, d, 0, n - 1)
    <3>1. HashOf(memory, d, n, seed) = HashOf(other, d, n, seed)
      BY Zenon
    <3> QED
      BY <2>1, <2>6, <2>7, <2>8, <3>1, BlockSeparates
  <2>10. ASSUME NEW a \in 0 .. Literal PROVE other[a] = memory[a]
    <3>1. CASE a \in Block(x, i)
      <4>1. a - d \in 0 .. n - 1 /\ d + (a - d) = a
        <5>1. a \in d .. d + n - 1
          BY <2>3, <3>1, Zenon
        <5> QED
          BY <2>1, <5>1
      <4> QED
        BY <2>9, <4>1, Zenon DEF Agree
    <3>2. CASE a \notin Block(x, i)
      BY <2>4, <3>2, Zenon
    <3> QED
      BY <3>1, <3>2, Zenon
  <2>11. other = [a \in 0 .. Literal |-> other[a]] /\ memory = [a \in 0 .. Literal |-> memory[a]]
    <3>1. other = [a \in 0 .. Literal |-> other[a]]
      <4>1. DOMAIN other = 0 .. Literal /\ other = [a \in DOMAIN other |-> other[a]]
        BY <2>2, Zenon DEF other
      <4> QED
        BY <4>1, Zenon
    <3> QED
      BY <2>2, <3>1
  <2> QED
    BY <2>10, <2>11, Zenon
<1> QED
  BY <1>1, Invariance, PTL
==============================================================================
