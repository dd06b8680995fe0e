-------------------------------- MODULE Slice --------------------------------
(***************************************************************************)
(* Slice (src/include/leveldb/slice.h): a pointer and a length into        *)
(* storage that belongs to someone else.  Addresses are numbers.  The      *)
(* storage is a std::string with its terminator, followed by the literal   *)
(* "" that empty slices point to.  A byte has two hexadecimal digits.      *)
(***************************************************************************)
EXTENDS Integers, Sequences, FiniteSetsExt

CONSTANTS
    Slices,      \* the Slice objects
    Texts,       \* what the std::string may contain
    Digits,      \* how many hexadecimal digits there are: 16
    IntMax       \* 2^31 - 1

Byte == 0 .. Digits * Digits - 1

ASSUME DigitsAssumption == Digits \in Nat \ {0}
(* compare keeps a length in an int: the storage is no longer than that. *)
ASSUME TextsAssumption ==
    IntMax \in Nat /\ \A t \in Texts : t \in Seq(Byte) /\ Len(t) <= IntMax

VARIABLES
    memory,          \* content of every address
    length,          \* of the std::string
    data_, size_     \* of each slice

vars == <<memory, length, data_, size_>>

Literal == length + 1

Init ==
    \E t \in Texts :
        /\ length = Len(t)
        /\ memory = [a \in 0 .. length + 1 |-> IF a < length THEN t[a + 1] ELSE 0]
        /\ data_ = [x \in Slices |-> Literal]
        /\ size_ = [x \in Slices |-> 0]

Refer(x, d, n) ==
    /\ data_' = [data_ EXCEPT ![x] = d]
    /\ size_' = [size_ EXCEPT ![x] = n]
    /\ UNCHANGED <<memory, length>>

(* Slice(d, n) *)
Construct(x, d, n) == d + n <= length /\ Refer(x, d, n)

(* Slice(s) of a std::string *)
ConstructFromString(x) == Refer(x, 0, length)

strlen(d) == Min({a \in d .. Literal : memory[a] = 0}) - d

(* Slice(s) of a C string *)
ConstructFromChars(x, d) == Refer(x, d, strlen(d))

Assign(x, y) == Refer(x, data_[y], size_[y])

clear(x) == Refer(x, Literal, 0)

(* A mutant: the size is left as it was. *)
MovesOnly(x, n) ==
    /\ n <= size_[x]
    /\ Refer(x, data_[x] + n, size_[x])

remove_prefix(x, n) ==
    /\ n <= size_[x]
    /\ Refer(x, data_[x] + n, size_[x] - n)

Next ==
    \E x \in Slices :
        \/ \E d, n \in 0 .. length : Construct(x, d, n) \/ remove_prefix(x, n)
        \/ ConstructFromString(x)
        \/ \E d \in 0 .. Literal : ConstructFromChars(x, d)
        \/ \E y \in Slices : Assign(x, y)
        \/ clear(x)

Spec == Init /\ [][Next]_vars

-----------------------------------------------------------------------------
(* What the const members return.                                          *)

(* ToString(); operator[](n), for n < size(), is Content(x)[n + 1]. *)
Content(x) == [i \in 1 .. size_[x] |-> memory[data_[x] + i - 1]]

(* A mutant: "%X", without the leading zero. *)
Unpadded(byte) ==
    IF byte < Digits THEN <<byte>> ELSE <<byte \div Digits, byte % Digits>>

(* "%02X" of an unsigned char *)
HexDigits(byte) == <<byte \div Digits, byte % Digits>>

(* ToString(true) *)
Hex(x) ==
    LET result[i \in 0 .. size_[x]] ==
          IF i = 0 THEN <<>> ELSE result[i - 1] \o HexDigits(Content(x)[i])
    IN result[size_[x]]

(* The sign of the first difference of n bytes, taken as unsigned. *)
memcmp(a, b, n) ==
    LET diff == {i \in 0 .. n - 1 : memory[a + i] # memory[b + i]}
        first == Min(diff)
    IN IF diff = {} THEN 0
       ELSE IF memory[a + first] < memory[b + first] THEN -1 ELSE 1

(* A mutant: the longer slice is not looked at when the prefix is equal. *)
ComparePrefix(x, b) == memcmp(data_[x], data_[b], Min({size_[x], size_[b]}))

(* A size_t kept in an int *)
ToInt(n) == ((n + IntMax + 1) % (2 * (IntMax + 1))) - (IntMax + 1)

compare(x, b) ==
    LET min_len == ToInt(Min({size_[x], size_[b]}))
        r == memcmp(data_[x], data_[b], min_len)
    IN IF r # 0 THEN r
       ELSE IF size_[x] < size_[b] THEN -1
       ELSE IF size_[x] > size_[b] THEN 1 ELSE 0

Equals(x, y) == size_[x] = size_[y] /\ memcmp(data_[x], data_[y], size_[x]) = 0

starts_with(x, p) ==
    size_[x] >= size_[p] /\ memcmp(data_[x], data_[p], size_[p]) = 0

-----------------------------------------------------------------------------
(* Every variable has its type; every slice stays inside the storage,      *)
(* whatever sequence of remove_prefix, clear and assignment it went        *)
(* through.                                                                *)
TypeOK ==
    /\ memory \in [0 .. Literal -> Byte]
    /\ data_ \in [Slices -> 0 .. Literal]
    /\ size_ \in [Slices -> 0 .. length]
    /\ \A x \in Slices : data_[x] = Literal => size_[x] = 0
    /\ \A x \in Slices : data_[x] # Literal => data_[x] + size_[x] <= length

(* The order of strings: s is a proper prefix of t, or smaller at the      *)
(* first place where they differ.                                          *)
Below(s, t) ==
    \E k \in 0 .. Len(s) :
        /\ k <= Len(t)
        /\ SubSeq(s, 1, k) = SubSeq(t, 1, k)
        /\ IF k = Len(s) THEN k < Len(t)
                         ELSE k < Len(t) /\ s[k + 1] < t[k + 1]

(* compare, ==, != and starts_with agree with each other and with the      *)
(* order of strings, for slices of different sizes, slices that overlap    *)
(* and slices of the same storage: "< 0 iff *this < b, == 0 iff            *)
(* *this == b, > 0 iff *this > b", "true iff x is a prefix of *this".      *)
CompareIsTheOrder ==
    \A x, y \in Slices :
        LET s == Content(x)
            t == Content(y)
        IN /\ compare(x, y) < 0 <=> Below(s, t)
           /\ compare(x, y) > 0 <=> Below(t, s)
           /\ compare(x, y) = 0 <=> Equals(x, y)
           /\ Equals(x, y) <=> s = t
           /\ starts_with(x, y) <=> \E k \in 0 .. Len(s) : SubSeq(s, 1, k) = t

(* The hexadecimal form tells slices apart: no two different contents are  *)
(* written the same, bytes below 16 and above 127 included.                *)
HexTellsApart ==
    \A x, y \in Slices : Hex(x) = Hex(y) => Content(x) = Content(y)
=============================================================================
