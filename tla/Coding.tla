------------------------------- MODULE Coding -------------------------------
(***************************************************************************)
(* The encodings of src/src/util/coding.cpp and coding.h as operators on   *)
(* sequences of bytes.  A byte has G + 1 bits, G of them payload in a      *)
(* varint (G = 7 in the code); the widths of uint32_t and uint64_t and the *)
(* lengths of their varints are constants too, so that a scaled-down       *)
(* instance keeps the partly used last group that 32 and 64 bits have.     *)
(***************************************************************************)
EXTENDS Integers, Sequences, Arithmetic

CONSTANTS
    G,
    Bits32, Bits64,          \* 32 and 64
    kMaxVarint32Length,      \* 5
    kMaxVarint64Length       \* 10

ASSUME WidthAssumption ==
    /\ G \in Nat \ {0} /\ Bits32 \in Nat /\ Bits64 \in Nat
    /\ kMaxVarint32Length \in Nat \ {0} /\ kMaxVarint64Length \in Nat \ {0}
    /\ Bits32 % (G + 1) = 0 /\ Bits64 % (G + 1) = 0
    /\ G * (kMaxVarint32Length - 1) < Bits32 /\ Bits32 <= G * kMaxVarint32Length
    /\ G * (kMaxVarint64Length - 1) < Bits64 /\ Bits64 <= G * kMaxVarint64Length

B == Pow2(G)            \* the flag "more bytes are present"
Byte == 0 .. 2 * B - 1

Shr(v, k) == v \div Pow2(k)
Drop(s, k) == SubSeq(s, k + 1, Len(s))

-----------------------------------------------------------------------------
(* Fixed width, least significant byte first (memcpy, little-endian host). *)

(* A mutant: the upper bytes are not cut off. *)
FixedWhole(v, bits) ==
    [j \in 1 .. bits \div (G + 1) |-> Shr(v, (G + 1) * (j - 1))]

EncodeFixed(v, bits) ==
    [j \in 1 .. bits \div (G + 1) |-> Shr(v, (G + 1) * (j - 1)) % (2 * B)]

DecodeFixed(s, bits) ==
    LET bytes == bits \div (G + 1)
    IN Sum([j \in 1 .. bytes |-> s[j] * Pow2((G + 1) * (j - 1))], bytes)

-----------------------------------------------------------------------------
(* Varints.  EncodeVarint32 is written out by thresholds, EncodeVarint64   *)
(* and VarintLength are loops.                                             *)

(* The number of bytes that EncodeVarint32 chooses. *)
Groups32(v) ==
    CHOOSE k \in 1 .. kMaxVarint32Length :
        /\ k = kMaxVarint32Length \/ v < Pow2(G * k)
        /\ \A j \in 1 .. k - 1 : v >= Pow2(G * j)

EncodeVarint32(v) ==
    [j \in 1 .. Groups32(v) |->
        IF j < Groups32(v) THEN B + (Shr(v, G * (j - 1)) % B)
                           ELSE Shr(v, G * (j - 1)) % (2 * B)]

EncodeVarint64(v) ==
    LET enc[w \in Nat] == IF w >= B THEN <<B + (w % B)>> \o enc[Shr(w, G)] ELSE <<w>>
    IN enc[v]

(* A mutant: stops at the flag's own value. *)
VarintLengthInclusive(v) ==
    LET len[w \in Nat] == IF w > B THEN 1 + len[Shr(w, G)] ELSE 1
    IN len[v]

VarintLength(v) ==
    LET len[w \in Nat] == IF w >= B THEN 1 + len[Shr(w, G)] ELSE 1
    IN len[v]

(* A mutant: the flag is left in the payload. *)
WholeByte(byte) == byte

Payload(byte) == byte % B

(* What a Get returns: whether it succeeded, the value, and the input that *)
(* is left.  The varint ends at the first byte without the flag, which     *)
(* must come within the input and within the rounds of the loop.           *)
GetVarint(input, rounds, bits) ==
    LET ends == {j \in 1 .. Len(input) :
                    /\ j <= rounds
                    /\ input[j] < B
                    /\ \A k \in 1 .. j - 1 : input[k] >= B}
        shifted == [j \in 1 .. Len(input) |-> Payload(input[j]) * Pow2(G * (j - 1))]
    IN IF ends = {}
       THEN [ok |-> FALSE, value |-> 0, rest |-> input]
       ELSE LET j == CHOOSE k \in ends : TRUE
            IN [ok |-> TRUE, value |-> Sum(shifted, j) % Pow2(bits), rest |-> Drop(input, j)]

GetVarint32(input) == GetVarint(input, kMaxVarint32Length, Bits32)
GetVarint64(input) == GetVarint(input, kMaxVarint64Length, Bits64)

-----------------------------------------------------------------------------
(* The size of the slice is cut to a uint32_t; the bytes are not. *)
PutLengthPrefixedSlice(s) == EncodeVarint32(Len(s) % Pow2(Bits32)) \o s

(* A mutant: a slice that ends with the input is refused. *)
SliceFitsStrictly(rest, len) == Len(rest) > len

SliceFits(rest, len) == Len(rest) >= len

(* Where the length is there and the slice is not, the input has already   *)
(* been advanced past the length.                                          *)
GetLengthPrefixedSlice(input) ==
    LET l == GetVarint32(input)
    IN IF l.ok /\ SliceFits(l.rest, l.value)
       THEN [ok |-> TRUE, value |-> SubSeq(l.rest, 1, l.value),
             rest |-> Drop(l.rest, l.value)]
       ELSE [ok |-> FALSE, value |-> <<>>, rest |-> l.rest]

(* The overload on pointers: nullptr leaves its caller where it was. *)
GetLengthPrefixedSlicePtr(p) ==
    LET q == GetVarint32(p)
    IN IF q.ok /\ ~(q.value > Len(q.rest))
       THEN [ok |-> TRUE, value |-> SubSeq(q.rest, 1, q.value),
             rest |-> Drop(q.rest, q.value)]
       ELSE [ok |-> FALSE, value |-> <<>>, rest |-> p]
=============================================================================
