----------------------------- MODULE BitStream -----------------------------
(***************************************************************************)
(* BitStreamPutInt and BitStreamGetInt (src/src/util/coding.cpp): integers *)
(* of any number of bits at any bit offset of a buffer.  The buffer here   *)
(* is a std::string: buf[Size] is its terminator.  bit is what the header  *)
(* says the buffer holds, bit by bit.                                      *)
(***************************************************************************)
EXTENDS Integers, Arithmetic

CONSTANTS
    W,         \* bits in a byte, 8 in the code
    ValueLen,  \* bytes in a uint64_t, 8 in the code
    Size,      \* bytes in the buffer
    Values     \* values that callers put

ASSUME SizeAssumption == W \in Nat \ {0} /\ ValueLen \in Nat \ {0} /\ Size \in Nat
ASSUME BitValuesAssumption == Values \subseteq 0 .. Pow2(W * ValueLen) - 1

VARIABLES
    buf,   \* dst in the code
    bit

bitVars == <<buf, bit>>

BitInit ==
    /\ buf = [o \in 0 .. Size |-> 0]
    /\ bit = [b \in 0 .. W * Size - 1 |-> 0]

(* REQUIRES: (offset + bits + 7) / 8 <= dstlen and bits <= 64 *)
Fields(len) ==
    {f \in [offset : 0 .. W * len, bits : 0 .. W * ValueLen] :
        (f.offset + f.bits + W - 1) \div W <= len}

-----------------------------------------------------------------------------
(* The loops of put and get: one round for each byte o that the field      *)
(* reaches, from byteOffset on.                                            *)

byteOffset(f) == f.offset \div W

(* bitOffset in the round of byte o *)
bitOffset(f, o) == IF o = byteOffset(f) THEN f.offset % W ELSE 0

(* How many bits the rounds before that of byte o have taken: shift *)
Shift(f, o) == IF o = byteOffset(f) THEN 0 ELSE W * o - f.offset

(* while (bits > 0) *)
HasRound(f, o) == o >= byteOffset(f) /\ Shift(f, o) < f.bits

bitsToGet(f, o) ==
    LET left == f.bits - Shift(f, o)
        room == W - bitOffset(f, o)
    IN IF left < room THEN left ELSE room

(* A mutant: the mask is not moved to the field. *)
ClearedUnshifted(byte, at, n) == byte - Field(byte, 0, n)

(* byte & ~(mask << bitOffset) *)
Cleared(byte, at, n) == byte - Field(byte, at, n) * Pow2(at)

(* BitStreamPutInt on a char buffer *)
PutBytes(ptr, f, value) ==
    [o \in DOMAIN ptr |->
        IF HasRound(f, o)
        THEN LET at == bitOffset(f, o)
                 n == bitsToGet(f, o)
             IN Cleared(ptr[o], at, n) + Field(value, Shift(f, o), n) * Pow2(at)
        ELSE ptr[o]]

(* A mutant: starts at the beginning of the byte. *)
GetFromByte(ptr, f) ==
    LET o(i) == byteOffset(f) + i - 1
        rounds == IF f.bits = 0 THEN 0 ELSE ((f.offset % W) + f.bits - 1) \div W + 1
    IN Sum([i \in 1 .. rounds |->
              Field(ptr[o(i)], 0, bitsToGet(f, o(i))) * Pow2(Shift(f, o(i)))], rounds)

BitStreamGetInt(ptr, f) ==
    LET o(i) == byteOffset(f) + i - 1
        rounds == IF f.bits = 0 THEN 0 ELSE ((f.offset % W) + f.bits - 1) \div W + 1
    IN Sum([i \in 1 .. rounds |->
              Field(ptr[o(i)], bitOffset(f, o(i)), bitsToGet(f, o(i)))
                  * Pow2(Shift(f, o(i)))], rounds)

(* A mutant: rounds up, where the copy loops already include the last byte. *)
UsedBytesRoundedUp(f) == ((f.offset % W) + f.bits + W - 1) \div W

UsedBytes(f) == ((f.offset % W) + f.bits) \div W

(* The variant for std::string works on a copy of the bytes concerned,     *)
(* tmpBuf, and copies UsedBytes + 1 bytes there and back; the last of them *)
(* may be the terminator.                                                  *)
PutString(f, value) ==
    LET tmpBuf == PutBytes([idx \in 0 .. UsedBytes(f) |-> buf[byteOffset(f) + idx]],
                           [offset |-> f.offset % W, bits |-> f.bits], value)
    IN [o \in 0 .. Size |->
           IF o - byteOffset(f) \in 0 .. UsedBytes(f)
           THEN tmpBuf[o - byteOffset(f)] ELSE buf[o]]

(* What the header says of bits [offset, offset + bits). *)
Written(f, value) ==
    [b \in DOMAIN bit |->
        IF b - f.offset \in 0 .. f.bits - 1
        THEN Field(value, b - f.offset, 1) ELSE bit[b]]

PutIntChars(f, value) ==
    /\ buf' = PutBytes(buf, f, value)
    /\ bit' = Written(f, value)

PutIntString(f, value) ==
    /\ buf' = PutString(f, value)
    /\ bit' = Written(f, value)

BitNext == \E f \in Fields(Size), value \in Values :
               PutIntChars(f, value) \/ PutIntString(f, value)

BitSpec == BitInit /\ [][BitNext]_bitVars

-----------------------------------------------------------------------------
(* The buffer holds bytes, and tmpBuf, of ValueLen + 1 bytes, is never     *)
(* overrun: neither by the copies, which stay in the string and its        *)
(* terminator, nor by the put.                                             *)
BitTypeOK ==
    /\ buf \in [0 .. Size -> 0 .. Pow2(W) - 1]
    /\ bit \in [0 .. W * Size - 1 -> 0 .. 1]
    /\ \A f \in Fields(Size) :
          /\ UsedBytes(f) <= ValueLen /\ byteOffset(f) + UsedBytes(f) <= Size
          /\ \A o \in 0 .. Size : HasRound(f, o) => o <= byteOffset(f) + UsedBytes(f)

(* After any sequence of puts, overlapping ones included, every bit of the *)
(* buffer is the one last put there: a put changes no neighbouring field,  *)
(* the value is truncated to its low bits, and the terminator that the     *)
(* std::string variant copies back is unchanged.                           *)
PutsOnlyItsBits ==
    /\ \A b \in 0 .. W * Size - 1 : Field(buf[b \div W], b % W, 1) = bit[b]
    /\ buf[Size] = 0

(* BitStreamGetInt reads any field, across bytes and across earlier puts,  *)
(* as the number that its bits make.                                       *)
GetsItsBits ==
    \A f \in Fields(Size) :
        BitStreamGetInt(buf, f)
            = Sum([k \in 1 .. f.bits |-> bit[f.offset + k - 1] * Pow2(k - 1)], f.bits)
=============================================================================
