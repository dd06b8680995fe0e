-------------------------------- MODULE Hash --------------------------------
(***************************************************************************)
(* Hash (src/src/util/hash.cpp) of the bytes that a slice refers to.  A    *)
(* uint32_t has four bytes, as many bits as they have; the shifts by 8, 16 *)
(* and 24 bits are one, two and three bytes.                               *)
(***************************************************************************)
EXTENDS Slice, Arithmetic

CONSTANTS
    DigitBits,       \* bits in a hexadecimal digit: 4
    m,               \* the multiplier: 0xc6a4a793, an odd number
    Seeds,           \* uint32_t
    CharIsSigned     \* whether char is signed on the platform

ByteBits == 2 * DigitBits
WordBits == 4 * ByteBits
Word == Pow2(WordBits)

ASSUME WidthAssumption == DigitBits \in Nat \ {0} /\ Digits = Pow2(DigitBits)
ASSUME MultiplierAssumption == m \in Nat /\ m % 2 = 1
ASSUME SeedsAssumption == Seeds \subseteq 0 .. Word - 1

(* x ^ y in a uint32_t: bit by bit the sum modulo 2 *)
Xor(x, y) ==
    LET bit(i) == LET p == Pow2(i) IN ((x \div p + y \div p) % 2) * p
    IN Sum([k \in 1 .. WordBits |-> bit(k - 1)], WordBits)

(* A mutant: the lowest byte is left out. *)
DecodeUpper(mem, p) ==
    mem[p + 1] * Pow2(ByteBits)
        + mem[p + 2] * Pow2(2 * ByteBits) + mem[p + 3] * Pow2(3 * ByteBits)

DecodeFixed32(mem, p) ==
    mem[p] + mem[p + 1] * Pow2(ByteBits)
        + mem[p + 2] * Pow2(2 * ByteBits) + mem[p + 3] * Pow2(3 * ByteBits)

(* A byte as a char, promoted to int *)
Char(byte) ==
    IF CharIsSigned /\ 2 * byte >= Pow2(ByteBits) THEN byte - Pow2(ByteBits) ELSE byte

(* A mutant: the tail is read from the byte after its first. *)
RemainingOffByOne(mem, p, k) ==
    Char(mem[p + 1])
        + (IF k >= 2 THEN Char(mem[p + 2]) * Pow2(ByteBits) ELSE 0)
        + (IF k >= 3 THEN Char(mem[p + 3]) * Pow2(2 * ByteBits) ELSE 0)

(* What the switch adds up, falling through from case k. *)
Remaining(mem, p, k) ==
    Char(mem[p])
        + (IF k >= 2 THEN Char(mem[p + 1]) * Pow2(ByteBits) ELSE 0)
        + (IF k >= 3 THEN Char(mem[p + 2]) * Pow2(2 * ByteBits) ELSE 0)

(* h += w; h *= m; h ^= (h >> shift) *)
Mix(h, w, shift) ==
    LET p == ((h + w) * m) % Word IN Xor(p, p \div Pow2(shift))

(* The loop over the whole words *)
MixWords(mem, data, first, words) ==
    LET h[i \in 0 .. words] ==
          IF i = 0 THEN first
          ELSE Mix(h[i - 1], DecodeFixed32(mem, data + 4 * (i - 1)), 2 * ByteBits)
    IN h[words]

HashOf(mem, data, n, seed) ==
    LET words == n \div 4
        h == MixWords(mem, data, Xor(seed, (n * m) % Word), words)
    IN IF n % 4 = 0 THEN h
       ELSE Mix(h, Remaining(mem, data + 4 * words, n % 4), 3 * ByteBits)

-----------------------------------------------------------------------------
(* The hash is one of the content: equal slices have equal hashes wherever *)
(* they lie in the storage and whatever bytes follow them.                 *)
HashOfContent ==
    \A x, y \in Slices, seed \in Seeds :
        Equals(x, y) => HashOf(memory, data_[x], size_[x], seed)
                            = HashOf(memory, data_[y], size_[y], seed)

(* The bytes that one round of Hash takes: a word, or what is left. *)
Block(x, i) == {a \in data_[x] .. data_[x] + size_[x] - 1 : (a - data_[x]) \div 4 = i}

(* Two inputs of the same size that differ within one word, or within the  *)
(* tail, never collide: adding, multiplying by an odd number and the       *)
(* xor-shifts lose nothing, and neither does the sum of the tail's bytes,  *)
(* although those above 127 are negative where char is signed.             *)
HashSeparates ==
    \A x \in Slices, seed \in Seeds :
        \A i \in 0 .. size_[x] \div 4 : \A bytes \in [Block(x, i) -> Byte] :
            LET other == [a \in DOMAIN memory |->
                            IF a \in DOMAIN bytes THEN bytes[a] ELSE memory[a]]
            IN HashOf(other, data_[x], size_[x], seed)
                   = HashOf(memory, data_[x], size_[x], seed) => other = memory
=============================================================================
