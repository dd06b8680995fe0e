-------------------------- MODULE BitStreamProofs --------------------------
(***************************************************************************)
(* What BitStreamPutInt puts, and only that, is what BitStreamGetInt gets, *)
(* for every width of bytes and values and every size of the buffer.       *)
(***************************************************************************)
EXTENDS BitStream, ArithmeticProofs

(* One round of put: the masked bits of the byte are those of v and the    *)
(* others are what they were.                                              *)
LEMMA PutByte ==
    ASSUME NEW x \in 0 .. Pow2(W) - 1, NEW at \in Nat, NEW n \in Nat, at + n <= W,
           NEW v \in 0 .. Pow2(n) - 1
    PROVE  /\ Cleared(x, at, n) + v * Pow2(at) \in 0 .. Pow2(W) - 1
           /\ \A j \in Nat : Field(Cleared(x, at, n) + v * Pow2(at), j, 1) =
                               IF at <= j /\ j < at + n THEN Field(v, j - at, 1)
                               ELSE Field(x, j, 1)
<1> DEFINE P == Pow2(at)
           Q == Pow2(n)
           y == x \div P
           lo == x % P
           hi == y \div Q
           f == y % Q
           u == hi * Q + v
           z == Cleared(x, at, n) + v * P
<1>0. P \in Nat \ {0} /\ Q \in Nat \ {0} /\ W \in Nat /\ Pow2(W) \in Nat \ {0} /\ x \in Nat
  BY SizeAssumption, Powers
<1>1. y \in Nat /\ lo \in 0 .. P - 1 /\ x = y * P + lo
  BY <1>0, NatDivision, Zenon
<1> HIDE DEF y, lo
<1>2. hi \in Nat /\ f \in 0 .. Q - 1 /\ f \in Nat /\ y = hi * Q + f
  <2>1. hi \in Nat /\ f \in 0 .. Q - 1 /\ y = hi * Q + f
    BY <1>0, <1>1, NatDivision, Zenon
  <2> QED
    BY <1>0, <2>1
<1>3. Cleared(x, at, n) = x - f * P
  BY Zenon DEF Cleared, Field, y
<1>v. v \in Nat /\ v \in 0 .. Q - 1
  BY <1>0
<1> HIDE DEF P, Q, hi, f
<1>4. z = u * P + lo /\ u \in Nat /\ z \in Nat
  <2>1. hi * Q \in Nat /\ u \in Nat
    BY <1>0, <1>2, <1>v
  <2> DEFINE h == hi * Q
  <2> HIDE DEF h
  <2>2. y * P = h * P + f * P
    BY <1>0, <1>2, <2>1 DEF h
  <2>3. (h + v) * P = h * P + v * P
    BY <1>0, <1>v, <2>1 DEF h
  <2>4. h * P \in Nat /\ f * P \in Nat /\ v * P \in Nat
    BY <1>0, <1>2, <1>v, <2>1 DEF h
  <2>5. (x - f * P) + v * P = (h + v) * P + lo
    BY <1>0, <1>1, <2>2, <2>3, <2>4
  <2>6. z = u * P + lo
    BY <1>3, <2>5 DEF h
  <2>7. (h + v) * P + lo \in Nat
    BY <1>0, <1>1, <2>3, <2>4
  <2> QED
    BY <2>1, <2>6, <2>7 DEF h
<1>5. z < Pow2(W)
  <2> DEFINE c == W - (at + n)
             R == Pow2(c)
  <2>1. c \in Nat /\ at + n \in Nat /\ (at + n) + c = W
    BY <1>0
  <2> HIDE DEF c
  <2>2. R \in Nat \ {0} /\ Pow2(W) = P * (Q * R) /\ Q * R \in Nat
    <3>1. Pow2(W) = Pow2(at + n) * R /\ Pow2(at + n) = P * Q /\ R \in Nat \ {0}
      BY <2>1, PowerOfSum, Powers, Zenon DEF P, Q
    <3> HIDE DEF R
    <3>2. (P * Q) * R = P * (Q * R) /\ Q * R \in Nat
      BY <1>0, <3>1
    <3> QED
      BY <3>1, <3>2
  <2> HIDE DEF R
  <2>3. x < P * (Q * R)
    BY <1>0, <2>2
  <2>4. x \div P < Q * R
    BY <1>0, <2>2, <2>3, QuotientBelow, Zenon
  <2>5. y < Q * R
    BY <2>4 DEF y
  <2>6. y \div Q < R
    BY <1>0, <1>1, <2>2, <2>5, QuotientBelow
  <2>7. u \div Q = hi /\ z \div P = u
    <3>1. hi \in Int /\ u \in Int
      BY <1>2, <1>4
    <3>2. u \div Q = hi
      BY <1>0, <1>v, <3>1, Quotient, Zenon
    <3>3. (u * P + lo) \div P = u
      BY <1>0, <1>1, <3>1, Quotient, Zenon
    <3> QED
      BY <1>4, <3>2, <3>3
  <2> HIDE DEF u, z
  <2>8. u < Q * R
    BY <1>0, <1>4, <2>2, <2>6, <2>7, QuotientBelow, Zenon DEF hi
  <2>9. z < P * (Q * R)
    BY <1>0, <1>4, <2>2, <2>7, <2>8, QuotientBelow, Zenon
  <2> QED
    BY <2>2, <2>9
<1> HIDE DEF u, z
<1>6. ASSUME NEW j \in Nat
      PROVE  Field(z, j, 1) = IF at <= j /\ j < at + n THEN Field(v, j - at, 1)
                              ELSE Field(x, j, 1)
  <2>1. /\ j < at => Field(u * P + lo, j, 1) = Field(lo, j, 1)
        /\ j >= at => Field(u * P + lo, j, 1) = Field(u, j - at, 1)
    BY <1>1, <1>4, Parts DEF P
  <2>2. /\ j < at => Field(y * P + lo, j, 1) = Field(lo, j, 1)
        /\ j >= at => Field(y * P + lo, j, 1) = Field(y, j - at, 1)
    BY <1>1, Parts DEF P
  <2>3. CASE j < at
    <3>1. Field(z, j, 1) = Field(x, j, 1)
      BY <1>1, <1>4, <2>1, <2>2, <2>3, Zenon
    <3>2. ~(at <= j)
      BY <2>3
    <3> QED
      BY <3>1, <3>2, Zenon
  <2>4. CASE j >= at
    <3> DEFINE k == j - at
    <3>1. k \in Nat
      BY <2>4
    <3>2. Field(z, j, 1) = Field(u, k, 1) /\ Field(x, j, 1) = Field(y, k, 1)
      BY <1>1, <1>4, <2>1, <2>2, <2>4, Zenon
    <3> HIDE DEF k
    <3>3. /\ k < n => Field(hi * Q + v, k, 1) = Field(v, k, 1)
          /\ k >= n => Field(hi * Q + v, k, 1) = Field(hi, k - n, 1)
      BY <1>2, <1>v, <3>1, Parts DEF Q
    <3>4. k >= n => Field(hi * Q + f, k, 1) = Field(hi, k - n, 1)
      BY <1>2, <3>1, Parts DEF Q
    <3>5. CASE k < n
      <4>1. at <= j /\ j < at + n
        BY <2>4, <3>5 DEF k
      <4>2. Field(z, j, 1) = Field(v, k, 1)
        BY <3>2, <3>3, <3>5, Zenon DEF u
      <4> QED
        BY <4>1, <4>2, Zenon DEF k
    <3>6. CASE k >= n
      <4>1. ~(j < at + n)
        BY <2>4, <3>6 DEF k
      <4>2. Field(z, j, 1) = Field(x, j, 1)
        BY <1>2, <3>2, <3>3, <3>4, <3>6, Zenon DEF u
      <4> QED
        BY <4>1, <4>2, Zenon
    <3>7. k < n \/ k >= n
      BY <3>1
    <3> QED
      BY <3>5, <3>6, <3>7
  <2> QED
    BY <2>3, <2>4
<1>7. z \in 0 .. Pow2(W) - 1
  BY <1>0, <1>4, <1>5
<1> QED
  BY <1>6, <1>7, Zenon DEF z, P

-----------------------------------------------------------------------------
(* A field lies inside the buffer. *)
LEMMA FieldInside ==
    ASSUME NEW f \in Fields(Size)
    PROVE  /\ W \in Nat \ {0} /\ f.offset \in Nat /\ f.bits \in Nat /\ f.bits <= W * ValueLen
           /\ byteOffset(f) \in Nat /\ f.offset % W \in 0 .. W - 1
           /\ f.offset = W * byteOffset(f) + (f.offset % W)
           /\ W * Size \in Nat /\ f.offset + f.bits <= W * Size
<1>0. W \in Nat \ {0} /\ ValueLen \in Nat /\ Size \in Nat /\ W * Size \in Nat /\ W * ValueLen \in Nat
  BY SizeAssumption
<1>1. /\ f \in [offset : 0 .. W * Size, bits : 0 .. W * ValueLen]
      /\ (f.offset + f.bits + W - 1) \div W <= Size
  BY DEF Fields
<1>2. f.offset \in Nat /\ f.bits \in Nat /\ f.bits <= W * ValueLen
  BY <1>0, <1>1
<1>3. byteOffset(f) \in Nat /\ f.offset % W \in 0 .. W - 1
      /\ f.offset = byteOffset(f) * W + (f.offset % W)
  BY <1>0, <1>2, NatDivision, Zenon DEF byteOffset
<1>4. byteOffset(f) * W = W * byteOffset(f)
  BY <1>0, <1>3
<1>5. f.offset + f.bits <= W * Size
  <2> DEFINE y == f.offset + f.bits + W - 1
             q == y \div W
             r == y % W
  <2>1. y \in Nat
    BY <1>0, <1>2
  <2>2. q \in Nat /\ r \in 0 .. W - 1 /\ y = q * W + r
    <3> HIDE DEF y
    <3> QED
      BY <1>0, <2>1, NatDivision, Zenon
  <2>3. q <= Size
    BY <1>1
  <2> HIDE DEF q, r
  <2>4. W * q <= W * Size /\ q * W = W * q /\ W * q \in Nat
    BY <1>0, <2>2, <2>3, Products
  <2> QED
    BY <1>0, <1>2, <2>2, <2>4
<1> QED
  BY <1>0, <1>2, <1>3, <1>4, <1>5

(* Bytes do not overlap. *)
LEMMA BytesApart ==
    ASSUME NEW a \in Nat, NEW b \in Nat, a < b
    PROVE  W * a \in Nat /\ W * b \in Nat /\ W * a + W <= W * b
<1>1. W \in Nat /\ a + 1 \in Nat /\ a + 1 <= b
  BY SizeAssumption
<1>2. W * (a + 1) <= W * b /\ W * b \in Nat
  BY <1>1, Products
<1>3. W * (a + 1) = W * a + W /\ W * a \in Nat
  BY <1>1
<1> QED
  BY <1>2, <1>3

(* The round of a byte takes the bits of the field that are in the byte:   *)
(* all of them, in their places, and no others.                            *)
LEMMA RoundOfByte ==
    ASSUME NEW f \in Fields(Size), NEW o \in Nat
    PROVE  /\ HasRound(f, o) =>
                /\ bitOffset(f, o) \in Nat /\ bitsToGet(f, o) \in Nat \ {0}
                /\ bitOffset(f, o) + bitsToGet(f, o) <= W
                /\ Shift(f, o) \in Nat /\ Shift(f, o) + bitsToGet(f, o) <= f.bits
                /\ W * o + bitOffset(f, o) = f.offset + Shift(f, o) /\ o < Size
           /\ \A j \in 0 .. W - 1 :
                W * o + j - f.offset \in 0 .. f.bits - 1 <=>
                  HasRound(f, o) /\ bitOffset(f, o) <= j /\ j < bitOffset(f, o) + bitsToGet(f, o)
<1> DEFINE z == byteOffset(f)
           a == f.offset % W
           p == W * o
           g == f.offset
           m == f.bits
<1>0. /\ W \in Nat \ {0} /\ g \in Nat /\ m \in Nat /\ z \in Nat /\ a \in 0 .. W - 1
      /\ g = W * z + a /\ W * Size \in Nat /\ g + m <= W * Size /\ Size \in Nat
  BY FieldInside, SizeAssumption
<1>1. p \in Nat /\ W * z \in Nat
  BY <1>0
<1>2. o >= Size => p >= W * Size
  BY <1>0, Products
<1> HIDE DEF z, a, p, g, m
<1>3. CASE o = z
  <2>1. bitOffset(f, o) = a /\ Shift(f, o) = 0 /\ p = W * z
    BY <1>3 DEF bitOffset, Shift, z, a, p
  <2>2. HasRound(f, o) <=> 0 < m
    BY <1>0, <1>3, <2>1 DEF HasRound, z, m
  <2>3. bitsToGet(f, o) = IF m < W - a THEN m ELSE W - a
    BY <1>0, <2>1 DEF bitsToGet, m
  <2>4. p + a = g /\ \A j \in 0 .. W - 1 : p + j - g = j - a
    BY <1>0, <1>1, <2>1
  <2>5. ASSUME 0 < m
        PROVE  /\ bitOffset(f, o) \in Nat /\ bitsToGet(f, o) \in Nat \ {0}
               /\ bitOffset(f, o) + bitsToGet(f, o) <= W
               /\ Shift(f, o) \in Nat /\ Shift(f, o) + bitsToGet(f, o) <= m
               /\ p + bitOffset(f, o) = g + Shift(f, o) /\ o < Size
    BY <1>0, <1>1, <1>2, <2>1, <2>3, <2>4, <2>5
  <2>6. ASSUME NEW j \in 0 .. W - 1
        PROVE  p + j - g \in 0 .. m - 1 <=>
                 0 < m /\ bitOffset(f, o) <= j /\ j < bitOffset(f, o) + bitsToGet(f, o)
    BY <1>0, <1>1, <2>1, <2>3, <2>4
  <2> QED
    BY <2>2, <2>5, <2>6 DEF p, g, m
<1>4. CASE o > z
  <2>1. bitOffset(f, o) = 0 /\ Shift(f, o) = p - g
    BY <1>0, <1>4 DEF bitOffset, Shift, z, p, g
  <2>2. p >= W * z + W
    BY <1>0, <1>4, BytesApart DEF p
  <2>3. p - g \in Nat /\ p - g > 0
    BY <1>0, <1>1, <2>2
  <2>4. HasRound(f, o) <=> p - g < m
    BY <1>0, <1>4, <2>1 DEF HasRound, z, m
  <2>5. bitsToGet(f, o) = IF m - (p - g) < W THEN m - (p - g) ELSE W
    BY <1>0, <2>1 DEF bitsToGet, m
  <2>6. ASSUME p - g < m
        PROVE  /\ bitOffset(f, o) \in Nat /\ bitsToGet(f, o) \in Nat \ {0}
               /\ bitOffset(f, o) + bitsToGet(f, o) <= W
               /\ Shift(f, o) \in Nat /\ Shift(f, o) + bitsToGet(f, o) <= m
               /\ p + bitOffset(f, o) = g + Shift(f, o) /\ o < Size
    BY <1>0, <1>1, <1>2, <2>1, <2>3, <2>5, <2>6
  <2>7. ASSUME NEW j \in 0 .. W - 1
        PROVE  p + j - g \in 0 .. m - 1 <=>
                 p - g < m /\ bitOffset(f, o) <= j /\ j < bitOffset(f, o) + bitsToGet(f, o)
    BY <1>0, <1>1, <2>1, <2>3, <2>5
  <2> QED
    BY <2>4, <2>6, <2>7 DEF p, g, m
<1>5. CASE o < z
  <2>1. ~HasRound(f, o)
    BY <1>0, <1>5 DEF HasRound, z
  <2>2. p + W <= W * z
    BY <1>0, <1>5, BytesApart DEF p
  <2>3. \A j \in 0 .. W - 1 : p + j - g \notin 0 .. m - 1
    BY <1>0, <1>1, <2>2
  <2> QED
    BY <2>1, <2>3 DEF p, g, m
<1> QED
  BY <1>0, <1>3, <1>4, <1>5

(* tmpBuf is large enough, and the copies stay in the string. *)
LEMMA TmpBufSuffices ==
    ASSUME NEW f \in Fields(Size)
    PROVE  /\ UsedBytes(f) \in Nat /\ UsedBytes(f) <= ValueLen
           /\ byteOffset(f) + UsedBytes(f) <= Size
           /\ \A o \in Nat : HasRound(f, o) => o - byteOffset(f) \in 0 .. UsedBytes(f)
<1> DEFINE z == byteOffset(f)
           a == f.offset % W
           m == f.bits
           u == UsedBytes(f)
           r == (a + m) % W
<1>0. /\ W \in Nat \ {0} /\ f.offset \in Nat /\ m \in Nat /\ z \in Nat /\ a \in 0 .. W - 1
      /\ f.offset = W * z + a /\ W * Size \in Nat /\ f.offset + m <= W * Size /\ Size \in Nat
      /\ m <= W * ValueLen /\ ValueLen \in Nat
  BY FieldInside, SizeAssumption
<1>1. u \in Nat /\ r \in 0 .. W - 1 /\ a + m = W * u + r /\ W * u \in Nat
  <2>1. a + m \in Nat /\ u = (a + m) \div W
    BY <1>0 DEF UsedBytes
  <2> HIDE DEF a, m, u
  <2>2. u \in Nat /\ r \in 0 .. W - 1 /\ a + m = u * W + r
    BY <1>0, <2>1, NatDivision, Zenon
  <2>3. u * W = W * u /\ W * u \in Nat
    BY <1>0, <2>2
  <2> QED
    BY <2>2, <2>3
<1>2. W * z \in Nat /\ W * (z + u) = W * z + W * u /\ z + u \in Nat
  BY <1>0, <1>1
<1> HIDE DEF z, a, m, u, r
<1>3. u <= ValueLen
  <2>1. ValueLen < u => W * ValueLen + W <= W * u /\ W * ValueLen \in Nat
    BY <1>0, <1>1, BytesApart
  <2> QED
    BY <1>0, <1>1, <2>1
<1>4. z + u <= Size
  <2>1. Size < z + u => W * Size + W <= W * (z + u)
    BY <1>0, <1>2, BytesApart
  <2> QED
    BY <1>0, <1>1, <1>2, <2>1
<1>5. ASSUME NEW o \in Nat, HasRound(f, o) PROVE o - z \in 0 .. u
  <2>1. o >= z
    BY <1>5 DEF HasRound, z
  <2>2. /\ W * o + bitOffset(f, o) = f.offset + Shift(f, o)
        /\ bitOffset(f, o) \in Nat /\ Shift(f, o) \in Nat /\ bitsToGet(f, o) \in Nat \ {0}
        /\ Shift(f, o) + bitsToGet(f, o) <= m
    BY <1>5, RoundOfByte DEF m
  <2>3. z + u < o => W * (z + u) + W <= W * o
    BY <1>2, BytesApart
  <2>4. W * o \in Nat
    BY <1>0
  <2> QED
    BY <1>0, <1>1, <1>2, <2>1, <2>2, <2>3, <2>4
<1> QED
  BY <1>1, <1>3, <1>4, <1>5 DEF z, u

(* The variant for std::string puts what the other one puts. *)
LEMMA StringIsChars ==
    ASSUME NEW f \in Fields(Size), NEW value, NEW S, buf \in [0 .. Size -> S]
    PROVE  PutString(f, value) = PutBytes(buf, f, value)
<1> DEFINE z == byteOffset(f)
           a == f.offset % W
           u == UsedBytes(f)
           g == [offset |-> a, bits |-> f.bits]
           tmp == PutBytes([idx \in 0 .. u |-> buf[z + idx]], g, value)
<1>0. /\ W \in Nat \ {0} /\ f.offset \in Nat /\ f.bits \in Nat /\ z \in Nat /\ a \in 0 .. W - 1
      /\ f.offset = W * z + a /\ Size \in Nat /\ u \in Nat
      /\ \A o \in Nat : HasRound(f, o) => o - z \in 0 .. u
  BY FieldInside, TmpBufSuffices, SizeAssumption
<1>1. g.offset = a /\ g.bits = f.bits
  OBVIOUS
<1>2. byteOffset(g) = 0 /\ a % W = a
  <2>1. a % W = a /\ a \div W = 0
    BY <1>0, Small, Zenon
  <2> QED
    BY <1>1, <2>1, Zenon DEF byteOffset
<1> HIDE DEF g, a, z, u
<1>3. ASSUME NEW o \in 0 .. Size, o - z \in 0 .. u
      PROVE  tmp[o - z] = PutBytes(buf, f, value)[o]
  <2> DEFINE i == o - z
  <2>1. i \in 0 .. u /\ (i = 0 <=> o = z) /\ z + i = o /\ i >= 0 /\ o >= z
    BY <1>0, <1>3
  <2>2. bitOffset(g, i) = bitOffset(f, o)
    BY <1>1, <1>2, <2>1, Zenon DEF bitOffset, a, z
  <2>3. Shift(g, i) = Shift(f, o)
    <3>1. W * i - a = W * o - f.offset
      <4>1. W * i = W * o - W * z /\ W * o \in Nat /\ W * z \in Nat
        BY <1>0
      <4> QED
        BY <1>0, <4>1
    <3> HIDE DEF i
    <3> QED
      BY <1>1, <1>2, <2>1, <3>1, Zenon DEF Shift, z
  <2>4. HasRound(g, i) <=> HasRound(f, o)
    BY <1>1, <1>2, <2>1, <2>3, Zenon DEF HasRound, z
  <2>5. bitsToGet(g, i) = bitsToGet(f, o)
    BY <1>1, <2>2, <2>3, Zenon DEF bitsToGet
  <2> DEFINE ptr == [idx \in 0 .. u |-> buf[z + idx]]
  <2>6. ptr[i] = buf[o] /\ DOMAIN ptr = 0 .. u /\ DOMAIN buf = 0 .. Size
    BY <2>1
  <2> HIDE DEF ptr, i
  <2>7. PutBytes(ptr, g, value)[i] =
           IF HasRound(g, i)
           THEN Cleared(ptr[i], bitOffset(g, i), bitsToGet(g, i))
                  + Field(value, Shift(g, i), bitsToGet(g, i)) * Pow2(bitOffset(g, i))
           ELSE ptr[i]
    BY <2>1, <2>6, Zenon DEF PutBytes
  <2>8. PutBytes(buf, f, value)[o] =
           IF HasRound(f, o)
           THEN Cleared(buf[o], bitOffset(f, o), bitsToGet(f, o))
                  + Field(value, Shift(f, o), bitsToGet(f, o)) * Pow2(bitOffset(f, o))
           ELSE buf[o]
    BY <2>6, Zenon DEF PutBytes
  <2>9. PutBytes(ptr, g, value)[i] = PutBytes(buf, f, value)[o]
    BY <2>2, <2>3, <2>4, <2>5, <2>6, <2>7, <2>8, Zenon
  <2> QED
    BY <2>9, Zenon DEF ptr, i
<1>4. ASSUME NEW o \in 0 .. Size, o - z \notin 0 .. u
      PROVE  buf[o] = PutBytes(buf, f, value)[o]
  <2>1. ~HasRound(f, o) /\ o \in DOMAIN buf
    BY <1>0, <1>4
  <2> QED
    BY <2>1, Zenon DEF PutBytes
<1>5. PutString(f, value) =
         [o \in 0 .. Size |-> IF o - z \in 0 .. u THEN tmp[o - z] ELSE buf[o]]
  BY Zenon DEF PutString, z, u, g, a
<1>6. PutBytes(buf, f, value) = [o \in 0 .. Size |-> PutBytes(buf, f, value)[o]]
  <2>1. DOMAIN buf = 0 .. Size
    OBVIOUS
  <2> QED
    BY <2>1 DEF PutBytes
<1> HIDE DEF tmp
<1>7. \A o \in 0 .. Size :
        (IF o - z \in 0 .. u THEN tmp[o - z] ELSE buf[o]) = PutBytes(buf, f, value)[o]
  BY <1>3, <1>4, Zenon
<1>8. [o \in 0 .. Size |-> IF o - z \in 0 .. u THEN tmp[o - z] ELSE buf[o]]
        = [o \in 0 .. Size |-> PutBytes(buf, f, value)[o]]
  BY <1>7, Zenon
<1> QED
  BY <1>5, <1>6, <1>8, Zenon

-----------------------------------------------------------------------------
(* Every bit of the buffer is the one last put there. *)
Stored ==
    /\ buf \in [0 .. Size -> 0 .. Pow2(W) - 1]
    /\ bit \in [0 .. W * Size - 1 -> 0 .. 1]
    /\ PutsOnlyItsBits

(* Where a bit is. *)
LEMMA PlaceOfBit ==
    ASSUME NEW c \in 0 .. W * Size - 1
    PROVE  /\ c \div W \in 0 .. Size - 1 /\ c % W \in 0 .. W - 1
           /\ W * (c \div W) \in Nat /\ c = W * (c \div W) + (c % W)
<1>0. W \in Nat \ {0} /\ Size \in Nat /\ W * Size \in Nat /\ c \in Nat /\ c < W * Size
  BY SizeAssumption
<1>1. c \div W \in Nat /\ c % W \in 0 .. W - 1 /\ c = (c \div W) * W + (c % W)
  BY <1>0, NatDivision, Zenon
<1>2. c \div W < Size
  BY <1>0, QuotientBelow
<1> DEFINE o == c \div W
<1> HIDE DEF o
<1>3. o * W = W * o /\ W * o \in Nat
  BY <1>0, <1>1 DEF o
<1> QED
  BY <1>0, <1>1, <1>2, <1>3 DEF o

(* A put changes the bits of its field and no other. *)
LEMMA PutKeeps ==
    ASSUME Stored, NEW f \in Fields(Size), NEW value \in Nat,
           buf' = PutBytes(buf, f, value), bit' = Written(f, value)
    PROVE  Stored'
<1>0. /\ W \in Nat \ {0} /\ Size \in Nat /\ Pow2(W) \in Nat
      /\ buf \in [0 .. Size -> 0 .. Pow2(W) - 1] /\ bit \in [0 .. W * Size - 1 -> 0 .. 1]
      /\ \A c \in 0 .. W * Size - 1 : Field(buf[c \div W], c % W, 1) = bit[c]
      /\ buf[Size] = 0
  BY SizeAssumption, Powers, Zenon DEF Stored, PutsOnlyItsBits
<1>1. DOMAIN buf = 0 .. Size /\ DOMAIN bit = 0 .. W * Size - 1
      /\ \A o \in 0 .. Size : buf[o] \in 0 .. Pow2(W) - 1 /\ buf[o] \in Nat
  <2>1. DOMAIN buf = 0 .. Size /\ DOMAIN bit = 0 .. W * Size - 1
    BY <1>0, Zenon
  <2>2. \A o \in 0 .. Size : buf[o] \in 0 .. Pow2(W) - 1
    BY <1>0, Zenon
  <2>3. \A b \in 0 .. Pow2(W) - 1 : b \in Nat
    OBVIOUS
  <2>. QED
    BY <2>1, <2>2, <2>3, Zenon
<1>2. buf' = [o \in 0 .. Size |->
                IF HasRound(f, o)
                THEN Cleared(buf[o], bitOffset(f, o), bitsToGet(f, o))
                       + Field(value, Shift(f, o), bitsToGet(f, o)) * Pow2(bitOffset(f, o))
                ELSE buf[o]]
  BY <1>1, Zenon DEF PutBytes
<1>3. bit' = [c \in 0 .. W * Size - 1 |-> IF c - f.offset \in 0 .. f.bits - 1
                                          THEN Field(value, c - f.offset, 1) ELSE bit[c]]
  BY <1>1, Zenon DEF Written
<1>4. ASSUME NEW o \in 0 .. Size, HasRound(f, o)
      PROVE  /\ buf'[o] \in 0 .. Pow2(W) - 1
             /\ \A j \in Nat : Field(buf'[o], j, 1) =
                  IF bitOffset(f, o) <= j /\ j < bitOffset(f, o) + bitsToGet(f, o)
                  THEN Field(value, Shift(f, o) + (j - bitOffset(f, o)), 1)
                  ELSE Field(buf[o], j, 1)
  <2> DEFINE at == bitOffset(f, o)
             n == bitsToGet(f, o)
             v == Field(value, Shift(f, o), n)
  <2>0. o \in Nat
    BY <1>0
  <2>1. at \in Nat /\ n \in Nat /\ at + n <= W /\ Shift(f, o) \in Nat
    <3>1. at \in Nat /\ n \in Nat \ {0} /\ at + n <= W /\ Shift(f, o) \in Nat
      BY <1>4, <2>0, RoundOfByte
    <3> QED
      BY <3>1
  <2>2. buf'[o] = Cleared(buf[o], at, n) + v * Pow2(at)
    BY <1>2, <1>4
  <2> HIDE DEF at, n
  <2>3. /\ v \in 0 .. Pow2(n) - 1
        /\ \A k \in 0 .. n - 1 : Field(v, k, 1) = Field(value, Shift(f, o) + k, 1)
    BY <2>1, BitsOfField, Zenon
  <2> HIDE DEF v
  <2>4. /\ Cleared(buf[o], at, n) + v * Pow2(at) \in 0 .. Pow2(W) - 1
        /\ \A j \in Nat : Field(Cleared(buf[o], at, n) + v * Pow2(at), j, 1) =
                               IF at <= j /\ j < at + n THEN Field(v, j - at, 1)
                               ELSE Field(buf[o], j, 1)
    <3>1. buf[o] \in 0 .. Pow2(W) - 1
      BY <1>1
    <3> QED
      BY <2>1, <2>3, <3>1, PutByte
  <2>5. ASSUME NEW j \in Nat
        PROVE  Field(buf'[o], j, 1) = IF at <= j /\ j < at + n
                                      THEN Field(value, Shift(f, o) + (j - at), 1)
                                      ELSE Field(buf[o], j, 1)
    <3>1. at <= j /\ j < at + n => j - at \in 0 .. n - 1
      BY <2>1
    <3> QED
      BY <2>2, <2>3, <2>4, <3>1, Zenon
  <2> QED
    BY <2>2, <2>4, <2>5, Zenon DEF at, n
<1>5. \A o \in 0 .. Size : ~HasRound(f, o) => buf'[o] = buf[o]
  BY <1>2
<1>6. buf' \in [0 .. Size -> 0 .. Pow2(W) - 1]
  <2>1. \A o \in 0 .. Size : buf'[o] \in 0 .. Pow2(W) - 1
    BY <1>1, <1>4, <1>5, Zenon
  <2>2. buf' = [o \in 0 .. Size |-> buf'[o]]
    BY <1>2
  <2> QED
    BY <2>1, <2>2
<1>7. /\ f.offset \in Nat /\ f.bits \in Nat /\ f.offset + f.bits <= W * Size
      /\ W * Size \in Nat
  BY FieldInside
<1>8. bit' \in [0 .. W * Size - 1 -> 0 .. 1]
  <2>1. ASSUME NEW c \in 0 .. W * Size - 1, c - f.offset \in 0 .. f.bits - 1
        PROVE  Field(value, c - f.offset, 1) \in 0 .. 1
    <3>1. c - f.offset \in Nat
      BY <1>7, <2>1
    <3> QED
      BY <3>1, OneBit, Zenon
  <2>2. \A c \in 0 .. W * Size - 1 : bit[c] \in 0 .. 1
    BY <1>0
  <2> QED
    BY <1>3, <2>1, <2>2
<1>9. ASSUME NEW c \in 0 .. W * Size - 1 PROVE Field(buf'[c \div W], c % W, 1) = bit'[c]
  <2> DEFINE o == c \div W
             j == c % W
  <2>1. o \in 0 .. Size - 1 /\ j \in 0 .. W - 1 /\ W * o \in Nat /\ c = W * o + j
    BY PlaceOfBit
  <2>2. Field(buf[o], j, 1) = bit[c]
    BY <1>0, Zenon
  <2>3. bit'[c] = IF c - f.offset \in 0 .. f.bits - 1
                  THEN Field(value, c - f.offset, 1) ELSE bit[c]
    BY <1>3
  <2> HIDE DEF o, j
  <2>4. o \in 0 .. Size /\ o \in Nat /\ j \in Nat
    BY <1>0, <2>1
  <2>5. c - f.offset \in 0 .. f.bits - 1 <=>
          HasRound(f, o) /\ bitOffset(f, o) <= j /\ j < bitOffset(f, o) + bitsToGet(f, o)
    <3>1. W * o + j - f.offset \in 0 .. f.bits - 1 <=>
            HasRound(f, o) /\ bitOffset(f, o) <= j /\ j < bitOffset(f, o) + bitsToGet(f, o)
      BY <2>1, <2>4, RoundOfByte
    <3>2. W * o + j - f.offset = c - f.offset
      BY <1>7, <2>1, <2>4
    <3> QED
      BY <3>1, <3>2, Zenon
  <2>6. CASE HasRound(f, o) /\ bitOffset(f, o) <= j /\ j < bitOffset(f, o) + bitsToGet(f, o)
    <3>1. Field(buf'[o], j, 1) = Field(value, Shift(f, o) + (j - bitOffset(f, o)), 1)
      BY <1>4, <2>4, <2>6, Zenon
    <3>2. /\ W * o + bitOffset(f, o) = f.offset + Shift(f, o)
          /\ bitOffset(f, o) \in Nat /\ Shift(f, o) \in Nat
      BY <2>4, <2>6, RoundOfByte
    <3>3. Shift(f, o) + (j - bitOffset(f, o)) = c - f.offset
      BY <1>7, <2>1, <2>4, <3>2
    <3>4. c - f.offset \in 0 .. f.bits - 1
      BY <2>5, <2>6, Zenon
    <3>5. Field(buf'[o], j, 1) = bit'[c]
      BY <2>3, <3>1, <3>3, <3>4
    <3> QED
      BY <3>5 DEF o, j
  <2>7. CASE ~(HasRound(f, o) /\ bitOffset(f, o) <= j /\ j < bitOffset(f, o) + bitsToGet(f, o))
    <3>1. Field(buf'[o], j, 1) = Field(buf[o], j, 1)
      BY <1>4, <1>5, <2>4, <2>7, Zenon
    <3>2. ~(c - f.offset \in 0 .. f.bits - 1)
      BY <2>5, <2>7, Zenon
    <3>3. Field(buf'[o], j, 1) = bit'[c]
      BY <2>2, <2>3, <3>1, <3>2, Zenon
    <3> QED
      BY <3>3 DEF o, j
  <2> QED
    BY <2>6, <2>7
<1>10. buf'[Size] = 0
  <2>1. Size \in 0 .. Size /\ Size \in Nat /\ ~(Size < Size)
    BY <1>0
  <2>2. ~HasRound(f, Size)
    BY <2>1, RoundOfByte
  <2> QED
    BY <1>0, <1>5, <2>1, <2>2, Zenon
<1> QED
  BY <1>6, <1>8, <1>9, <1>10, Zenon DEF Stored, PutsOnlyItsBits

(* The rounds of get follow one another until the field is read. *)
LEMMA RoundsOfField ==
    ASSUME NEW f \in Fields(Size), NEW i \in Nat,
           f.bits # 0, i <= ((f.offset % W) + f.bits - 1) \div W
    PROVE  /\ HasRound(f, byteOffset(f) + i)
           /\ Shift(f, byteOffset(f) + i) + bitsToGet(f, byteOffset(f) + i) =
                IF i = ((f.offset % W) + f.bits - 1) \div W THEN f.bits
                ELSE Shift(f, byteOffset(f) + (i + 1))
<1> DEFINE z == byteOffset(f)
           a == f.offset % W
           m == f.bits
           q == (a + m - 1) \div W
           r == (a + m - 1) % W
           p == W * i
           o == z + i
<1>0. /\ W \in Nat \ {0} /\ f.offset \in Nat /\ m \in Nat \ {0} /\ z \in Nat /\ a \in 0 .. W - 1
      /\ f.offset = W * z + a
  BY FieldInside
<1>1. q \in Nat /\ r \in 0 .. W - 1 /\ a + m - 1 = W * q + r /\ W * q \in Nat /\ i <= q
  <2> DEFINE y == a + m - 1
  <2>1. y \in Nat
    BY <1>0
  <2> HIDE DEF a, m, y
  <2>2. q \in Nat /\ r \in 0 .. W - 1 /\ y = q * W + r
    BY <1>0, <2>1, NatDivision, Zenon DEF y
  <2>3. q * W = W * q /\ W * q \in Nat
    BY <1>0, <2>2
  <2> QED
    BY <2>2, <2>3 DEF y, a, m
<1>2. p \in Nat /\ W * (i + 1) = p + W /\ W * o = W * z + p /\ W * z \in Nat
      /\ W * (z + (i + 1)) = W * z + p + W /\ o \in Nat /\ o >= z
      /\ z + (i + 1) # z /\ (i = 0 <=> o = z) /\ (i = 0 => p = 0)
  BY <1>0
<1>3. p <= W * q
  BY <1>0, <1>1, Products, Zenon
<1>4. i < q => p + W <= W * q
  BY <1>0, <1>1, BytesApart, Zenon
<1>q. i = q => p = W * q
  OBVIOUS
<1> HIDE DEF q, r, p, z, a, m
<1>5. Shift(f, z + (i + 1)) = p + W - a
  <2>1. Shift(f, z + (i + 1)) = W * (z + (i + 1)) - f.offset
    BY <1>2, Zenon DEF Shift, z
  <2> QED
    BY <1>0, <1>2, <2>1
<1> HIDE DEF o
<1>6. Shift(f, o) = (IF i = 0 THEN 0 ELSE p - a) /\ bitOffset(f, o) = IF i = 0 THEN a ELSE 0
  <2>1. Shift(f, o) = (IF o = z THEN 0 ELSE W * o - f.offset)
        /\ bitOffset(f, o) = IF o = z THEN a ELSE 0
    BY Zenon DEF Shift, bitOffset, z, a
  <2>2. W * o - f.offset = p - a
    BY <1>0, <1>2
  <2> QED
    BY <1>2, <2>1, <2>2
<1>7. Shift(f, o) < m
  BY <1>0, <1>1, <1>2, <1>3, <1>6
<1>8. HasRound(f, o)
  BY <1>2, <1>7 DEF HasRound, z, m
<1>9. bitsToGet(f, o) = IF m - Shift(f, o) < W - bitOffset(f, o) THEN m - Shift(f, o)
                        ELSE W - bitOffset(f, o)
  BY Zenon DEF bitsToGet, m
<1>10. CASE i = q
  <2>1. m - Shift(f, o) <= W - bitOffset(f, o)
    BY <1>0, <1>1, <1>2, <1>q, <1>6, <1>10
  <2>2. Shift(f, o) \in Int /\ bitOffset(f, o) \in Int
    BY <1>0, <1>2, <1>6
  <2>3. Shift(f, o) + bitsToGet(f, o) = m
    BY <1>0, <1>9, <2>1, <2>2
  <2> QED
    BY <1>8, <1>10, <2>3 DEF o, q, z, a, m
<1>11. CASE i # q
  <2>1. i < q
    BY <1>1, <1>11
  <2>2. m - Shift(f, o) >= W - bitOffset(f, o)
    BY <1>0, <1>1, <1>2, <1>4, <1>6, <2>1
  <2>3. Shift(f, o) \in Int /\ bitOffset(f, o) \in Int
    BY <1>0, <1>2, <1>6
  <2>4. bitsToGet(f, o) = W - bitOffset(f, o)
    BY <1>0, <1>9, <2>2, <2>3
  <2>5. Shift(f, o) + bitsToGet(f, o) = p + W - a
    BY <1>0, <1>2, <1>6, <2>4
  <2> QED
    BY <1>5, <1>8, <1>11, <2>5 DEF o, q, z, a, m
<1> QED
  BY <1>10, <1>11

(* One round of get adds the bits of its byte. *)
LEMMA ByteRead ==
    ASSUME Stored, NEW f \in Fields(Size), NEW o \in Nat, HasRound(f, o)
    PROVE  /\ Field(buf[o], bitOffset(f, o), bitsToGet(f, o)) * Pow2(Shift(f, o)) \in Nat
           /\ Number(bit, f.offset, Shift(f, o) + bitsToGet(f, o)) =
                Number(bit, f.offset, Shift(f, o))
                  + Field(buf[o], bitOffset(f, o), bitsToGet(f, o)) * Pow2(Shift(f, o))
<1> DEFINE at == bitOffset(f, o)
           n == bitsToGet(f, o)
           c == Shift(f, o)
           g == f.offset
<1>0. /\ W \in Nat \ {0} /\ g \in Nat /\ W * Size \in Nat /\ g + f.bits <= W * Size
      /\ f.bits \in Nat
  BY FieldInside
<1>1. /\ at \in Nat /\ n \in Nat \ {0} /\ at + n <= W /\ c \in Nat /\ c + n <= f.bits
      /\ W * o + at = g + c /\ o < Size
  BY RoundOfByte
<1>2. /\ Pow2(W) \in Nat /\ Size \in Nat
      /\ buf \in [0 .. Size -> 0 .. Pow2(W) - 1] /\ bit \in [0 .. W * Size - 1 -> 0 .. 1]
      /\ \A b \in 0 .. W * Size - 1 : Field(buf[b \div W], b % W, 1) = bit[b]
  BY SizeAssumption, Powers, Zenon DEF Stored, PutsOnlyItsBits
<1> HIDE DEF at, n, c, g
<1>3. buf[o] \in Nat
  BY <1>1, <1>2
<1>4. \A k \in 0 .. c + n - 1 : bit[g + k] \in 0 .. 1
  <2>1. \A k \in 0 .. c + n - 1 : g + k \in 0 .. W * Size - 1
    BY <1>0, <1>1
  <2>2. \A b \in 0 .. W * Size - 1 : bit[b] \in 0 .. 1
    BY <1>2
  <2> QED
    BY <2>1, <2>2, Zenon
<1>5. ASSUME NEW k \in 0 .. n - 1 PROVE bit[g + c + k] = Field(buf[o], at + k, 1)
  <2> DEFINE b == g + c + k
             t == at + k
  <2>1. b \in 0 .. W * Size - 1 /\ t \in 0 .. W - 1 /\ b = o * W + t /\ o \in Int
    BY <1>0, <1>1
  <2> HIDE DEF b, t
  <2>2. (o * W + t) % W = t /\ (o * W + t) \div W = o
    BY <1>0, <2>1, Quotient, Zenon
  <2>3. Field(buf[b \div W], b % W, 1) = bit[b]
    BY <1>2, <2>1, Zenon
  <2>4. bit[b] = Field(buf[o], t, 1)
    BY <2>1, <2>2, <2>3, Zenon
  <2> QED
    BY <2>4 DEF b, t
<1>6. n \in Nat
  BY <1>1
<1>7. Number(bit, g, c + n) = Number(bit, g, c) + Field(buf[o], at, n) * Pow2(c)
  <2>1. g \in Nat /\ c \in Nat /\ at \in Nat
    BY <1>0, <1>1
  <2>2. \A k \in 0 .. n - 1 : bit[g + c + k] = Field(buf[o], at + k, 1)
    BY <1>5, Zenon
  <2>3. Gathered(bit, g, c, n, buf[o], at)
    BY <1>4, <2>2, Zenon DEF Gathered
  <2> QED
    BY <1>3, <1>6, <2>1, <2>3, Gather
<1>8. Field(buf[o], at, n) * Pow2(c) \in Nat
  <2>1. Pow2(at) \in Nat \ {0} /\ Pow2(n) \in Nat \ {0} /\ Pow2(c) \in Nat
    BY <1>1, <1>6, Powers, Zenon
  <2>2. buf[o] \div Pow2(at) \in Nat
    BY <1>3, <2>1, NatDivision
  <2>3. (buf[o] \div Pow2(at)) % Pow2(n) \in Nat
    BY <2>1, <2>2, NatDivision
  <2>4. Field(buf[o], at, n) \in Nat
    BY <2>3 DEF Field
  <2> QED
    BY <2>1, <2>4
<1> QED
  BY <1>7, <1>8, Zenon DEF at, n, c, g

(* Get reads a field as the number that its bits make. *)
LEMMA GetReads ==
    ASSUME Stored, NEW f \in Fields(Size)
    PROVE  BitStreamGetInt(buf, f) = Number(bit, f.offset, f.bits)
<1> DEFINE z == byteOffset(f)
           m == f.bits
           g == f.offset
           q == ((f.offset % W) + f.bits - 1) \div W
           R == IF m = 0 THEN 0 ELSE q + 1
           t(o) == Field(buf[o], bitOffset(f, o), bitsToGet(f, o)) * Pow2(Shift(f, o))
           T == [i \in 1 .. R |-> t(z + i - 1)]
           C(i) == IF i = R THEN m ELSE Shift(f, z + i)
           S == {i \in Nat : i <= R => Sum(T, i) = Number(bit, g, C(i))}
<1>0. W \in Nat \ {0} /\ z \in Nat /\ m \in Nat /\ g \in Nat /\ g + m <= W * Size
      /\ W * Size \in Nat /\ f.offset % W \in 0 .. W - 1
  BY FieldInside
<1>1. BitStreamGetInt(buf, f) = Sum(T, R)
  BY DEF BitStreamGetInt
<1>2. m # 0 => q \in Nat
  <2>1. SUFFICES ASSUME m # 0 PROVE q \in Nat
    OBVIOUS
  <2> DEFINE y == (f.offset % W) + m - 1
  <2>2. y \in Nat
    BY <1>0, <2>1
  <2> HIDE DEF y
  <2>3. y \div W \in Nat
    BY <1>0, <2>2, NatDivision, Zenon
  <2> QED
    BY <2>3 DEF y
<1>3. R \in Nat
  BY <1>2
<1>4. Number(bit, g, 0) = 0
  <2>1. 0 \in Nat /\ \A j \in 0 .. 0 - 1 : bit[g + j] \in 0 .. 1
    OBVIOUS
  <2> QED
    BY <1>0, <2>1, NumberIsNat
<1>5. ASSUME NEW i \in Nat, i < R
      PROVE  /\ t(z + i) \in Nat
             /\ Number(bit, g, C(i + 1)) = Number(bit, g, C(i)) + t(z + i)
  <2>1. m # 0 /\ i <= q /\ z + i \in Nat /\ (i = q <=> i + 1 = R) /\ i # R
    BY <1>0, <1>2, <1>5
  <2>2. /\ HasRound(f, z + i)
        /\ Shift(f, z + i) + bitsToGet(f, z + i) = IF i = q THEN m ELSE Shift(f, z + (i + 1))
    BY <2>1, RoundsOfField
  <2>3. Shift(f, z + i) + bitsToGet(f, z + i) = C(i + 1) /\ C(i) = Shift(f, z + i)
    BY <2>1, <2>2, Zenon
  <2>4. /\ t(z + i) \in Nat
        /\ Number(bit, g, Shift(f, z + i) + bitsToGet(f, z + i)) =
             Number(bit, g, Shift(f, z + i)) + t(z + i)
    BY <2>1, <2>2, ByteRead
  <2> HIDE DEF t, C
  <2> QED
    BY <2>3, <2>4, Zenon
<1> HIDE DEF t
<1>6. ASSUME NEW i \in 1 .. R PROVE T[i] = t(z + (i - 1)) /\ T[i] \in Nat
  <2>1. i - 1 \in Nat /\ i - 1 < R /\ z + i - 1 = z + (i - 1) /\ i \in 1 .. R
    BY <1>0, <1>3
  <2>2. t(z + (i - 1)) \in Nat
    BY <1>5, <2>1
  <2>3. T[i] = t(z + i - 1)
    BY <2>1
  <2> QED
    BY <2>1, <2>2, <2>3, Zenon
<1> HIDE DEF T, R
<1>7. 0 \in S
  <2>1. Sum(T, 0) = 0
    <3>1. 0 \in Nat /\ \A i \in 1 .. 0 : T[i] \in Nat
      OBVIOUS
    <3> QED
      BY <3>1, Sums
  <2>2. C(0) = 0
    <3>1. Shift(f, z + 0) = 0
      BY <1>0 DEF Shift, z
    <3>2. R = 0 => m = 0
      BY <1>2 DEF R
    <3> QED
      BY <3>1, <3>2
  <2> QED
    BY <1>4, <2>1, <2>2
<1>8. ASSUME NEW i \in S PROVE i + 1 \in S
  <2>1. SUFFICES ASSUME i + 1 <= R PROVE Sum(T, i + 1) = Number(bit, g, C(i + 1))
    OBVIOUS
  <2>2. i \in Nat /\ i < R /\ i <= R /\ i + 1 \in Nat /\ i + 1 # 0 /\ (i + 1) - 1 = i
        /\ i + 1 \in 1 .. R
    BY <1>3, <2>1
  <2>3. Sum(T, i) = Number(bit, g, C(i))
    BY <2>2
  <2>4. \A j \in 1 .. i + 1 : T[j] \in Nat
    BY <1>3, <1>6, <2>2
  <2>5. Sum(T, i + 1) = Sum(T, (i + 1) - 1) + T[i + 1]
    BY <2>2, <2>4, Sums
  <2>6. T[i + 1] = t(z + ((i + 1) - 1))
    BY <1>6, <2>2, Zenon
  <2>7. Number(bit, g, C(i + 1)) = Number(bit, g, C(i)) + t(z + i)
    BY <1>5, <2>2
  <2> QED
    BY <2>2, <2>3, <2>5, <2>6, <2>7, Zenon
<1>9. S = Nat
  <2>1. S \in SUBSET Nat
    OBVIOUS
  <2> HIDE DEF S
  <2> QED
    BY <1>7, <1>8, <2>1, Induction
<1>10. Sum(T, R) = Number(bit, g, C(R))
  <2>1. R \in S /\ R <= R
    BY <1>3, <1>9
  <2> QED
    BY <2>1
<1> QED
  BY <1>1, <1>10 DEF R, T, t

(* An empty buffer holds zeros. *)
LEMMA StoredFirst == BitInit => Stored
<1> SUFFICES ASSUME BitInit PROVE Stored
  OBVIOUS
<1>0. /\ buf = [o \in 0 .. Size |-> 0] /\ bit = [b \in 0 .. W * Size - 1 |-> 0]
      /\ Size \in Nat /\ W \in Nat \ {0}
  BY SizeAssumption DEF BitInit
<1>1. buf \in [0 .. Size -> 0 .. Pow2(W) - 1]
  <2>1. Pow2(W) \in Nat \ {0}
    BY <1>0, Powers, Zenon
  <2> QED
    BY <1>0, <2>1
<1>2. bit \in [0 .. W * Size - 1 -> 0 .. 1]
  BY <1>0
<1>3. ASSUME NEW b \in 0 .. W * Size - 1 PROVE Field(buf[b \div W], b % W, 1) = bit[b]
  <2>1. b \div W \in 0 .. Size - 1 /\ b % W \in 0 .. W - 1
    BY PlaceOfBit
  <2>2. b \div W \in 0 .. Size /\ b % W \in Nat
    BY <1>0, <2>1
  <2>3. buf[b \div W] = 0 /\ bit[b] = 0
    BY <1>0, <2>2
  <2> DEFINE p == Pow2(b % W)
  <2>4. p \in Nat \ {0}
    BY <2>2, Powers
  <2>5. 0 \in Nat /\ Field(0, b % W, 1) = (0 \div p) % 2
    BY <2>2, OneBit
  <2> HIDE DEF p
  <2>6. 0 \div p = 0
    BY <2>4
  <2>7. 0 % 2 = 0
    OBVIOUS
  <2> QED
    BY <2>3, <2>5, <2>6, <2>7, Zenon
<1>4. buf[Size] = 0
  BY <1>0
<1> QED
  BY <1>1, <1>2, <1>3, <1>4 DEF Stored, PutsOnlyItsBits

(* Values are numbers. *)
LEMMA ValueIsNat ==
    ASSUME NEW value \in Values
    PROVE  value \in Nat
<1>1. W * ValueLen \in Nat
  BY SizeAssumption
<1>2. Pow2(W * ValueLen) \in Nat
  BY <1>1, Powers
<1> QED
  BY <1>2, BitValuesAssumption

(* Both variants of put keep it. *)
LEMMA StoredNext == Stored /\ [BitNext]_bitVars => Stored'
<1> SUFFICES ASSUME Stored, [BitNext]_bitVars PROVE Stored'
  OBVIOUS
<1>1. CASE BitNext
  <2>1. PICK f \in Fields(Size), value \in Values :
          PutIntChars(f, value) \/ PutIntString(f, value)
    BY <1>1 DEF BitNext
  <2>2. value \in Nat
    BY ValueIsNat
  <2>3. buf \in [0 .. Size -> 0 .. Pow2(W) - 1]
    BY DEF Stored
  <2>4. PutString(f, value) = PutBytes(buf, f, value)
    BY <2>3, StringIsChars
  <2>5. buf' = PutBytes(buf, f, value) /\ bit' = Written(f, value)
    BY <2>1, <2>4, Zenon DEF PutIntChars, PutIntString
  <2> QED
    BY <2>2, <2>5, PutKeeps
<1>2. CASE UNCHANGED bitVars
  BY <1>2 DEF bitVars, Stored, PutsOnlyItsBits
<1> QED
  BY <1>1, <1>2

(* So it always holds. *)
LEMMA AlwaysStored == BitSpec => []Stored
BY StoredFirst, StoredNext, PTL DEF BitSpec

(* The buffer of a bit stream holds bytes, and the std::string variant of  *)
(* BitStreamPutInt never leaves its tmpBuf or the string, terminator       *)
(* included, for every width of a byte and of a value.                     *)
THEOREM BitTypes == BitSpec => []BitTypeOK
<1>1. Stored => BitTypeOK
  <2> SUFFICES ASSUME Stored PROVE BitTypeOK
    OBVIOUS
  <2>1. ASSUME NEW f \in Fields(Size)
        PROVE  /\ UsedBytes(f) <= ValueLen /\ byteOffset(f) + UsedBytes(f) <= Size
               /\ \A o \in 0 .. Size : HasRound(f, o) => o <= byteOffset(f) + UsedBytes(f)
    <3>1. /\ UsedBytes(f) \in Nat /\ UsedBytes(f) <= ValueLen
          /\ byteOffset(f) + UsedBytes(f) <= Size /\ byteOffset(f) \in Nat
          /\ \A o \in Nat : HasRound(f, o) => o - byteOffset(f) \in 0 .. UsedBytes(f)
      BY TmpBufSuffices, FieldInside
    <3>2. ASSUME NEW o \in 0 .. Size, HasRound(f, o)
          PROVE  o <= byteOffset(f) + UsedBytes(f)
      <4>1. o \in Nat
        OBVIOUS
      <4>2. o - byteOffset(f) \in 0 .. UsedBytes(f)
        BY <3>1, <3>2, <4>1
      <4> QED
        BY <3>1, <4>1, <4>2
    <3> QED
      BY <3>1, <3>2
  <2> QED
    BY <2>1 DEF Stored, BitTypeOK
<1> QED
  BY <1>1, AlwaysStored, PTL

(* After any sequence of puts, by either variant of BitStreamPutInt, every *)
(* bit of the buffer is the one last put there.                            *)
THEOREM PutsKeepBits == BitSpec => []PutsOnlyItsBits
<1>1. Stored => PutsOnlyItsBits
  BY DEF Stored
<1> QED
  BY <1>1, AlwaysStored, PTL

(* Get reads every field of the buffer. *)
LEMMA ReadsBack == Stored => GetsItsBits
BY GetReads, Zenon DEF GetsItsBits, Number

(* BitStreamGetInt returns the number that the bits last put make, for any *)
(* field that its REQUIRES allows.                                         *)
THEOREM GetsBack == BitSpec => []GetsItsBits
BY ReadsBack, AlwaysStored, PTL

(* The asserts at the end of both variants of BitStreamPutInt: what was    *)
(* put, truncated to the field, is what BitStreamGetInt reads back.        *)
PutIsGot ==
    [][\A f \in Fields(Size), value \in Values :
          PutIntChars(f, value) \/ PutIntString(f, value)
              => BitStreamGetInt(buf', f) = Field(value, 0, f.bits)]_bitVars

(* What was put, by either variant, is what get reads back, truncated to   *)
(* the field: the asserts of BitStreamPutInt never fail.                   *)
THEOREM PutThenGet == BitSpec => PutIsGot
<1> DEFINE Back == \A f \in Fields(Size), value \in Values :
                      PutIntChars(f, value) \/ PutIntString(f, value)
                          => BitStreamGetInt(buf', f) = Field(value, 0, f.bits)
<1>1. Stored' => GetsItsBits'
  BY ReadsBack, PTL
<1>2. Stored' => \A f \in Fields(Size) :
                   BitStreamGetInt(buf', f) = Number(bit', f.offset, f.bits)
  BY <1>1 DEF GetsItsBits, Number
<1>3. Stored /\ Stored' => Back
  <2> SUFFICES ASSUME Stored, Stored', NEW f \in Fields(Size), NEW value \in Values,
                      PutIntChars(f, value) \/ PutIntString(f, value)
               PROVE  BitStreamGetInt(buf', f) = Field(value, 0, f.bits)
    OBVIOUS
  <2> DEFINE g == f.offset
             n == f.bits
  <2>0. g \in Nat /\ n \in Nat /\ W * Size \in Nat /\ g + n <= W * Size /\ value \in Nat
    BY FieldInside, ValueIsNat
  <2>1. BitStreamGetInt(buf', f) = Number(bit', g, n)
    BY <1>2
  <2>2. bit \in [0 .. W * Size - 1 -> 0 .. 1] /\ bit' \in [0 .. W * Size - 1 -> 0 .. 1]
    BY DEF Stored
  <2>3. bit' = [b \in 0 .. W * Size - 1 |->
                  IF b - g \in 0 .. n - 1 THEN Field(value, b - g, 1) ELSE bit[b]]
    BY <2>2 DEF PutIntChars, PutIntString, Written
  <2> HIDE DEF g, n
  <2>4. \A k \in 0 .. 0 + n - 1 : bit'[g + k] \in 0 .. 1
    BY <2>0, <2>2
  <2>5. ASSUME NEW k \in 0 .. n - 1 PROVE bit'[g + 0 + k] = Field(value, 0 + k, 1)
    <3>1. g + 0 + k \in 0 .. W * Size - 1 /\ (g + 0 + k) - g = k /\ 0 + k = k /\ k \in 0 .. n - 1
      BY <2>0
    <3> QED
      BY <2>3, <3>1
  <2>6. Gathered(bit', g, 0, n, value, 0)
    BY <2>4, <2>5, Zenon DEF Gathered
  <2>7. Number(bit', g, 0 + n) = Number(bit', g, 0) + Field(value, 0, n) * Pow2(0)
    <3>1. 0 \in Nat
      OBVIOUS
    <3> QED
      BY <2>0, <2>6, <3>1, Gather
  <2>8. Number(bit', g, 0) = 0
    <3>1. 0 \in Nat /\ \A j \in 0 .. 0 - 1 : bit'[g + j] \in 0 .. 1
      OBVIOUS
    <3> QED
      BY <2>0, <3>1, NumberIsNat
  <2>9. Field(value, 0, n) \in Nat /\ Pow2(0) = 1
    <3>1. 0 \in Nat
      OBVIOUS
    <3> QED
      BY <2>0, <3>1, BitsOfField, Powers, Zenon
  <2>10. 0 + n = n /\ 0 + Field(value, 0, n) * 1 = Field(value, 0, n)
    BY <2>0, <2>9
  <2>11. Number(bit', g, n) = Field(value, 0, n)
    BY <2>7, <2>8, <2>9, <2>10, Zenon
  <2> QED
    BY <2>1, <2>11, Zenon DEF g, n
<1>4. Stored /\ Stored' => [Back]_bitVars
  BY <1>3
<1>5. BitSpec => []Stored
  BY AlwaysStored
<1> QED
  BY <1>4, <1>5, PTL DEF PutIsGot
=============================================================================
