---------------------------- MODULE Codecs_proofs ----------------------------
(* What holds of the operators of Codecs for all bytes, layouts and values.     *)
EXTENDS Codecs, TLAPS

-----------------------------------------------------------------------------
(* Bits.                                                                     *)

LEMMA Weights ==
  2^0 = 1 /\ 2^1 = 2 /\ 2^2 = 4 /\ 2^3 = 8 /\ 2^4 = 16 /\ 2^5 = 32 /\ 2^6 = 64
    /\ 2^7 = 128 /\ 2^8 = 256
  BY SMT

\* The eight bits of a number, with their weights written out.
LEMMA EightBits ==
  ASSUME NEW n
  PROVE  /\ 0 \in Bits(n) <=> (n \div 1) % 2 = 1
         /\ 1 \in Bits(n) <=> (n \div 2) % 2 = 1
         /\ 2 \in Bits(n) <=> (n \div 4) % 2 = 1
         /\ 3 \in Bits(n) <=> (n \div 8) % 2 = 1
         /\ 4 \in Bits(n) <=> (n \div 16) % 2 = 1
         /\ 5 \in Bits(n) <=> (n \div 32) % 2 = 1
         /\ 6 \in Bits(n) <=> (n \div 64) % 2 = 1
         /\ 7 \in Bits(n) <=> (n \div 128) % 2 = 1
         /\ Bits(n) \in SUBSET (0 .. 7)
  BY Weights, SMT DEF Bits

LEMMA EightWeights ==
  ASSUME NEW bits
  PROVE  ByteOf(bits) = (IF 0 \in bits THEN 1 ELSE 0) + (IF 1 \in bits THEN 2 ELSE 0)
             + (IF 2 \in bits THEN 4 ELSE 0) + (IF 3 \in bits THEN 8 ELSE 0)
             + (IF 4 \in bits THEN 16 ELSE 0) + (IF 5 \in bits THEN 32 ELSE 0)
             + (IF 6 \in bits THEN 64 ELSE 0) + (IF 7 \in bits THEN 128 ELSE 0)
  BY Weights, SMT DEF ByteOf, Worth

\* A byte and its binary digits.
LEMMA BinaryDigits ==
  ASSUME NEW n \in 0 .. 255
  PROVE  n = ((n \div 1) % 2) + 2 * ((n \div 2) % 2) + 4 * ((n \div 4) % 2)
             + 8 * ((n \div 8) % 2) + 16 * ((n \div 16) % 2) + 32 * ((n \div 32) % 2)
             + 64 * ((n \div 64) % 2) + 128 * ((n \div 128) % 2)
  BY SMT

\* The number with these digits, the lowest first.
Binary(a, b, c, d, e, f, g, h) ==
  a + 2 * b + 4 * c + 8 * d + 16 * e + 32 * f + 64 * g + 128 * h

\* n is a byte and these are its digits.
HasDigits(n, a, b, c, d, e, f, g, h) ==
  /\ n \in 0 .. 255
  /\ (n \div 1) % 2 = a /\ (n \div 2) % 2 = b /\ (n \div 4) % 2 = c
  /\ (n \div 8) % 2 = d /\ (n \div 16) % 2 = e /\ (n \div 32) % 2 = f
  /\ (n \div 64) % 2 = g /\ (n \div 128) % 2 = h

LEMMA DigitsBinary ==
  ASSUME NEW a \in 0 .. 1, NEW b \in 0 .. 1, NEW c \in 0 .. 1, NEW d \in 0 .. 1,
         NEW e \in 0 .. 1, NEW f \in 0 .. 1, NEW g \in 0 .. 1, NEW h \in 0 .. 1
  PROVE  HasDigits(Binary(a, b, c, d, e, f, g, h), a, b, c, d, e, f, g, h)
  BY SMT DEF Binary, HasDigits

\* A byte is the sum of its bits,
LEMMA BitsMakeByte ==
  ASSUME NEW n \in Byte
  PROVE  ByteOf(Bits(n)) = n
  <1>1. n \in 0 .. 255
    BY DEF Byte, Width
  <1> PICK a \in 0 .. 1, b \in 0 .. 1, c \in 0 .. 1, d \in 0 .. 1, e \in 0 .. 1,
           f \in 0 .. 1, g \in 0 .. 1, h \in 0 .. 1 :
             /\ a = (n \div 1) % 2 /\ b = (n \div 2) % 2 /\ c = (n \div 4) % 2
             /\ d = (n \div 8) % 2 /\ e = (n \div 16) % 2 /\ f = (n \div 32) % 2
             /\ g = (n \div 64) % 2 /\ h = (n \div 128) % 2
    BY <1>1
  <1>2. n = a + 2 * b + 4 * c + 8 * d + 16 * e + 32 * f + 64 * g + 128 * h
    BY <1>1, BinaryDigits
  <1>3. /\ 0 \in Bits(n) <=> a = 1
        /\ 1 \in Bits(n) <=> b = 1
        /\ 2 \in Bits(n) <=> c = 1
        /\ 3 \in Bits(n) <=> d = 1
        /\ 4 \in Bits(n) <=> e = 1
        /\ 5 \in Bits(n) <=> f = 1
        /\ 6 \in Bits(n) <=> g = 1
        /\ 7 \in Bits(n) <=> h = 1
    BY EightBits
  <1>4. ByteOf(Bits(n)) = a + 2 * b + 4 * c + 8 * d + 16 * e + 32 * f + 64 * g + 128 * h
    <2> DEFINE bits == Bits(n)
    <2>1. /\ (IF 0 \in bits THEN 1 ELSE 0) = a /\ (IF 1 \in bits THEN 2 ELSE 0) = 2 * b
          /\ (IF 2 \in bits THEN 4 ELSE 0) = 4 * c /\ (IF 3 \in bits THEN 8 ELSE 0) = 8 * d
          /\ (IF 4 \in bits THEN 16 ELSE 0) = 16 * e
          /\ (IF 5 \in bits THEN 32 ELSE 0) = 32 * f
          /\ (IF 6 \in bits THEN 64 ELSE 0) = 64 * g
          /\ (IF 7 \in bits THEN 128 ELSE 0) = 128 * h
      BY ONLY <1>3, a \in 0 .. 1, b \in 0 .. 1, c \in 0 .. 1, d \in 0 .. 1,
              e \in 0 .. 1, f \in 0 .. 1, g \in 0 .. 1, h \in 0 .. 1
    <2> QED  BY ONLY <2>1, EightWeights
  <1> QED  BY <1>2, <1>4

\* and every set of bits is that of a byte.
LEMMA ByteHasBits ==
  ASSUME NEW bits \in SUBSET (0 .. 7)
  PROVE  ByteOf(bits) \in Byte /\ Bits(ByteOf(bits)) = bits
  <1> DEFINE bit(k) == IF k \in bits THEN 1 ELSE 0
  <1> PICK a \in 0 .. 1, b \in 0 .. 1, c \in 0 .. 1, d \in 0 .. 1, e \in 0 .. 1,
           f \in 0 .. 1, g \in 0 .. 1, h \in 0 .. 1 :
             /\ a = bit(0) /\ b = bit(1) /\ c = bit(2) /\ d = bit(3)
             /\ e = bit(4) /\ f = bit(5) /\ g = bit(6) /\ h = bit(7)
    OBVIOUS
  <1> DEFINE n == a + 2 * b + 4 * c + 8 * d + 16 * e + 32 * f + 64 * g + 128 * h
  <1>1. ByteOf(bits) = n
    BY EightWeights
  <1>2. n = Binary(a, b, c, d, e, f, g, h)
    BY DEF Binary
  <1> HIDE DEF n
  <1>3. /\ n \in 0 .. 255
        /\ (n \div 1) % 2 = a /\ (n \div 2) % 2 = b /\ (n \div 4) % 2 = c
        /\ (n \div 8) % 2 = d /\ (n \div 16) % 2 = e /\ (n \div 32) % 2 = f
        /\ (n \div 64) % 2 = g /\ (n \div 128) % 2 = h
    <2>1. HasDigits(Binary(a, b, c, d, e, f, g, h), a, b, c, d, e, f, g, h)
      BY ONLY DigitsBinary, a \in 0 .. 1, b \in 0 .. 1, c \in 0 .. 1, d \in 0 .. 1,
              e \in 0 .. 1, f \in 0 .. 1, g \in 0 .. 1, h \in 0 .. 1
    <2>2. HasDigits(n, a, b, c, d, e, f, g, h)
      BY ONLY <1>2, <2>1
    <2> QED  BY ONLY <2>2 DEF HasDigits
  <1>4. \A k \in 0 .. 7 : k \in Bits(n) <=> k \in bits
    <2>1. /\ 0 \in Bits(n) <=> a = 1
          /\ 1 \in Bits(n) <=> b = 1
          /\ 2 \in Bits(n) <=> c = 1
          /\ 3 \in Bits(n) <=> d = 1
          /\ 4 \in Bits(n) <=> e = 1
          /\ 5 \in Bits(n) <=> f = 1
          /\ 6 \in Bits(n) <=> g = 1
          /\ 7 \in Bits(n) <=> h = 1
      BY <1>3, EightBits
    <2> QED  BY <2>1
  <1>5. Bits(n) = bits
    <2>1. Bits(n) \in SUBSET (0 .. 7)
      BY EightBits
    <2> QED  BY <1>4, <2>1, Zenon
  <1> QED  BY <1>1, <1>3, <1>5 DEF Byte, Width

\* The powers a shift within a byte can meet.
LEMMA SmallPower ==
  ASSUME NEW k \in 0 .. 8
  PROVE  2^k \in 1 .. 256
  <1>0. CASE k = 0
    BY <1>0, Weights
  <1>1. CASE k = 1
    BY <1>1, Weights
  <1>2. CASE k = 2
    BY <1>2, Weights
  <1>3. CASE k = 3
    BY <1>3, Weights
  <1>4. CASE k = 4
    BY <1>4, Weights
  <1>5. CASE k = 5
    BY <1>5, Weights
  <1>6. CASE k = 6
    BY <1>6, Weights
  <1>7. CASE k = 7
    BY <1>7, Weights
  <1>8. CASE k = 8
    BY <1>8, Weights
  <1> QED  BY <1>0, <1>1, <1>2, <1>3, <1>4, <1>5, <1>6, <1>7, <1>8

LEMMA NextPower ==
  ASSUME NEW k \in 0 .. 7
  PROVE  2^(k + 1) = 2 * 2^k /\ 2^k \in 1 .. 128
  <1>0. CASE k = 0
    BY <1>0, Weights
  <1>1. CASE k = 1
    BY <1>1, Weights
  <1>2. CASE k = 2
    BY <1>2, Weights
  <1>3. CASE k = 3
    BY <1>3, Weights
  <1>4. CASE k = 4
    BY <1>4, Weights
  <1>5. CASE k = 5
    BY <1>5, Weights
  <1>6. CASE k = 6
    BY <1>6, Weights
  <1>7. CASE k = 7
    BY <1>7, Weights
  <1> QED  BY <1>0, <1>1, <1>2, <1>3, <1>4, <1>5, <1>6, <1>7

LEMMA SameBits ==
  ASSUME NEW m \in Byte, NEW n \in Byte, Bits(m) = Bits(n)
  PROVE  m = n
  BY BitsMakeByte

\* Halving a number shifts its digits.
LEMMA Halves ==
  ASSUME NEW n \in 0 .. 255
  PROVE  /\ (n \div 2) \div 1 = n \div 2 /\ (n \div 2) \div 2 = n \div 4
         /\ (n \div 2) \div 4 = n \div 8 /\ (n \div 2) \div 8 = n \div 16
         /\ (n \div 2) \div 16 = n \div 32 /\ (n \div 2) \div 32 = n \div 64
         /\ (n \div 2) \div 64 = n \div 128 /\ (n \div 2) \div 128 = 0
  BY SMT

\* A shift to the right by one.
LEMMA HalfBits ==
  ASSUME NEW n \in Byte
  PROVE  n \div 2 \in Byte /\ Bits(n \div 2) = {k \in 0 .. 7 : k + 1 \in Bits(n)}
  <1>1. n \in 0 .. 255
    BY DEF Byte, Width
  <1> DEFINE m == n \div 2
  <1>2. /\ m \in 0 .. 255 /\ m \div 1 = n \div 2 /\ m \div 2 = n \div 4
        /\ m \div 4 = n \div 8 /\ m \div 8 = n \div 16
        /\ m \div 16 = n \div 32 /\ m \div 32 = n \div 64
        /\ m \div 64 = n \div 128 /\ m \div 128 = 0
    BY <1>1, Halves
  <1> HIDE DEF m
  <1>3. /\ 0 \in Bits(m) <=> 1 \in Bits(n)
        /\ 1 \in Bits(m) <=> 2 \in Bits(n)
        /\ 2 \in Bits(m) <=> 3 \in Bits(n)
        /\ 3 \in Bits(m) <=> 4 \in Bits(n)
        /\ 4 \in Bits(m) <=> 5 \in Bits(n)
        /\ 5 \in Bits(m) <=> 6 \in Bits(n)
        /\ 6 \in Bits(m) <=> 7 \in Bits(n)
        /\ 7 \notin Bits(m)
    <2>1. 0 % 2 = 0
      OBVIOUS
    <2> QED BY <1>2, <2>1, EightBits
  <1>4. Bits(m) \subseteq 0 .. 7 /\ Bits(n) \subseteq 0 .. 7
    BY EightBits
  <1>5. Bits(m) = {k \in 0 .. 7 : k + 1 \in Bits(n)}
    BY <1>3, <1>4
  <1> QED  BY <1>2, <1>5 DEF m, Byte, Width

\* A shift to the left by one, if the upper bit is not set.
LEMMA DoubleBits ==
  ASSUME NEW n \in Byte, 7 \notin Bits(n)
  PROVE  2 * n \in Byte /\ Bits(2 * n) = {k \in 0 .. 7 : k - 1 \in Bits(n)}
  <1>1. n \in 0 .. 255 /\ (n \div 128) % 2 # 1
    BY EightBits DEF Byte, Width
  <1> DEFINE m == 2 * n
  <1>2. m \in 0 .. 255 /\ m \div 2 = n /\ (m \div 1) % 2 = 0
    BY <1>1, SMT
  <1> HIDE DEF m
  <1>3. m \in Byte
    BY <1>2 DEF Byte, Width
  <1>4. 0 \notin Bits(m) /\ Bits(m) \subseteq 0 .. 7 /\ Bits(n) \subseteq 0 .. 7
    BY <1>2, EightBits
  <1>5. Bits(n) = {k \in 0 .. 7 : k + 1 \in Bits(m)}
    BY <1>2, <1>3, HalfBits
  <1>6. ASSUME NEW k \in 0 .. 7  PROVE k \in Bits(m) <=> k - 1 \in Bits(n)
    <2>1. CASE k = 0
      BY <2>1, <1>4
    <2>2. CASE k > 0
      <3>1. k - 1 \in 0 .. 7 /\ (k - 1) + 1 = k
        BY <2>2
      <3> QED  BY <3>1, <1>5
    <2> QED  BY <2>1, <2>2
  <1>7. Bits(m) = {k \in 0 .. 7 : k - 1 \in Bits(n)}
    BY <1>4, <1>6
  <1> QED  BY <1>3, <1>7 DEF m

LEMMA HalfOnce ==
  ASSUME NEW n \in 0 .. 255
  PROVE  /\ n \div 1 = n /\ n \div 2 = (n \div 1) \div 2 /\ n \div 4 = (n \div 2) \div 2
         /\ n \div 8 = (n \div 4) \div 2 /\ n \div 16 = (n \div 8) \div 2
         /\ n \div 32 = (n \div 16) \div 2 /\ n \div 64 = (n \div 32) \div 2
         /\ n \div 128 = (n \div 64) \div 2
  BY SMT

\* A shift to the right.
ShiftsRight(n, off) ==
  n \div 2^off \in Byte /\ Bits(n \div 2^off) = {k \in 0 .. 7 : k + off \in Bits(n)}

LEMMA RightOnce ==
  ASSUME NEW n \in Byte, NEW off \in 0 .. 6, ShiftsRight(n, off)
  PROVE  ShiftsRight(n, off + 1)
  <1>1. n \div 2^(off + 1) = (n \div 2^off) \div 2
    <2> DEFINE Halved(o) == n \div 2^(o + 1) = (n \div 2^o) \div 2
    <2>1. n \in 0 .. 255
      BY DEF Byte, Width
    <2>2. Halved(0) /\ Halved(1) /\ Halved(2) /\ Halved(3) /\ Halved(4) /\ Halved(5)
            /\ Halved(6)
      BY <2>1, Weights, HalfOnce
    <2> HIDE DEF Halved
    <2>3. Halved(off)
      BY <2>2
    <2> QED  BY <2>3 DEF Halved
  <1> DEFINE m == n \div 2^off
  <1>2. m \in Byte /\ Bits(m) = {k \in 0 .. 7 : k + off \in Bits(n)}
    BY DEF ShiftsRight
  <1> HIDE DEF m
  <1>3. m \div 2 \in Byte /\ Bits(m \div 2) = {k \in 0 .. 7 : k + 1 \in Bits(m)}
    BY <1>2, HalfBits
  <1>4. ASSUME NEW k \in 0 .. 7  PROVE k + 1 \in Bits(m) <=> k + (off + 1) \in Bits(n)
    <2>1. Bits(n) \subseteq 0 .. 7
      BY EightBits
    <2>2. (k + 1) + off = k + (off + 1)
      OBVIOUS
    <2>3. k + (off + 1) \in 0 .. 7 => k + 1 \in 0 .. 7
      OBVIOUS
    <2> QED  BY <2>1, <2>2, <2>3, <1>2
  <1>5. Bits(m \div 2) = {k \in 0 .. 7 : k + (off + 1) \in Bits(n)}
    BY <1>3, <1>4
  <1> QED  BY <1>1, <1>3, <1>5 DEF m, ShiftsRight

\* A shift to the right by less than a byte moves the bits down,
LEMMA RightBits ==
  ASSUME NEW n \in Byte, NEW off \in 0 .. 7
  PROVE  ShiftsRight(n, off)
  <1>1. ShiftsRight(n, 0)
    <2>1. n \in 0 .. 255 /\ n \div 2^0 = n
      BY Weights DEF Byte, Width
    <2>2. Bits(n) = {k \in 0 .. 7 : k + 0 \in Bits(n)}
      BY EightBits
    <2> QED  BY <2>1, <2>2 DEF ShiftsRight
  <1>2. \A o \in 0 .. 6 : ShiftsRight(n, o) => ShiftsRight(n, o + 1)
    BY RightOnce
  <1>3. \A o \in {0, 1, 2, 3, 4, 5, 6, 7} : ShiftsRight(n, o)
    <2> HIDE DEF ShiftsRight
    <2> QED  BY <1>1, <1>2
  <1> QED  BY <1>3

\* A shift to the left, as long as no bit is lost.
ShiftsLeft(n, off) ==
  n * 2^off \in Byte /\ Bits(n * 2^off) = {k \in 0 .. 7 : k - off \in Bits(n)}

LEMMA LeftOnce ==
  ASSUME NEW n \in Byte, NEW off \in 0 .. 6, Bits(n) \subseteq 0 .. 6 - off,
         ShiftsLeft(n, off)
  PROVE  ShiftsLeft(n, off + 1)
  <1>1. n * 2^(off + 1) = 2 * (n * 2^off)
    <2>1. n \in Int
      BY DEF Byte, Width
    <2>2. 2^(off + 1) = 2 * 2^off /\ 2^off \in Int
      <3>1. off \in 0 .. 7
        OBVIOUS
      <3>2. 2^(off + 1) = 2 * 2^off /\ 2^off \in 1 .. 128
        BY <3>1, NextPower, Zenon
      <3> QED  BY <3>2
    <2> DEFINE p == 2^off
    <2> HIDE DEF p
    <2>3. n * (2 * p) = 2 * (n * p)
      BY <2>1, <2>2 DEF p
    <2> QED  BY <2>2, <2>3 DEF p
  <1> DEFINE m == n * 2^off
  <1>2. m \in Byte /\ Bits(m) = {k \in 0 .. 7 : k - off \in Bits(n)}
    BY DEF ShiftsLeft
  <1> HIDE DEF m
  <1>3. 7 \notin Bits(m)
    BY <1>2
  <1>4. 2 * m \in Byte /\ Bits(2 * m) = {k \in 0 .. 7 : k - 1 \in Bits(m)}
    BY <1>2, <1>3, DoubleBits
  <1>5. ASSUME NEW k \in 0 .. 7  PROVE k - 1 \in Bits(m) <=> k - (off + 1) \in Bits(n)
    <2>1. (k - 1) - off = k - (off + 1)
      OBVIOUS
    <2>2. k - (off + 1) \in 0 .. 6 - off => k - 1 \in 0 .. 7
      OBVIOUS
    <2> QED  BY <2>1, <2>2, <1>2
  <1>6. Bits(2 * m) = {k \in 0 .. 7 : k - (off + 1) \in Bits(n)}
    BY <1>4, <1>5
  <1> QED  BY <1>1, <1>4, <1>6 DEF m, ShiftsLeft

\* and one to the left moves them up, if none is lost.
LEMMA LeftBits ==
  ASSUME NEW n \in Byte, NEW off \in 0 .. 7, Bits(n) \subseteq 0 .. 7 - off
  PROVE  ShiftsLeft(n, off)
  <1>1. ShiftsLeft(n, 0)
    <2>1. n \in 0 .. 255 /\ n * 2^0 = n
      BY Weights DEF Byte, Width
    <2>2. Bits(n) = {k \in 0 .. 7 : k - 0 \in Bits(n)}
      BY EightBits
    <2> QED  BY <2>1, <2>2 DEF ShiftsLeft
  <1>2. ASSUME NEW o \in 0 .. 6, o < off, ShiftsLeft(n, o)
        PROVE  ShiftsLeft(n, o + 1)
    <2>1. Bits(n) \subseteq 0 .. 6 - o
      BY <1>2
    <2> QED  BY <1>2, <2>1, LeftOnce
  <1>3. \A o \in {0, 1, 2, 3, 4, 5, 6, 7} : o <= off => ShiftsLeft(n, o)
    <2> HIDE DEF ShiftsLeft
    <2> DEFINE S(o) == ShiftsLeft(n, o)
    <2>1. S(0) /\ \A o \in 0 .. 6 : o < off /\ S(o) => S(o + 1)
      BY <1>1, <1>2
    <2> HIDE DEF S
    <2>2. /\ 1 <= off => S(1)
          /\ 2 <= off => S(2)
      BY <2>1
    <2>3. /\ 3 <= off => S(3)
          /\ 4 <= off => S(4)
      BY <2>1, <2>2
    <2>4. /\ 5 <= off => S(5)
          /\ 6 <= off => S(6)
      BY <2>1, <2>3
    <2>5. 7 <= off => S(7)
      BY <2>1, <2>4
    <2> QED  BY <2>1, <2>2, <2>3, <2>4, <2>5 DEF S
  <1> QED  BY <1>3


\* What is left of a byte below each of its bits.
LEMMA Remainders ==
  ASSUME NEW a \in 0 .. 1, NEW b \in 0 .. 1, NEW c \in 0 .. 1, NEW d \in 0 .. 1,
         NEW e \in 0 .. 1, NEW f \in 0 .. 1, NEW g \in 0 .. 1, NEW h \in 0 .. 1,
         NEW n, n = a + 2 * b + 4 * c + 8 * d + 16 * e + 32 * f + 64 * g + 128 * h
  PROVE  /\ n % 1 = 0 /\ n % 2 = a /\ n % 4 = a + 2 * b
         /\ n % 8 = a + 2 * b + 4 * c
         /\ n % 16 = a + 2 * b + 4 * c + 8 * d
         /\ n % 32 = a + 2 * b + 4 * c + 8 * d + 16 * e
         /\ n % 64 = a + 2 * b + 4 * c + 8 * d + 16 * e + 32 * f
         /\ n % 128 = a + 2 * b + 4 * c + 8 * d + 16 * e + 32 * f + 64 * g
         /\ n % 256 = n
  BY SMT

\* A remainder has the lower bits.
LEMMA LowBits ==
  ASSUME NEW n \in Byte, NEW l \in 0 .. 8
  PROVE  n % 2^l \in Byte /\ Bits(n % 2^l) = {k \in Bits(n) : k < l}
  <1>1. n \in 0 .. 255
    BY DEF Byte, Width
  <1> PICK a \in 0 .. 1, b \in 0 .. 1, c \in 0 .. 1, d \in 0 .. 1, e \in 0 .. 1,
           f \in 0 .. 1, g \in 0 .. 1, h \in 0 .. 1 :
             /\ a = (n \div 1) % 2 /\ b = (n \div 2) % 2 /\ c = (n \div 4) % 2
             /\ d = (n \div 8) % 2 /\ e = (n \div 16) % 2 /\ f = (n \div 32) % 2
             /\ g = (n \div 64) % 2 /\ h = (n \div 128) % 2
    BY <1>1
  <1>2. n = a + 2 * b + 4 * c + 8 * d + 16 * e + 32 * f + 64 * g + 128 * h
    BY <1>1, BinaryDigits
  <1> DEFINE low == {k \in Bits(n) : k < l}
  <1>3. /\ 0 \in low <=> 0 < l /\ a = 1
        /\ 1 \in low <=> 1 < l /\ b = 1
        /\ 2 \in low <=> 2 < l /\ c = 1
        /\ 3 \in low <=> 3 < l /\ d = 1
        /\ 4 \in low <=> 4 < l /\ e = 1
        /\ 5 \in low <=> 5 < l /\ f = 1
        /\ 6 \in low <=> 6 < l /\ g = 1
        /\ 7 \in low <=> 7 < l /\ h = 1
    BY EightBits
  <1>4. low \in SUBSET (0 .. 7)
    BY EightBits
  <1> HIDE DEF low
  <1>5. ByteOf(low) = n % 2^l
    <2> DEFINE part(k, digit, worth) == IF k < l THEN worth * digit ELSE 0
    <2>1. ByteOf(low) = part(0, a, 1) + part(1, b, 2) + part(2, c, 4) + part(3, d, 8)
                      + part(4, e, 16) + part(5, f, 32) + part(6, g, 64) + part(7, h, 128)
      <3>1. /\ (IF 0 \in low THEN 1 ELSE 0) = part(0, a, 1)
            /\ (IF 1 \in low THEN 2 ELSE 0) = part(1, b, 2)
            /\ (IF 2 \in low THEN 4 ELSE 0) = part(2, c, 4)
            /\ (IF 3 \in low THEN 8 ELSE 0) = part(3, d, 8)
            /\ (IF 4 \in low THEN 16 ELSE 0) = part(4, e, 16)
            /\ (IF 5 \in low THEN 32 ELSE 0) = part(5, f, 32)
            /\ (IF 6 \in low THEN 64 ELSE 0) = part(6, g, 64)
            /\ (IF 7 \in low THEN 128 ELSE 0) = part(7, h, 128)
        BY ONLY <1>3, a \in 0 .. 1, b \in 0 .. 1, c \in 0 .. 1, d \in 0 .. 1,
                e \in 0 .. 1, f \in 0 .. 1, g \in 0 .. 1, h \in 0 .. 1
      <3> HIDE DEF part
      <3> QED  BY ONLY <3>1, EightWeights
    <2>2. n % 2^l = part(0, a, 1) + part(1, b, 2) + part(2, c, 4) + part(3, d, 8)
                  + part(4, e, 16) + part(5, f, 32) + part(6, g, 64) + part(7, h, 128)
      <3> DEFINE r(p) == n % p
      <3>1. /\ r(1) = 0 /\ r(2) = a /\ r(4) = a + 2 * b
            /\ r(8) = a + 2 * b + 4 * c
            /\ r(16) = a + 2 * b + 4 * c + 8 * d
            /\ r(32) = a + 2 * b + 4 * c + 8 * d + 16 * e
            /\ r(64) = a + 2 * b + 4 * c + 8 * d + 16 * e + 32 * f
            /\ r(128) = a + 2 * b + 4 * c + 8 * d + 16 * e + 32 * f + 64 * g
            /\ r(256) = a + 2 * b + 4 * c + 8 * d + 16 * e + 32 * f + 64 * g + 128 * h
        BY ONLY <1>2, Remainders, a \in 0 .. 1, b \in 0 .. 1, c \in 0 .. 1,
                d \in 0 .. 1, e \in 0 .. 1, f \in 0 .. 1, g \in 0 .. 1, h \in 0 .. 1
      <3>2. n % 2^l = r(2^l)
        OBVIOUS
      <3> HIDE DEF r
      <3>3. CASE l = 0
        BY ONLY <3>1, <3>2, <3>3, Weights, a \in 0 .. 1, b \in 0 .. 1, c \in 0 .. 1,
                d \in 0 .. 1, e \in 0 .. 1, f \in 0 .. 1, g \in 0 .. 1, h \in 0 .. 1
      <3>4. CASE l = 1
        BY ONLY <3>1, <3>2, <3>4, Weights, a \in 0 .. 1, b \in 0 .. 1, c \in 0 .. 1,
                d \in 0 .. 1, e \in 0 .. 1, f \in 0 .. 1, g \in 0 .. 1, h \in 0 .. 1
      <3>5. CASE l = 2
        BY ONLY <3>1, <3>2, <3>5, Weights, a \in 0 .. 1, b \in 0 .. 1, c \in 0 .. 1,
                d \in 0 .. 1, e \in 0 .. 1, f \in 0 .. 1, g \in 0 .. 1, h \in 0 .. 1
      <3>6. CASE l = 3
        BY ONLY <3>1, <3>2, <3>6, Weights, a \in 0 .. 1, b \in 0 .. 1, c \in 0 .. 1,
                d \in 0 .. 1, e \in 0 .. 1, f \in 0 .. 1, g \in 0 .. 1, h \in 0 .. 1
      <3>7. CASE l = 4
        BY ONLY <3>1, <3>2, <3>7, Weights, a \in 0 .. 1, b \in 0 .. 1, c \in 0 .. 1,
                d \in 0 .. 1, e \in 0 .. 1, f \in 0 .. 1, g \in 0 .. 1, h \in 0 .. 1
      <3>8. CASE l = 5
        BY ONLY <3>1, <3>2, <3>8, Weights, a \in 0 .. 1, b \in 0 .. 1, c \in 0 .. 1,
                d \in 0 .. 1, e \in 0 .. 1, f \in 0 .. 1, g \in 0 .. 1, h \in 0 .. 1
      <3>9. CASE l = 6
        BY ONLY <3>1, <3>2, <3>9, Weights, a \in 0 .. 1, b \in 0 .. 1, c \in 0 .. 1,
                d \in 0 .. 1, e \in 0 .. 1, f \in 0 .. 1, g \in 0 .. 1, h \in 0 .. 1
      <3>10. CASE l = 7
        BY ONLY <3>1, <3>2, <3>10, Weights, a \in 0 .. 1, b \in 0 .. 1, c \in 0 .. 1,
                d \in 0 .. 1, e \in 0 .. 1, f \in 0 .. 1, g \in 0 .. 1, h \in 0 .. 1
      <3>11. CASE l = 8
        BY ONLY <3>1, <3>2, <3>11, Weights, a \in 0 .. 1, b \in 0 .. 1, c \in 0 .. 1,
                d \in 0 .. 1, e \in 0 .. 1, f \in 0 .. 1, g \in 0 .. 1, h \in 0 .. 1
      <3> QED  BY ONLY l \in 0 .. 8, <3>3, <3>4, <3>5, <3>6, <3>7, <3>8, <3>9, <3>10, <3>11
    <2> QED  BY <2>1, <2>2
  <1> QED  BY <1>4, <1>5, ByteHasBits DEF low

\* | and &^ of codec.go are union and difference.
LEMMA OrBits ==
  ASSUME NEW m, NEW n
  PROVE  Or(m, n) \in Byte /\ Bits(Or(m, n)) = Bits(m) \cup Bits(n)
  <1>1. Bits(m) \cup Bits(n) \in SUBSET (0 .. 7)
    BY EightBits
  <1> QED  BY <1>1, ByteHasBits DEF Or

LEMMA ClearBits ==
  ASSUME NEW m, NEW bits
  PROVE  Clear(m, bits) \in Byte /\ Bits(Clear(m, bits)) = Bits(m) \ bits
  <1>1. Bits(m) \ bits \in SUBSET (0 .. 7)
    BY EightBits
  <1> QED  BY <1>1, ByteHasBits DEF Clear

\* The bits of a field, wherever it lies in the byte.
LEMMA FieldBits ==
  ASSUME NEW n \in Byte, NEW off \in 0 .. 7, NEW l \in 0 .. 8
  PROVE  /\ (n \div 2^off) % 2^l \in Byte
         /\ Bits((n \div 2^off) % 2^l) = {k \in 0 .. 7 : k < l /\ k + off \in Bits(n)}
  <1> DEFINE m == n \div 2^off
  <1>1. m \in Byte /\ Bits(m) = {k \in 0 .. 7 : k + off \in Bits(n)}
    BY RightBits DEF ShiftsRight
  <1> HIDE DEF m
  <1>2. m % 2^l \in Byte /\ Bits(m % 2^l) = {k \in Bits(m) : k < l}
    BY <1>1, LowBits
  <1> QED  BY <1>1, <1>2 DEF m

\* What fits a field has no other bits.
LEMMA SmallBits ==
  ASSUME NEW l \in 0 .. 8, NEW d \in Nat, d < 2^l
  PROVE  d \in Byte /\ \A k \in Bits(d) : k < l
  <1>1. 2^l \in 1 .. 256
    BY SmallPower, Zenon
  <1>2. d \in Byte
    BY <1>1 DEF Byte, Width
  <1>3. d % 2^l = d
    <2> PICK p \in 1 .. 256 : p = 2^l
      BY <1>1
    <2>1. d % p = d
      BY ONLY p \in 1 .. 256, d \in Nat, d < 2^l, p = 2^l
    <2> QED  BY <2>1
  <1>4. Bits(d % 2^l) = {k \in Bits(d) : k < l}
    BY <1>2, LowBits
  <1> QED  BY <1>2, <1>3, <1>4

\* A field of l bits from bit off on lies in one byte, and d fits into it.
InByte(off, l, d) == off + l <= 8 /\ d < 2^l

\* A value in its place.
LEMMA PlacedBits ==
  ASSUME NEW off \in 0 .. 7, NEW l \in 0 .. 8, NEW d \in Nat, InByte(off, l, d)
  PROVE  /\ (d * 2^off) % Width = d * 2^off
         /\ Bits(d * 2^off) = {k \in off .. off + l - 1 : k - off \in Bits(d)}
  <1>0. off + l <= 8 /\ d < 2^l
    BY DEF InByte
  <1>1. d \in Byte /\ (\A k \in Bits(d) : k < l) /\ Bits(d) \subseteq 0 .. 7
    BY <1>0, SmallBits, EightBits
  <1>2. Bits(d) \subseteq 0 .. 7 - off
    BY <1>0, <1>1
  <1>3. d * 2^off \in Byte /\ Bits(d * 2^off) = {k \in 0 .. 7 : k - off \in Bits(d)}
    BY <1>1, <1>2, LeftBits DEF ShiftsLeft
  <1> DEFINE m == d * 2^off
  <1> HIDE DEF m
  <1>4. m \in Byte /\ Bits(m) = {k \in 0 .. 7 : k - off \in Bits(d)}
    BY <1>3 DEF m
  <1>5. m % Width = m
    BY <1>4 DEF Byte, Width
  <1>6. ASSUME NEW k \in Int
        PROVE  k \in Bits(m) <=> k \in off .. off + l - 1 /\ k - off \in Bits(d)
    BY <1>0, <1>1, <1>4
  <1>7. Bits(m) = {k \in off .. off + l - 1 : k - off \in Bits(d)}
    <2> DEFINE R == off .. off + l - 1
    <2>1. (\A k \in Int : k \in Bits(m) <=> k \in R /\ k - off \in Bits(d))
             /\ Bits(m) \subseteq Int
      BY <1>4, <1>6
    <2>2. \A k \in R : k \in Int
      OBVIOUS
    <2> HIDE DEF R
    <2>3. Bits(m) = {k \in R : k - off \in Bits(d)}
      BY ONLY <2>1, <2>2, Zenon
    <2> QED  BY <2>3 DEF R
  <1> QED  BY <1>5, <1>7 DEF m

\* valueListCodec: the value is in its field, the bits around are as they were.
LEMMA SetBitsSets ==
  ASSUME NEW et, BitOff(et) \in 0 .. 7, et.bitLen \in 0 .. 8, BitOff(et) + et.bitLen <= 8,
         NEW byte \in Byte, NEW d \in Nat, d < 2^et.bitLen
  PROVE  /\ SetBits(et, byte, d) \in Byte
         /\ (SetBits(et, byte, d) \div 2^BitOff(et)) % 2^et.bitLen = d
         /\ \A k \in Int : k \notin BitOff(et) .. BitOff(et) + et.bitLen - 1
              => (k \in Bits(SetBits(et, byte, d)) <=> k \in Bits(byte))
  <1> PICK off \in 0 .. 7, l \in 0 .. 8 : off = BitOff(et) /\ l = et.bitLen
    OBVIOUS
  <1> DEFINE set == SetBits(et, byte, d)
  <1>1. d \in Byte /\ (\A k \in Bits(d) : k < l) /\ Bits(d) \subseteq 0 .. 7
    BY SmallBits, EightBits
  <1>2. /\ (d * 2^off) % Width = d * 2^off
        /\ Bits(d * 2^off) = {k \in off .. off + l - 1 : k - off \in Bits(d)}
    <2>1. InByte(off, l, d)
      BY DEF InByte
    <2> QED  BY ONLY <2>1, PlacedBits, off \in 0 .. 7, l \in 0 .. 8, d \in Nat
  <1>3. set = Or(Clear(byte, off .. off + l - 1), d * 2^off)
    BY <1>2 DEF SetBits
  <1> HIDE DEF set
  <1>4. /\ set \in Byte
        /\ Bits(set) = (Bits(byte) \ (off .. off + l - 1))
                         \cup {k \in off .. off + l - 1 : k - off \in Bits(d)}
    <2> DEFINE rest == Clear(byte, off .. off + l - 1)
    <2>1. Bits(rest) = Bits(byte) \ (off .. off + l - 1)
      BY ClearBits
    <2> HIDE DEF rest
    <2>2. set = Or(rest, d * 2^off)
      BY <1>3 DEF rest
    <2>3. set \in Byte /\ Bits(set) = Bits(rest) \cup Bits(d * 2^off)
      BY <2>2, OrBits, Zenon
    <2> QED  BY <2>1, <2>3, <1>2, Zenon
  <1>5. (set \div 2^off) % 2^l = d
    <2> DEFINE x == (set \div 2^off) % 2^l
    <2>0. set \in Byte
      BY <1>4
    <2>1. x \in Byte /\ Bits(x) = {k \in 0 .. 7 : k < l /\ k + off \in Bits(set)}
      BY ONLY <2>0, FieldBits, off \in 0 .. 7, l \in 0 .. 8
    <2> HIDE DEF x
    <2>2. ASSUME NEW k \in 0 .. 7  PROVE k \in Bits(x) <=> k \in Bits(d)
      <3>1. CASE k < l
        <4>1. k + off \in off .. off + l - 1 /\ (k + off) - off = k
          BY <3>1
        <4> QED  BY <3>1, <4>1, <2>1, <1>4
      <3>2. CASE ~(k < l)
        BY <3>2, <2>1, <1>1
      <3> QED  BY <3>1, <3>2
    <2>3. Bits(x) = Bits(d)
      BY <2>2, <2>1, <1>1
    <2>4. x = d
      BY <2>1, <2>3, <1>1, SameBits
    <2> QED  BY <2>4 DEF x
  <1>6. \A k \in Int : k \notin off .. off + l - 1 => (k \in Bits(set) <=> k \in Bits(byte))
    BY <1>4
  <1> QED  BY <1>4, <1>5, <1>6 DEF set

\* divMulOffsetCodec: the same for the two halves of a byte.
LEMMA UpperNibble ==
  ASSUME NEW old \in Byte, NEW d \in 0 .. 15
  PROVE  /\ Or(old % 16, (d * 16) % Width) \in Byte
         /\ Or(old % 16, (d * 16) % Width) \div 16 = d
         /\ \A k \in Int : k \notin 4 .. 7
              => (k \in Bits(Or(old % 16, (d * 16) % Width)) <=> k \in Bits(old))
  <1> DEFINE set == Or(old % 16, (d * 16) % Width)
  <1>1. old % 16 \in Byte /\ Bits(old % 16) = {k \in Bits(old) : k < 4}
    BY LowBits, Weights
  <1>2. /\ (d * 16) % Width = d * 16
        /\ Bits(d * 16) = {k \in 4 .. 7 : k - 4 \in Bits(d)}
    <2>1. d \in Nat /\ 4 \in 0 .. 7 /\ 4 \in 0 .. 8 /\ InByte(4, 4, d)
      BY Weights DEF InByte
    <2>2. /\ (d * 2^4) % Width = d * 2^4
          /\ Bits(d * 2^4) = {k \in 4 .. 4 + 4 - 1 : k - 4 \in Bits(d)}
      BY ONLY <2>1, PlacedBits
    <2> QED  BY ONLY <2>2, Weights
  <1>3. set \in Byte /\ Bits(set) = Bits(old % 16) \cup Bits(d * 16)
    BY <1>2, OrBits
  <1> HIDE DEF set
  <1>4. set \div 16 \in Byte /\ Bits(set \div 16) = {k \in 0 .. 7 : k + 4 \in Bits(set)}
    BY <1>3, RightBits, Weights DEF ShiftsRight
  <1>5. d \in Byte /\ (\A k \in Bits(d) : k < 4) /\ Bits(d) \subseteq 0 .. 7
    BY SmallBits, EightBits, Weights
  <1>6. ASSUME NEW k \in 0 .. 7  PROVE k \in Bits(set \div 16) <=> k \in Bits(d)
    <2>1. CASE k < 4
      <3>1. k + 4 \in 4 .. 7 /\ (k + 4) - 4 = k
        BY <2>1
      <3> QED  BY <3>1, <1>1, <1>2, <1>3, <1>4
    <2>2. CASE ~(k < 4)
      <3>1. k \notin Bits(d) /\ k + 4 \notin 4 .. 7 /\ ~(k + 4 < 4)
        BY <2>2, <1>5
      <3> QED  BY <3>1, <1>1, <1>2, <1>3, <1>4
    <2> QED  BY <2>1, <2>2
  <1>7. set \div 16 = d
    <2>1. Bits(set \div 16) = Bits(d)
      BY <1>4, <1>5, <1>6
    <2> QED  BY <2>1, <1>4, <1>5, SameBits
  <1>8. \A k \in Int : k \notin 4 .. 7 => (k \in Bits(set) <=> k \in Bits(old))
    <2>1. Bits(old) \subseteq 0 .. 7
      BY EightBits
    <2> QED  BY <2>1, <1>1, <1>2, <1>3
  <1> QED  BY <1>3, <1>7, <1>8 DEF set

\* The same for the lower half (codec.go:242-246).
LEMMA LowerNibble ==
  ASSUME NEW old \in Byte, NEW d \in 0 .. 15
  PROVE  /\ Or(16 * (old \div 16), d) \in Byte
         /\ Or(16 * (old \div 16), d) % 16 = d
         /\ \A k \in Int : k \notin 0 .. 3
              => (k \in Bits(Or(16 * (old \div 16), d)) <=> k \in Bits(old))
  <1> DEFINE set == Or(16 * (old \div 16), d)
             top == old \div 16
  <1>1. /\ top \in Nat /\ top < 2^4 /\ Bits(old) \subseteq 0 .. 7
        /\ Bits(top) = {k \in 0 .. 7 : k + 4 \in Bits(old)}
    <2>1. old \in 0 .. 255
      BY DEF Byte, Width
    <2>2. top \in Nat /\ top < 2^4
      BY <2>1, Weights
    <2> QED  BY <2>2, RightBits, EightBits, Weights DEF ShiftsRight
  <1> HIDE DEF top
  <1>2. Bits(16 * top) = {k \in 4 .. 7 : k - 4 \in Bits(top)}
    <2>1. top \in Nat /\ 4 \in 0 .. 7 /\ 4 \in 0 .. 8 /\ InByte(4, 4, top)
      BY <1>1 DEF InByte
    <2>2. Bits(top * 2^4) = {k \in 4 .. 4 + 4 - 1 : k - 4 \in Bits(top)}
      BY ONLY <2>1, PlacedBits
    <2>3. top * 2^4 = 16 * top
      BY <1>1, Weights
    <2> QED  BY <2>2, <2>3
  <1>3. set \in Byte /\ Bits(set) = Bits(16 * top) \cup Bits(d)
    BY OrBits DEF top
  <1> HIDE DEF set
  <1>4. d \in Byte /\ (\A k \in Bits(d) : k < 4) /\ Bits(d) \subseteq 0 .. 7
    BY SmallBits, EightBits, Weights
  <1>5. set % 16 \in Byte /\ Bits(set % 16) = {k \in Bits(set) : k < 4}
    BY <1>3, LowBits, Weights
  <1>6. set % 16 = d
    <2> DEFINE x == set % 16
    <2> HIDE DEF x
    <2>1. x \in Byte /\ Bits(x) = {k \in Bits(16 * top) \cup Bits(d) : k < 4}
      BY <1>3, <1>5 DEF x
    <2>2. Bits(x) = Bits(d)
      BY <2>1, <1>2, <1>4
    <2> QED  BY <2>1, <2>2, <1>4, SameBits DEF x
  <1>7. ASSUME NEW k \in Int, k \notin 0 .. 3  PROVE k \in Bits(set) <=> k \in Bits(old)
    <2>1. CASE k \in 4 .. 7
      <3>1. k - 4 \in 0 .. 7 /\ (k - 4) + 4 = k
        BY <2>1
      <3> QED  BY <2>1, <3>1, <1>1, <1>2, <1>3, <1>4
    <2>2. CASE k \notin 4 .. 7
      BY <2>2, <1>7, <1>1, <1>2, <1>3, <1>4
    <2> QED  BY <2>1, <2>2
  <1> QED  BY <1>3, <1>6, <1>7 DEF set

-----------------------------------------------------------------------------
(* Numbers.                                                                  *)

LEMMA PlaceValue ==
  ASSUME NEW k \in 1 .. 5
  PROVE  Width^(k - 1) \in Nat \ {0}
  <1>1. CASE k = 1
    BY <1>1, SMT DEF Width
  <1>2. CASE k = 2
    BY <1>2, SMT DEF Width
  <1>3. CASE k = 3
    BY <1>3, SMT DEF Width
  <1>4. CASE k = 4
    BY <1>4, SMT DEF Width
  <1>5. CASE k = 5
    BY <1>5, SMT DEF Width
  <1> QED  BY <1>1, <1>2, <1>3, <1>4, <1>5

\* ToLE gives bytes, as many as asked for.
LEMMA ToLEBytes ==
  ASSUME NEW v \in Int, NEW n \in Nat
  PROVE  /\ ToLE(v, n) \in [1 .. n -> Byte] /\ ToLE(v, n) \in Seq(Byte)
         /\ Len(ToLE(v, n)) = n
  <1>1. ASSUME NEW k \in 1 .. n
        PROVE  (IF k <= 5 THEN (v \div Width^(k - 1)) % Width
                ELSE IF v < 0 /\ k <= 8 THEN Width - 1 ELSE 0) \in Byte
    <2>1. CASE k <= 5
      <3>1. Width^(k - 1) \in Nat \ {0}
        BY <2>1, PlaceValue
      <3> DEFINE p == Width^(k - 1)
      <3> HIDE DEF p
      <3>2. (v \div p) % Width \in Byte
        BY <3>1 DEF p, Byte, Width
      <3> QED  BY <2>1, <3>2 DEF p
    <2>2. CASE ~(k <= 5)
      BY <2>2 DEF Byte, Width
    <2> QED  BY <2>1, <2>2
  <1>2. ToLE(v, n) \in [1 .. n -> Byte]
    BY <1>1 DEF ToLE
  <1> QED  BY <1>2

\* The digits of a number make the number, up to its width.
LEMMA Radix ==
  ASSUME NEW v \in Int
  PROVE  /\ v % Width = v % Width^1
         /\ (v % Width) + Width * ((v \div Width^1) % Width) = v % Width^2
         /\ (v % Width) + Width * (((v \div Width^1) % Width)
              + Width * ((v \div Width^2) % Width)) = v % Width^3
         /\ (v % Width) + Width * (((v \div Width^1) % Width)
              + Width * (((v \div Width^2) % Width)
              + Width * ((v \div Width^3) % Width))) = v % Width^4
  <1>1. v % Width = v % Width^1
    BY SMT DEF Width
  <1>2. (v % Width) + Width * ((v \div Width^1) % Width) = v % Width^2
    BY SMT DEF Width
  <1>3. (v % Width) + Width * (((v \div Width^1) % Width)
              + Width * ((v \div Width^2) % Width)) = v % Width^3
    BY SMT DEF Width
  <1>4. (v % Width) + Width * (((v \div Width^1) % Width)
              + Width * (((v \div Width^2) % Width)
              + Width * ((v \div Width^3) % Width))) = v % Width^4
    BY SMT DEF Width
  <1> QED  BY <1>1, <1>2, <1>3, <1>4

\* The first four bytes, whatever is said of the others.
LEMMA ToLEDigits ==
  ASSUME NEW v \in Int, NEW n \in 1 .. 4
  PROVE  /\ Digit(ToLE(v, n), 1) = v % Width
         /\ Digit(ToLE(v, n), 2) = IF 2 <= n THEN (v \div Width^1) % Width ELSE 0
         /\ Digit(ToLE(v, n), 3) = IF 3 <= n THEN (v \div Width^2) % Width ELSE 0
         /\ Digit(ToLE(v, n), 4) = IF 4 <= n THEN (v \div Width^3) % Width ELSE 0
         /\ \A k \in 5 .. 8 : Digit(ToLE(v, n), k) = 0
  <1>1. Len(ToLE(v, n)) = n
    BY ToLEBytes
  <1>2. ASSUME NEW k \in 1 .. n  PROVE ToLE(v, n)[k] = (v \div Width^(k - 1)) % Width
    BY DEF ToLE
  <1>3. v \div Width^(1 - 1) = v
    BY SMT DEF Width
  <1> DEFINE c == ToLE(v, n)
             d(k) == (v \div Width^(k - 1)) % Width
  <1> HIDE DEF c, d
  <1>4. \A k \in 1 .. 8 : Digit(c, k) = IF k <= n THEN d(k) ELSE 0
    BY <1>1, <1>2 DEF Digit, c, d
  <1>5. Digit(c, 1) = d(1) /\ \A k \in 5 .. 8 : Digit(c, k) = 0
    BY <1>4
  <1>6. /\ Digit(c, 2) = IF 2 <= n THEN d(2) ELSE 0
        /\ Digit(c, 3) = IF 3 <= n THEN d(3) ELSE 0
        /\ Digit(c, 4) = IF 4 <= n THEN d(4) ELSE 0
    BY <1>4
  <1>7. d(1) = v % Width /\ d(2) = (v \div Width^1) % Width
          /\ d(3) = (v \div Width^2) % Width /\ d(4) = (v \div Width^3) % Width
    BY <1>3 DEF d
  <1> QED  BY <1>5, <1>6, <1>7 DEF c

\* What is written to one to four bytes is read back, up to its width.
LEMMA NumberBack ==
  ASSUME NEW v \in Int, NEW n \in 1 .. 4
  PROVE  FromLE(ToLE(v, n)) = v % Width^n
  <1> DEFINE c == ToLE(v, n)
  <1> HIDE DEF c
  <1>1. /\ Digit(c, 1) = v % Width
        /\ Digit(c, 2) = IF 2 <= n THEN (v \div Width^1) % Width ELSE 0
        /\ Digit(c, 3) = IF 3 <= n THEN (v \div Width^2) % Width ELSE 0
        /\ Digit(c, 4) = IF 4 <= n THEN (v \div Width^3) % Width ELSE 0
        /\ Digit(c, 5) = 0 /\ Digit(c, 6) = 0 /\ Digit(c, 7) = 0 /\ Digit(c, 8) = 0
    BY ToLEDigits DEF c
  <1> PICK d1 \in Int, d2 \in Int, d3 \in Int, d4 \in Int :
             /\ d1 = v % Width /\ d2 = (v \div Width^1) % Width
             /\ d3 = (v \div Width^2) % Width /\ d4 = (v \div Width^3) % Width
    BY SMT DEF Width
  <1>2. /\ d1 = v % Width^1 /\ d1 + Width * d2 = v % Width^2
        /\ d1 + Width * (d2 + Width * d3) = v % Width^3
        /\ d1 + Width * (d2 + Width * (d3 + Width * d4)) = v % Width^4
    BY Radix
  <1>3. FromLE(c) = d1 + Width * ((IF 2 <= n THEN d2 ELSE 0)
                      + Width * ((IF 3 <= n THEN d3 ELSE 0)
                      + Width * (IF 4 <= n THEN d4 ELSE 0)))
    <2> DEFINE e2 == IF 2 <= n THEN d2 ELSE 0
               e3 == IF 3 <= n THEN d3 ELSE 0
               e4 == IF 4 <= n THEN d4 ELSE 0
    <2>1. e2 \in Int /\ e3 \in Int /\ e4 \in Int
      OBVIOUS
    <2>2. /\ Digit(c, 1) = d1 /\ Digit(c, 2) = e2 /\ Digit(c, 3) = e3 /\ Digit(c, 4) = e4
          /\ Digit(c, 5) = 0 /\ Digit(c, 6) = 0 /\ Digit(c, 7) = 0 /\ Digit(c, 8) = 0
      BY <1>1
    <2> HIDE DEF e2, e3, e4
    <2>3. FromLE(c) = d1 + Width * (e2 + Width * (e3 + Width * e4))
      BY ONLY <2>1, <2>2, d1 \in Int, SMT DEF FromLE, Width
    <2> QED  BY <2>3 DEF e2, e3, e4
  <1>4. CASE n = 1
    BY <1>2, <1>3, <1>4 DEF c, Width
  <1>5. CASE n = 2
    BY <1>2, <1>3, <1>5 DEF c, Width
  <1>6. CASE n = 3
    BY <1>2, <1>3, <1>6 DEF c, Width
  <1>7. CASE n = 4
    BY <1>2, <1>3, <1>7 DEF c, Width
  <1> QED  BY <1>4, <1>5, <1>6, <1>7

\* Numbers of one to four bytes are read back,
LEMMA UnsignedBack ==
  ASSUME NEW v \in Int, NEW n \in 1 .. 4, 0 <= v, v < Width^n
  PROVE  v % Width^n = v
  <1>1. CASE n = 1
    BY <1>1, SMT DEF Width
  <1>2. CASE n = 2
    BY <1>2, SMT DEF Width
  <1>3. CASE n = 3
    BY <1>3, SMT DEF Width
  <1>4. CASE n = 4
    BY <1>4, SMT DEF Width
  <1> QED  BY <1>1, <1>2, <1>3, <1>4

\* signed ones, too.
LEMMA SignedBack ==
  ASSUME NEW v \in Int, NEW n \in 1 .. 4,
         -(Width^n \div 2) <= v, v < -(Width^n \div 2) + Width^n
  PROVE  Signed(v % Width^n, n) = v
  <1>1. CASE n = 1
    BY <1>1, SMT DEF Width, Signed
  <1>2. CASE n = 2
    BY <1>2, SMT DEF Width, Signed
  <1>3. CASE n = 3
    BY <1>3, SMT DEF Width, Signed
  <1>4. CASE n = 4
    BY <1>4, SMT DEF Width, Signed
  <1> QED  BY <1>1, <1>2, <1>3, <1>4

-----------------------------------------------------------------------------
(* Blocks.                                                                   *)

\* Put changes what it is given, and nothing else.
LEMMA PutBytes ==
  ASSUME NEW b \in Seq(Byte), NEW i \in Nat, NEW new \in Seq(Byte),
         i + Len(new) <= Len(b)
  PROVE  /\ Put(b, i, new) \in Seq(Byte) /\ Len(Put(b, i, new)) = Len(b)
         /\ \A a \in 1 .. Len(b) :
              Put(b, i, new)[a] = IF i < a /\ a <= i + Len(new) THEN new[a - i] ELSE b[a]
  <1> DEFINE head == SubSeq(b, 1, i)
             tail == SubSeq(b, i + 1 + Len(new), Len(b))
  <1>1. Len(b) \in Nat /\ Len(new) \in Nat
    OBVIOUS
  <1>2. /\ head \in Seq(Byte) /\ Len(head) = i
        /\ \A k \in 1 .. i : head[k] = b[k]
    BY <1>1
  <1>3. /\ tail \in Seq(Byte) /\ Len(tail) = Len(b) - (i + Len(new))
        /\ \A k \in 1 .. Len(b) - (i + Len(new)) : tail[k] = b[i + Len(new) + k]
    BY <1>1
  <1> HIDE DEF head, tail
  <1> DEFINE both == head \o new
  <1>4. /\ both \in Seq(Byte) /\ Len(both) = i + Len(new)
        /\ \A k \in 1 .. i + Len(new) : both[k] = IF k <= i THEN head[k] ELSE new[k - i]
    BY <1>1, <1>2
  <1> HIDE DEF both
  <1> DEFINE all == both \o tail
  <1>5. /\ all \in Seq(Byte) /\ Len(all) = Len(b)
        /\ \A k \in 1 .. Len(b) :
             all[k] = IF k <= i + Len(new) THEN both[k] ELSE tail[k - (i + Len(new))]
    BY <1>1, <1>3, <1>4
  <1>6. Put(b, i, new) = all
    BY DEF Put, head, tail, both
  <1> HIDE DEF all
  <1>7. ASSUME NEW a \in 1 .. Len(b)
        PROVE  all[a] = IF i < a /\ a <= i + Len(new) THEN new[a - i] ELSE b[a]
    <2>1. CASE a <= i
      <3>1. a \in 1 .. i + Len(new) /\ a \in 1 .. i /\ a <= i + Len(new)
        BY <2>1, <1>1
      <3> QED  BY <2>1, <3>1, <1>1, <1>2, <1>4, <1>5
    <2>2. CASE i < a /\ a <= i + Len(new)
      <3>1. a \in 1 .. i + Len(new) /\ ~(a <= i)
        BY <2>2, <1>1
      <3> QED  BY <2>2, <3>1, <1>4, <1>5
    <2>3. CASE i + Len(new) < a
      <3>1. /\ a - (i + Len(new)) \in 1 .. Len(b) - (i + Len(new))
            /\ i + Len(new) + (a - (i + Len(new))) = a /\ ~(a <= i + Len(new))
        BY <2>3, <1>1
      <3>2. all[a] = b[a]
        BY <3>1, <1>3, <1>5
      <3> QED  BY <3>1, <3>2
    <2> QED  BY <2>1, <2>2, <2>3, <1>1
  <1> QED  BY <1>5, <1>6, <1>7

LEMMA FunctionIsSeq ==
  ASSUME NEW n \in Nat, NEW S, NEW f \in [1 .. n -> S]
  PROVE  f \in Seq(S) /\ Len(f) = n
  OBVIOUS

\* Turned around twice, two bytes are what they were.
LEMMA ReverseTwo ==
  ASSUME NEW s \in Seq(Byte), Len(s) = 2
  PROVE  Reverse(s) \in Seq(Byte) /\ Len(Reverse(s)) = 2 /\ Reverse(Reverse(s)) = s
  <1> DEFINE r == Reverse(s)
  <1>1. /\ r \in [1 .. 2 -> Byte] /\ r[1] = s[2] /\ r[2] = s[1]
    BY DEF Reverse
  <1> HIDE DEF r
  <1>2. r \in Seq(Byte) /\ Len(r) = 2
    <2>1. r \in [1 .. 2 -> Byte] /\ 2 \in Nat
      BY <1>1
    <2> QED  BY <2>1, FunctionIsSeq
  <1>3. /\ Reverse(r) \in [1 .. 2 -> Byte]
        /\ Reverse(r)[1] = r[2] /\ Reverse(r)[2] = r[1]
    BY <1>1, <1>2 DEF Reverse
  <1>4. Reverse(r) = s
    BY <1>1, <1>3
  <1> QED  BY <1>2, <1>4 DEF r

-----------------------------------------------------------------------------
(* Dates.                                                                    *)

TwoDigit == 0 .. 99

\* BCD of two digits is undone.
LEMMA BCDByte ==
  ASSUME NEW n \in TwoDigit
  PROVE  ToBCD(n) \in Byte /\ FromBCD(ToBCD(n)) = n
  BY SMT DEF TwoDigit, ToBCD, FromBCD, Byte, Width

LEMMA YearSplit ==
  ASSUME NEW y, y \in Nat, y < 100 * 100
  PROVE  y \div 100 \in TwoDigit /\ y % 100 \in TwoDigit /\ (y \div 100) * 100 + (y % 100) = y
  BY SMT DEF TwoDigit

LEMMA LesserOfTwo ==
  ASSUME NEW m \in Int, NEW n \in Int
  PROVE  Min({m, n}) = IF m <= n THEN m ELSE n
  BY DEF Min

LEMMA GreaterOfTwo ==
  ASSUME NEW m \in Int, NEW n \in Int
  PROVE  Max({m, n}) = IF m >= n THEN m ELSE n
  BY DEF Max

-----------------------------------------------------------------------------
(* What an encoder that reports no error does to the block.                  *)

\* What fits the bytes of a date.
Calendar(v) ==
  /\ v.year \in Nat /\ v.year < 100 * 100
  /\ v.month \in TwoDigit /\ v.day \in TwoDigit /\ v.wday \in TwoDigit
  /\ v.hour \in TwoDigit /\ v.min \in TwoDigit /\ v.sec \in TwoDigit

\* A date is made of its parts, whatever these are.
LEMMA DateFields ==
  ASSUME NEW Y, NEW M, NEW D, NEW W, NEW H, NEW N, NEW S,
         NEW v \in [kind : {"date"}, year : Y, month : M, day : D, wday : W, hour : H,
                    min : N, sec : S]
  PROVE  /\ v.kind = "date" /\ v.year \in Y /\ v.month \in M /\ v.day \in D
         /\ v.wday \in W /\ v.hour \in H /\ v.min \in N /\ v.sec \in S
         /\ v = [kind |-> "date", year |-> v.year, month |-> v.month, day |-> v.day,
                 wday |-> v.wday, hour |-> v.hour, min |-> v.min, sec |-> v.sec]
  OBVIOUS

LEMMA SmallYear ==
  ASSUME NEW y \in Years
  PROVE  y \in Nat /\ y < 100 * 100
  BY DEF Years

LEMMA TwoDigits ==
  /\ 1 .. 12 \subseteq TwoDigit /\ 1 .. 31 \subseteq TwoDigit /\ 1 .. 7 \subseteq TwoDigit
  /\ 0 .. 23 \subseteq TwoDigit /\ 0 .. 59 \subseteq TwoDigit /\ 0 \in TwoDigit
  BY DEF TwoDigit

LEMMA DateIs ==
  ASSUME NEW v \in Moment
  PROVE  /\ v.kind = "date" /\ Calendar(v)
         /\ v = [kind |-> "date", year |-> v.year, month |-> v.month, day |-> v.day,
                 wday |-> v.wday, hour |-> v.hour, min |-> v.min, sec |-> v.sec]
  <1>1. /\ v.kind = "date" /\ v.year \in Years /\ v.month \in 1 .. 12
        /\ v.day \in 1 .. 31 /\ v.wday \in 1 .. 7 /\ v.hour \in 0 .. 23
        /\ v.min \in 0 .. 59 /\ v.sec \in 0 .. 59
        /\ v = [kind |-> "date", year |-> v.year, month |-> v.month, day |-> v.day,
                wday |-> v.wday, hour |-> v.hour, min |-> v.min, sec |-> v.sec]
    BY DateFields, Zenon DEF Moment
  <1>2. v.year \in Nat /\ v.year < 100 * 100
    BY ONLY <1>1, SmallYear, Zenon
  <1>3. /\ v.month \in TwoDigit /\ v.day \in TwoDigit /\ v.wday \in TwoDigit
        /\ v.hour \in TwoDigit /\ v.min \in TwoDigit /\ v.sec \in TwoDigit
    BY ONLY <1>1, TwoDigits, Zenon
  <1> QED  BY <1>1, <1>2, <1>3, Zenon DEF Calendar

\* The values that can be written, by kind.
LEMMA ValueKinds ==
  ASSUME NEW v \in Value
  PROVE  /\ v.kind \in {"num", "dur", "text", "date"}
         /\ v.kind \in {"num", "dur"} => v.n \in Int /\ v = [kind |-> v.kind, n |-> v.n]
         /\ v.kind = "date" => v \in Moment
  <1>1. CASE v \in [kind : {"num", "dur"}, n : Int]
    BY <1>1
  <1>2. CASE v \in [kind : {"text"}]
    BY <1>2
  <1>3. CASE v \in Moment
    BY <1>3, DateIs
  <1> QED  BY <1>1, <1>2, <1>3, Zenon DEF Value

LEMMA ValueParts ==
  ASSUME NEW v \in Value
  PROVE  /\ v.kind \in {"num", "dur"} => v.n \in Int
         /\ v.kind \in {"num", "dur", "text", "date"}
         /\ v.kind = "date" => Calendar(v)
  BY ValueKinds, DateIs, Zenon

\* The numbers of an event type, as far as they are numbers.
Numbers(et) ==
  /\ et.len \in Byte /\ et.factor \in Byte /\ et.pos \in Byte /\ et.blen \in Byte
  /\ et.bitPos \in Byte /\ et.bitLen \in Byte /\ et.lower \in Int /\ et.upper \in Int
  /\ et.scale \in Nat /\ et.offset \in Int /\ (Scales(et) => et.scale > 0)

LEMMA NumbersParts ==
  ASSUME NEW et, Numbers(et)
  PROVE  /\ et.len \in Nat /\ et.pos \in Nat /\ et.blen \in Nat /\ et.bitPos \in Nat
         /\ et.bitLen \in Nat /\ et.blen < Width
         /\ BitByte(et) \in Nat /\ BitOff(et) \in 0 .. 7
  <1>1. /\ et.len \in 0 .. 255 /\ et.pos \in 0 .. 255 /\ et.blen \in 0 .. 255
        /\ et.bitPos \in 0 .. 255 /\ et.bitLen \in 0 .. 255
    BY DEF Numbers, Byte, Width
  <1>2. BitByte(et) \in Nat /\ BitOff(et) \in 0 .. 7
    BY <1>1, SMTT(30) DEF BitByte, BitOff
  <1> QED  BY <1>1, <1>2, SMTT(30) DEF Width

\* What each Encode changes of a block: a bit field, or one or two bytes,
LEMMA ListPatch ==
  ASSUME NEW et, Numbers(et), NEW b \in Seq(Byte), NEW v \in Value,
         EncodeList(et, b, v).out = "ok"
  PROVE  /\ v.kind = "num" /\ v.n \in Int /\ et.bitLen \in 0 .. 8
         /\ et.bitLen > 0 =>
              /\ BitByte(et) < Len(b) /\ BitByte(et) + 1 \in 1 .. Len(b)
              /\ b[BitByte(et) + 1] \in Byte
              /\ SetBits(et, b[BitByte(et) + 1], v.n % Width) \in Byte
              /\ EncodeList(et, b, v).val
                   = Put(b, BitByte(et), <<SetBits(et, b[BitByte(et) + 1], v.n % Width)>>)
         /\ ~(et.bitLen > 0) =>
              /\ et.pos + (IF et.blen = 1 THEN 1 ELSE 2) <= Len(b)
              /\ EncodeList(et, b, v).val
                   = Put(b, et.pos, ToLE(v.n, IF et.blen = 1 THEN 1 ELSE 2))
  <1>1. et.bitLen \in Nat /\ et.pos \in Nat /\ BitByte(et) \in Nat /\ Len(b) \in Nat
    BY NumbersParts
  <1>2. Err.out # "ok" /\ Panics.out # "ok" /\ \A x : Good(x).val = x
    BY DEF Err, Panics, Good
  <1>3. ~(et.bitLen > 8) /\ v.kind = "num"
    BY <1>2 DEF EncodeList
  <1>4. v.n \in Int /\ et.bitLen \in 0 .. 8
    <2>1. v.n \in Int
      BY <1>3, ValueParts, Zenon
    <2>2. et.bitLen \in 0 .. 8
      BY ONLY <1>1, <1>3
    <2> QED  BY <2>1, <2>2
  <1>5. CASE et.bitLen > 0
    <2>1. BitByte(et) < Len(b) /\ BitByte(et) + 1 \in 1 .. Len(b)
      BY <1>1, <1>2, <1>3, <1>5 DEF EncodeList, Has
    <2>2. EncodeList(et, b, v).val
            = Put(b, BitByte(et), <<SetBits(et, b[BitByte(et) + 1], v.n % Width)>>)
      BY <1>2, <1>3, <1>5, <2>1 DEF EncodeList, Has, At
    <2>3. SetBits(et, b[BitByte(et) + 1], v.n % Width) \in Byte
      BY OrBits DEF SetBits
    <2> QED  BY <1>3, <1>4, <1>5, <2>1, <2>2, <2>3
  <1>6. CASE ~(et.bitLen > 0)
    <2> DEFINE n == IF et.blen = 1 THEN 1 ELSE 2
    <2>1. EncodeList(et, b, v) = IF ~Has(b, et.pos + n - 1) THEN Panics
                                 ELSE Good(Put(b, et.pos, ToLE(v.n, n)))
      BY <1>3, <1>6 DEF EncodeList
    <2>2. n \in {1, 2}
      OBVIOUS
    <2> HIDE DEF n
    <2>3. Has(b, et.pos + n - 1) /\ EncodeList(et, b, v).val = Put(b, et.pos, ToLE(v.n, n))
      BY <1>2, <2>1
    <2>4. et.pos + n <= Len(b)
      BY <1>1, <2>2, <2>3 DEF Has
    <2> QED  BY <1>3, <1>4, <1>6, <2>3, <2>4 DEF n
  <1> QED  BY <1>5, <1>6

LEMMA WithinInt ==
  ASSUME NEW et, Numbers(et), NEW n \in Int
  PROVE  Within(et, n) \in Int
  <1>1. et.lower \in Int /\ et.upper \in Int
    BY DEF Numbers
  <1>2. Max({et.lower, n}) \in Int
    BY <1>1, GreaterOfTwo
  <1>3. Min({et.upper, Max({et.lower, n})}) \in Int
    BY <1>1, <1>2, LesserOfTwo
  <1> QED  BY <1>3 DEF Within

\* a nibble or the bytes of a number,
LEMMA NumberPatch ==
  ASSUME NEW et, Numbers(et), NEW b \in Seq(Byte), NEW v \in Value,
         EncodeNumber(et, b, v).out = "ok",
         NEW c, c = ToLE(v.n, et.blen)
  PROVE  /\ v.kind = "num" /\ v.n \in Int /\ ~NumberRefused(et, b)
         /\ et.blen \in 1 .. 4 /\ et.pos + et.blen <= Len(b)
         /\ c \in Seq(Byte) /\ Len(c) = et.blen /\ c[1] \in Byte
         /\ Nibble(et) => et.blen = 1
         /\ IF Nibble(et) /\ ~IsSigned(et)
            THEN EncodeNumber(et, b, v).val
                   = IF et.bitPos = 0
                     THEN Put(b, et.pos, <<Or(b[et.pos + 1] % 16, (c[1] * 16) % Width)>>)
                     ELSE IF et.bitPos = 4
                     THEN Put(b, et.pos, <<Or(16 * (b[et.pos + 1] \div 16), c[1])>>)
                     ELSE b
            ELSE EncodeNumber(et, b, v).val
                   = Put(b, et.pos, IF BigEndian(et) THEN Reverse(c) ELSE c)
  <1>1. et.bitLen \in Nat /\ et.pos \in Nat /\ et.blen \in Nat /\ Len(b) \in Nat
    BY NumbersParts
  <1>2. Err.out # "ok" /\ \A x : Good(x).val = x
    BY DEF Err, Good
  <1>3. ~NumberRefused(et, b) /\ v.kind = "num"
    BY <1>2 DEF EncodeNumber
  <1>4. v.n \in Int
    BY <1>3, ValueParts
  <1>5. et.blen \in 1 .. 4 /\ et.pos + et.blen <= Len(b) /\ (Nibble(et) => et.blen = 1)
    BY <1>1, <1>3 DEF NumberRefused, Nibble
  <1>6. c \in Seq(Byte) /\ Len(c) = et.blen /\ c \in [1 .. et.blen -> Byte]
    BY <1>1, <1>4, ToLEBytes
  <1>7. c[1] \in Byte
    BY <1>5, <1>6
  <1>8. IF Nibble(et) /\ ~IsSigned(et)
        THEN EncodeNumber(et, b, v).val
               = IF et.bitPos = 0
                 THEN Put(b, et.pos, <<Or(b[et.pos + 1] % 16, (c[1] * 16) % Width)>>)
                 ELSE IF et.bitPos = 4
                 THEN Put(b, et.pos, <<Or(16 * (b[et.pos + 1] \div 16), c[1])>>)
                 ELSE b
        ELSE EncodeNumber(et, b, v).val
               = Put(b, et.pos, IF BigEndian(et) THEN Reverse(c) ELSE c)
    BY <1>2, <1>3 DEF EncodeNumber, At
  <1> QED  BY <1>3, <1>4, <1>5, <1>6, <1>7, <1>8

\* In the order of the event type.
LEMMA OrderedBytes ==
  ASSUME NEW et, NEW c \in Seq(Byte), Len(c) = et.blen
  PROVE  /\ (IF BigEndian(et) THEN Reverse(c) ELSE c) \in Seq(Byte)
         /\ Len(IF BigEndian(et) THEN Reverse(c) ELSE c) = et.blen
  BY ReverseTwo DEF BigEndian

LEMMA DateParts ==
  ASSUME NEW v, Calendar(v)
  PROVE  /\ DateBytes(v) \in [1 .. 8 -> Byte] /\ DateBytes(v) \in Seq(Byte)
         /\ Len(DateBytes(v)) = 8
         /\ FromBCD(DateBytes(v)[1]) * 100 + FromBCD(DateBytes(v)[2]) = v.year
         /\ FromBCD(DateBytes(v)[3]) = v.month /\ FromBCD(DateBytes(v)[4]) = v.day
         /\ FromBCD(DateBytes(v)[6]) = v.hour /\ FromBCD(DateBytes(v)[7]) = v.min
         /\ FromBCD(DateBytes(v)[8]) = v.sec
  <1>1. /\ v.month \in TwoDigit /\ v.day \in TwoDigit
        /\ v.wday \in TwoDigit /\ v.hour \in TwoDigit /\ v.min \in TwoDigit /\ v.sec \in TwoDigit
    BY DEF Calendar
  <1>2. /\ v.year \div 100 \in TwoDigit /\ v.year % 100 \in TwoDigit
        /\ (v.year \div 100) * 100 + (v.year % 100) = v.year
    <2>1. v.year \in Nat /\ v.year < 100 * 100
      BY DEF Calendar
    <2> QED  BY <2>1, YearSplit
  <1> DEFINE c == DateBytes(v)
  <1>3. /\ Len(c) = 8 /\ c[1] = ToBCD(v.year \div 100) /\ c[2] = ToBCD(v.year % 100)
        /\ c[3] = ToBCD(v.month) /\ c[4] = ToBCD(v.day) /\ c[5] = ToBCD(v.wday)
        /\ c[6] = ToBCD(v.hour) /\ c[7] = ToBCD(v.min) /\ c[8] = ToBCD(v.sec)
        /\ DOMAIN c = 1 .. 8
    BY DEF DateBytes
  <1>4. c = [k \in 1 .. 8 |-> c[k]]
    BY DEF DateBytes
  <1> HIDE DEF c
  <1> DEFINE Kept(n) == ToBCD(n) \in Byte /\ FromBCD(ToBCD(n)) = n
  <1>5. \A n \in TwoDigit : Kept(n)
    BY BCDByte
  <1> HIDE DEF Kept
  <1>6. /\ Kept(v.year \div 100) /\ Kept(v.year % 100) /\ Kept(v.month) /\ Kept(v.day)
        /\ Kept(v.wday) /\ Kept(v.hour) /\ Kept(v.min) /\ Kept(v.sec)
    <2>1. Kept(v.year \div 100) /\ Kept(v.year % 100)
      BY <1>2, <1>5, Zenon
    <2>2. Kept(v.month) /\ Kept(v.day) /\ Kept(v.wday)
      BY <1>1, <1>5, Zenon
    <2>3. Kept(v.hour) /\ Kept(v.min) /\ Kept(v.sec)
      BY <1>1, <1>5, Zenon
    <2> QED  BY <2>1, <2>2, <2>3
  <1>7. /\ c[1] \in Byte /\ c[2] \in Byte /\ c[3] \in Byte /\ c[4] \in Byte
        /\ c[5] \in Byte /\ c[6] \in Byte /\ c[7] \in Byte /\ c[8] \in Byte
    BY <1>3, <1>6 DEF Kept
  <1>8. c \in [1 .. 8 -> Byte]
    <2>1. \A k \in 1 .. 8 : c[k] \in Byte
      BY <1>7
    <2> QED  BY <1>4, <2>1
  <1>9. c \in Seq(Byte)
    BY <1>8, FunctionIsSeq
  <1>10. /\ FromBCD(c[1]) = v.year \div 100 /\ FromBCD(c[2]) = v.year % 100
        /\ FromBCD(c[3]) = v.month /\ FromBCD(c[4]) = v.day
        /\ FromBCD(c[6]) = v.hour /\ FromBCD(c[7]) = v.min /\ FromBCD(c[8]) = v.sec
    BY <1>3, <1>6 DEF Kept
  <1> QED  BY <1>2, <1>3, <1>8, <1>9, <1>10 DEF c

\* A date without a time is midnight.
Midnight(v) == [v EXCEPT !.hour = 0, !.min = 0, !.sec = 0]

LEMMA MidnightParts ==
  ASSUME NEW v \in Value, v.kind = "date"
  PROVE  /\ Calendar(Midnight(v)) /\ Midnight(v).kind = "date"
         /\ Midnight(v).year = v.year /\ Midnight(v).month = v.month
         /\ Midnight(v).day = v.day /\ Midnight(v).wday = v.wday
         /\ Midnight(v).hour = 0 /\ Midnight(v).min = 0 /\ Midnight(v).sec = 0
  <1> DEFINE mid == Midnight(v)
  <1>1. Calendar(v) /\ 0 \in TwoDigit
    BY ValueKinds, DateIs, TwoDigits, Zenon
  <1>2. /\ mid.kind = "date" /\ mid.year = v.year /\ mid.month = v.month
        /\ mid.day = v.day /\ mid.wday = v.wday
        /\ mid.hour = 0 /\ mid.min = 0 /\ mid.sec = 0
    <2>1. v = [kind |-> "date", year |-> v.year, month |-> v.month, day |-> v.day,
               wday |-> v.wday, hour |-> v.hour, min |-> v.min, sec |-> v.sec]
      BY ValueKinds, DateIs, Zenon
    <2> QED  BY ONLY <2>1 DEF mid, Midnight
  <1> HIDE DEF mid
  <1>3. Calendar(mid)
    BY <1>1, <1>2, Zenon DEF Calendar
  <1> QED  BY <1>2, <1>3, Zenon DEF mid

\* The block val is b with the day of v in it, as far as b goes.
DayPut(et, b, v, val) ==
  \E n \in 4 .. 8, new \in Seq(Byte) :
    /\ n = Min({8, Len(b) - et.pos}) /\ et.pos + n <= Len(b)
    /\ val = Put(b, et.pos, new)
    /\ Len(new) = n /\ \A k \in 1 .. n : new[k] = DateBytes(Midnight(v))[k]

\* the eight bytes of a date,
LEMMA DateTimePatch ==
  ASSUME NEW et, Numbers(et), NEW b \in Seq(Byte), NEW v \in Value,
         EncodeDateTime(et, b, v).out = "ok"
  PROVE  /\ v.kind = "date" /\ et.pos + 8 <= Len(b)
         /\ EncodeDateTime(et, b, v).val = Put(b, et.pos, DateBytes(v))
  <1>1. et.pos \in Nat /\ Len(b) \in Nat
    BY NumbersParts
  <1>2. Err.out # "ok" /\ Panics.out # "ok" /\ \A x : Good(x).val = x
    BY DEF Err, Panics, Good
  <1>3. ~(Len(b) < et.pos + 8)
    BY <1>2 DEF EncodeDateTime
  <1>4. Dated(v, Good(Put(b, et.pos, DateBytes(v)))).out = "ok"
          /\ EncodeDateTime(et, b, v) = Dated(v, Good(Put(b, et.pos, DateBytes(v))))
    BY <1>3 DEF EncodeDateTime
  <1>5. v.kind = "date"
    BY <1>2, <1>4, ValueParts DEF Dated
  <1> QED  BY <1>1, <1>2, <1>3, <1>4, <1>5 DEF Dated

\* as many of them as fit,
LEMMA DatePatch ==
  ASSUME NEW et, Numbers(et), NEW b \in Seq(Byte), NEW v \in Value,
         EncodeDate(et, b, v).out = "ok"
  PROVE  v.kind = "date" /\ DayPut(et, b, v, EncodeDate(et, b, v).val)
  <1> PICK n : n = Min({8, Len(b) - et.pos})
    OBVIOUS
  <1> PICK new : new = SubSeq(DateBytes(Midnight(v)), 1, n)
    OBVIOUS
  <1>1. et.pos \in Nat /\ Len(b) \in Nat
    BY NumbersParts
  <1>2. Err.out # "ok" /\ Panics.out # "ok" /\ \A x : Good(x).val = x
    BY DEF Err, Panics, Good
  <1>3. ~(Len(b) < et.pos + 4)
    BY <1>2 DEF EncodeDate
  <1>4. EncodeDate(et, b, v) = Dated(v, Good(Put(b, et.pos, new)))
    BY <1>3 DEF EncodeDate, Midnight
  <1>5. v.kind = "date"
    BY <1>2, <1>4, ValueParts DEF Dated
  <1>6. EncodeDate(et, b, v).val = Put(b, et.pos, new)
    BY <1>2, <1>4, <1>5 DEF Dated
  <1>7. n \in 4 .. 8 /\ et.pos + n <= Len(b)
    <2>1. Min({8, Len(b) - et.pos}) = IF 8 <= Len(b) - et.pos THEN 8 ELSE Len(b) - et.pos
      BY <1>1, LesserOfTwo
    <2>2. n \in 4 .. 8
      BY ONLY n = Min({8, Len(b) - et.pos}), <1>1, <1>3, <2>1
    <2>3. et.pos + n <= Len(b)
      BY ONLY n = Min({8, Len(b) - et.pos}), <1>1, <2>1
    <2> QED  BY <2>2, <2>3
  <1> DEFINE all == DateBytes(Midnight(v))
  <1>8. all \in [1 .. 8 -> Byte] /\ all \in Seq(Byte) /\ Len(all) = 8
    BY <1>5, MidnightParts, DateParts
  <1> HIDE DEF all
  <1>9. new = SubSeq(all, 1, n)
    BY DEF all
  <1>10. new \in Seq(Byte) /\ Len(new) = n /\ \A k \in 1 .. n : new[k] = all[k]
    <2>1. n \in Nat /\ 1 <= n /\ \A k \in 1 .. n : k \in 1 .. 8
      BY ONLY <1>7
    <2>2. \A k \in 1 .. n : all[k] \in Byte
      <3>1. \A k \in 1 .. 8 : all[k] \in Byte
        BY ONLY <1>8
      <3> QED  BY ONLY <2>1, <3>1
    <2> QED  BY ONLY <1>9, <2>1, <2>2
  <1>11. DayPut(et, b, v, EncodeDate(et, b, v).val)
    BY ONLY n = Min({8, Len(b) - et.pos}), <1>6, <1>7, <1>10 DEF all, DayPut
  <1> QED  BY <1>5, <1>11

\* the bytes of a duration.
LEMMA DurationPatch ==
  ASSUME NEW et, Numbers(et), NEW b \in Seq(Byte), NEW v \in Value,
         EncodeDuration(et, b, v).out = "ok"
  PROVE  /\ v.kind = "dur" /\ v.n \in Int /\ et.pos + et.blen <= Len(b)
         /\ EncodeDuration(et, b, v).val = Put(b, et.pos, ToLE(v.n, et.blen))
  <1>1. et.pos \in Nat /\ et.blen \in Nat /\ Len(b) \in Nat
    BY NumbersParts
  <1>2. Err.out # "ok" /\ \A x : Good(x).val = x
    BY DEF Err, Good
  <1>3. ~(Len(b) < et.pos + et.blen) /\ v.kind = "dur"
    BY <1>2 DEF EncodeDuration
  <1> QED  BY <1>1, <1>2, <1>3, ValueParts DEF EncodeDuration

\* An encoder leaves a block of bytes, and of its length.
LEMMA EncodeBytes ==
  ASSUME NEW et, Numbers(et), NEW b \in Seq(Byte), NEW v \in Value,
         Encode(et, b, v).out = "ok"
  PROVE  Encode(et, b, v).val \in Seq(Byte) /\ Len(Encode(et, b, v).val) = Len(b)
  <1> DEFINE val == Encode(et, b, v).val
             fine == val \in Seq(Byte) /\ Len(val) = Len(b)
  <1> SUFFICES fine
    OBVIOUS
  <1> HIDE DEF val
  <1>1. /\ et.pos \in Nat /\ et.blen \in Nat /\ BitByte(et) \in Nat /\ Len(b) \in Nat
    BY NumbersParts
  <1>2. ASSUME NEW i \in Nat, NEW new \in Seq(Byte), i + Len(new) <= Len(b),
               val = Put(b, i, new)
        PROVE  fine
    BY <1>2, PutBytes
  <1>9. ASSUME NEW i \in Nat, NEW x \in Byte, i + 1 <= Len(b), val = Put(b, i, <<x>>)
        PROVE  fine
    <2>1. <<x>> \in Seq(Byte) /\ Len(<<x>>) = 1
      OBVIOUS
    <2> QED  BY <1>2, <1>9, <2>1
  <1>10. val = b => fine
    OBVIOUS
  <1> HIDE DEF fine
  <1>3. CASE et.codec = "valueList"
    <2>1. EncodeList(et, b, v).out = "ok" /\ val = EncodeList(et, b, v).val
      BY <1>3 DEF Encode, val
    <2>2. CASE et.bitLen > 0
      <3> DEFINE x == SetBits(et, b[BitByte(et) + 1], v.n % Width)
      <3>1. BitByte(et) < Len(b) /\ x \in Byte /\ val = Put(b, BitByte(et), <<x>>)
        BY <2>1, <2>2, ListPatch
      <3> HIDE DEF x
      <3> QED  BY <3>1, <1>1, <1>9
    <2>3. CASE ~(et.bitLen > 0)
      <3> DEFINE n == IF et.blen = 1 THEN 1 ELSE 2
      <3>1. v.n \in Int /\ et.pos + n <= Len(b) /\ val = Put(b, et.pos, ToLE(v.n, n)) /\ n \in Nat
        BY <2>1, <2>3, ListPatch
      <3> HIDE DEF n
      <3> QED  BY <3>1, <1>1, <1>2, ToLEBytes
    <2> QED  BY <2>2, <2>3
  <1>4. CASE et.codec = "divMulOffset"
    <2> DEFINE c == ToLE(v.n, et.blen)
               old == b[et.pos + 1]
               x == Or(old % 16, (c[1] * 16) % Width)
               y == Or(16 * (old \div 16), c[1])
               r == IF BigEndian(et) THEN Reverse(c) ELSE c
    <2>1. EncodeNumber(et, b, v).out = "ok" /\ val = EncodeNumber(et, b, v).val
      BY <1>4 DEF Encode, val
    <2>2. /\ et.blen \in 1 .. 4 /\ et.pos + et.blen <= Len(b)
          /\ c \in Seq(Byte) /\ Len(c) = et.blen
          /\ val = b \/ val = Put(b, et.pos, <<x>>) \/ val = Put(b, et.pos, <<y>>)
               \/ val = Put(b, et.pos, r)
      BY <2>1, NumberPatch
    <2>3. r \in Seq(Byte) /\ Len(r) = et.blen
      BY <2>2, OrderedBytes
    <2>4. x \in Byte /\ y \in Byte
      BY OrBits
    <2> HIDE DEF x, y, r, c
    <2>5. et.pos + 1 <= Len(b)
      BY <2>2, <1>1
    <2> QED  BY <2>2, <2>3, <2>4, <2>5, <1>1, <1>2, <1>9, <1>10
  <1>5. CASE et.codec = "dateTimeBCD"
    <2>1. EncodeDateTime(et, b, v).out = "ok" /\ val = EncodeDateTime(et, b, v).val
      BY <1>5 DEF Encode, val
    <2> QED  BY <2>1, <1>1, <1>2, DateTimePatch, DateParts, ValueParts
  <1>6. CASE et.codec = "dateBCD"
    <2>1. EncodeDate(et, b, v).out = "ok" /\ val = EncodeDate(et, b, v).val
      BY <1>6 DEF Encode, val
    <2>2. DayPut(et, b, v, val)
      BY <2>1, DatePatch
    <2> PICK n \in 4 .. 8, new \in Seq(Byte) :
               et.pos + n <= Len(b) /\ Len(new) = n /\ val = Put(b, et.pos, new)
      BY <2>2 DEF DayPut
    <2> QED  BY <1>1, <1>2
  <1>7. CASE et.codec = "sec2Duration"
    <2>1. EncodeDuration(et, b, v).out = "ok" /\ val = EncodeDuration(et, b, v).val
      BY <1>7 DEF Encode, val
    <2>2. /\ v.n \in Int /\ et.pos + et.blen <= Len(b)
          /\ val = Put(b, et.pos, ToLE(v.n, et.blen))
      BY <2>1, DurationPatch
    <2>3. ToLE(v.n, et.blen) \in Seq(Byte) /\ Len(ToLE(v.n, et.blen)) = et.blen
      BY <1>1, <2>2, ToLEBytes
    <2> QED  BY <1>1, <1>2, <2>2, <2>3
  <1>8. CASE et.codec \notin {"valueList", "divMulOffset", "dateTimeBCD", "dateBCD",
                              "sec2Duration"}
    BY <1>8, <1>10 DEF Encode, Good, val
  <1> QED  BY <1>3, <1>4, <1>5, <1>6, <1>7, <1>8

-----------------------------------------------------------------------------
(* What has been encoded is decoded again, from any block that has the bytes  *)
(* of the event.                                                              *)

\* The block c agrees with b after new has been put into it, where it has been put.
PutIn(b, i, new, c) ==
  /\ i + Len(new) <= Len(b)
  /\ \A k \in 1 .. Len(new) : c[i + k] = Put(b, i, new)[i + k]

\* A slice that has been put into a block is read from one that agrees there.
LEMMA PutBack ==
  ASSUME NEW b \in Seq(Byte), NEW i \in Nat, NEW new \in Seq(Byte),
         NEW c, Len(c) \in Nat, PutIn(b, i, new, c)
  PROVE  Slice(c, i, Len(new)) = new
  <1>1. Len(b) \in Nat /\ Len(new) \in Nat
    OBVIOUS
  <1>8. /\ i + Len(new) <= Len(b)
        /\ \A k \in 1 .. Len(new) : c[i + k] = Put(b, i, new)[i + k]
    BY DEF PutIn
  <1>2. ASSUME NEW k \in 1 .. Len(new)  PROVE c[i + k] = new[k]
    <2>1. /\ i + k \in 1 .. Len(b) /\ i < i + k /\ i + k <= i + Len(new)
          /\ (i + k) - i = k
      BY <1>1, <1>8
    <2>2. Put(b, i, new)[i + k] = new[(i + k) - i]
      BY <1>8, <2>1, PutBytes
    <2> QED  BY <1>8, <2>1, <2>2
  <1> PICK n \in Nat : n = Len(new)
    BY <1>1
  <1>7. \A k \in 1 .. n : c[i + k] = new[k] /\ new[k] \in Byte
    BY <1>2
  <1> DEFINE cut == Slice(c, i, n)
  <1>3. ASSUME NEW k \in i + 1 .. i + n  PROVE c[k] \in Byte
    <2>1. k - i \in 1 .. n /\ i + (k - i) = k
      OBVIOUS
    <2>2. c[i + (k - i)] \in Byte
      BY <1>7, <2>1
    <2> QED  BY <2>1, <2>2
  <1>4. /\ cut \in Seq(Byte) /\ Len(cut) = n
        /\ \A k \in 1 .. n : cut[k] = c[i + k]
    <2>1. \A k \in i + 1 .. i + n : c[k] \in Byte
      BY <1>3
    <2>2. cut = [k \in 1 .. n |-> c[i + k]]
      BY ONLY i \in Nat, n \in Nat DEF Slice
    <2> HIDE DEF cut
    <2>3. Len(cut) = n /\ \A k \in 1 .. n : cut[k] = c[i + k]
      BY ONLY <2>2, n \in Nat
    <2>4. \A k \in 1 .. n : i + k \in i + 1 .. i + n
      BY ONLY i \in Nat, n \in Nat
    <2>5. cut \in Seq(Byte)
      <3>1. \A k \in 1 .. n : c[i + k] \in Byte
        BY ONLY <2>1, <2>4
      <3>2. cut \in [1 .. n -> Byte]
        BY ONLY <2>2, <3>1
      <3> QED  BY ONLY <3>2, n \in Nat
    <2> QED  BY <2>3, <2>5
  <1>5. \A k \in 1 .. n : cut[k] = new[k]
    BY <1>4, <1>7
  <1> HIDE DEF cut
  <1>6. cut = new
    BY ONLY <1>4, <1>5, new \in Seq(Byte), n = Len(new)
  <1> QED  BY <1>6 DEF cut

LEMMA ByteMod ==
  ASSUME NEW n \in Byte
  PROVE  n % Width = n /\ n \in Nat /\ n < Width
  BY DEF Byte, Width

\* One byte of a block is replaced.
LEMMA PutOne ==
  ASSUME NEW b \in Seq(Byte), NEW i \in Nat, NEW x \in Byte, i < Len(b)
  PROVE  /\ Put(b, i, <<x>>) \in Seq(Byte) /\ Len(Put(b, i, <<x>>)) = Len(b)
         /\ Put(b, i, <<x>>)[i + 1] = x
         /\ \A a \in 1 .. Len(b) : a # i + 1 => Put(b, i, <<x>>)[a] = b[a]
  <1> DEFINE new == <<x>>
  <1>1. new \in Seq(Byte) /\ Len(new) = 1 /\ new[1] = x /\ Len(b) \in Nat
    OBVIOUS
  <1> HIDE DEF new
  <1>2. /\ Put(b, i, new) \in Seq(Byte) /\ Len(Put(b, i, new)) = Len(b)
        /\ \A a \in 1 .. Len(b) :
             Put(b, i, new)[a] = IF i < a /\ a <= i + 1 THEN new[a - i] ELSE b[a]
    <2>1. i + Len(new) <= Len(b) /\ i + Len(new) = i + 1
      BY <1>1
    <2>2. /\ Put(b, i, new) \in Seq(Byte) /\ Len(Put(b, i, new)) = Len(b)
          /\ \A a \in 1 .. Len(b) :
               Put(b, i, new)[a] = IF i < a /\ a <= i + Len(new) THEN new[a - i] ELSE b[a]
      BY <1>1, <2>1, PutBytes
    <2> QED  BY <2>1, <2>2
  <1>3. i + 1 \in 1 .. Len(b) /\ (i + 1) - i = 1
    BY <1>1
  <1>4. \A a \in 1 .. Len(b) : i < a /\ a <= i + 1 <=> a = i + 1
    OBVIOUS
  <1>5. Put(b, i, new)[i + 1] = x
    BY <1>1, <1>2, <1>3
  <1>6. \A a \in 1 .. Len(b) : a # i + 1 => Put(b, i, new)[a] = b[a]
    BY <1>2, <1>4
  <1> QED  BY <1>2, <1>5, <1>6 DEF new

\* A value is made of its parts.
LEMMA ValueIs ==
  ASSUME NEW v \in Value
  PROVE  /\ v.kind = "num" => v = Num(v.n)
         /\ v.kind = "dur" => v = Dur(v.n)
         /\ v.kind = "date" =>
              [v EXCEPT !.wday = 0]
                = [kind |-> "date", year |-> v.year, month |-> v.month, day |-> v.day,
                   wday |-> 0, hour |-> v.hour, min |-> v.min, sec |-> v.sec]
         /\ v.kind = "date" =>
              [v EXCEPT !.wday = 0, !.hour = 0, !.min = 0, !.sec = 0]
                = [kind |-> "date", year |-> v.year, month |-> v.month, day |-> v.day,
                   wday |-> 0, hour |-> 0, min |-> 0, sec |-> 0]
  <1>1. v.kind = "num" => v = Num(v.n)
    BY ValueKinds DEF Num
  <1>2. v.kind = "dur" => v = Dur(v.n)
    BY ValueKinds DEF Dur
  <1>3. ASSUME v.kind = "date"
        PROVE  /\ [v EXCEPT !.wday = 0]
                    = [kind |-> "date", year |-> v.year, month |-> v.month, day |-> v.day,
                       wday |-> 0, hour |-> v.hour, min |-> v.min, sec |-> v.sec]
               /\ [v EXCEPT !.wday = 0, !.hour = 0, !.min = 0, !.sec = 0]
                    = [kind |-> "date", year |-> v.year, month |-> v.month, day |-> v.day,
                       wday |-> 0, hour |-> 0, min |-> 0, sec |-> 0]
    <2>1. v = [kind |-> "date", year |-> v.year, month |-> v.month, day |-> v.day,
               wday |-> v.wday, hour |-> v.hour, min |-> v.min, sec |-> v.sec]
      BY <1>3, ValueKinds, DateIs, Zenon
    <2> DEFINE one   == [v EXCEPT !.wday = 0]
               two   == [one EXCEPT !.hour = 0]
               three == [two EXCEPT !.min = 0]
    <2>2. one = [kind |-> "date", year |-> v.year, month |-> v.month, day |-> v.day,
                 wday |-> 0, hour |-> v.hour, min |-> v.min, sec |-> v.sec]
      BY ONLY <2>1
    <2>3. [v EXCEPT !.wday = 0, !.hour = 0, !.min = 0, !.sec = 0] = [three EXCEPT !.sec = 0]
      BY DEF one, two, three
    <2> HIDE DEF one
    <2>4. two = [kind |-> "date", year |-> v.year, month |-> v.month, day |-> v.day,
                 wday |-> 0, hour |-> 0, min |-> v.min, sec |-> v.sec]
      BY ONLY <2>2 DEF two
    <2> HIDE DEF two
    <2>5. three = [kind |-> "date", year |-> v.year, month |-> v.month, day |-> v.day,
                   wday |-> 0, hour |-> 0, min |-> 0, sec |-> v.sec]
      BY ONLY <2>4 DEF three
    <2> HIDE DEF three
    <2>6. [three EXCEPT !.sec = 0]
            = [kind |-> "date", year |-> v.year, month |-> v.month, day |-> v.day,
               wday |-> 0, hour |-> 0, min |-> 0, sec |-> 0]
      BY ONLY <2>5
    <2> QED  BY <2>2, <2>3, <2>6, Zenon DEF one
  <1> QED  BY <1>1, <1>2, <1>3, Zenon

\* Decode undoes Encode: for a value list,
LEMMA ListBack ==
  ASSUME NEW et, Numbers(et), NEW b \in Seq(Byte), NEW v \in Value,
         EncodeList(et, b, v).out = "ok", NEW val, val = EncodeList(et, b, v).val,
         NEW c, Len(c) = Len(b), 0 <= v.n
  PROVE  /\ et.bitLen > 0 /\ BitOff(et) + et.bitLen <= 8 /\ v.n < 2^et.bitLen
              /\ c[BitByte(et) + 1] = val[BitByte(et) + 1]
            => DecodeList(et, c) = Good(v)
         /\ ~(et.bitLen > 0) /\ et.blen \in {1, 2} /\ v.n < Width^et.blen
              /\ (\A k \in 1 .. et.blen : c[et.pos + k] = val[et.pos + k])
            => DecodeList(et, c) = Good(v)
  <1>1. /\ v.kind = "num" /\ v.n \in Int /\ et.bitLen \in 0 .. 8 /\ et.bitLen \in Nat
        /\ et.pos \in Nat /\ BitByte(et) \in Nat /\ BitOff(et) \in 0 .. 7 /\ Len(b) \in Nat
    <2>1. v.kind = "num" /\ v.n \in Int /\ et.bitLen \in 0 .. 8
      BY ListPatch
    <2>2. /\ et.bitLen \in Nat /\ et.pos \in Nat /\ BitByte(et) \in Nat
          /\ BitOff(et) \in 0 .. 7
      BY NumbersParts
    <2> QED  BY <2>1, <2>2
  <1>2. v = Num(v.n)
    BY <1>1, ValueIs
  <1>3. ASSUME et.bitLen > 0, BitOff(et) + et.bitLen <= 8, v.n < 2^et.bitLen,
               c[BitByte(et) + 1] = val[BitByte(et) + 1]
        PROVE  DecodeList(et, c) = Good(v)
    <2> DEFINE old == b[BitByte(et) + 1]
               set == SetBits(et, old, v.n % Width)
    <2>1. /\ BitByte(et) < Len(b) /\ BitByte(et) + 1 \in 1 .. Len(b) /\ old \in Byte
          /\ set \in Byte /\ val = Put(b, BitByte(et), <<set>>)
      BY <1>3, ListPatch
    <2> PICK d \in Nat, l \in 0 .. 8 : d = v.n /\ l = et.bitLen
      BY <1>1
    <2>2. d \in Byte
      BY <1>3, SmallBits
    <2>3. d % Width = d
      BY <2>2, ByteMod
    <2>4. (set \div 2^BitOff(et)) % 2^et.bitLen = v.n
      BY <1>1, <1>3, <2>1, <2>3, SetBitsSets
    <2> HIDE DEF old, set
    <2>5. val[BitByte(et) + 1] = set
      BY <1>1, <2>1, PutOne
    <2>6. Has(c, BitByte(et)) /\ At(c, BitByte(et)) = set
      BY <1>3, <2>1, <2>5 DEF Has, At
    <2>7. ~(et.bitLen > 8)
      BY ONLY <1>1
    <2> QED  BY <1>2, <1>3, <2>4, <2>6, <2>7 DEF DecodeList
  <1>4. ASSUME ~(et.bitLen > 0), et.blen \in {1, 2}, v.n < Width^et.blen,
               \A k \in 1 .. et.blen : c[et.pos + k] = val[et.pos + k]
        PROVE  DecodeList(et, c) = Good(v)
    <2>1. (IF et.blen = 1 THEN 1 ELSE 2) = et.blen /\ et.blen \in 1 .. 4
      BY <1>4
    <2>2. et.pos + et.blen <= Len(b) /\ val = Put(b, et.pos, ToLE(v.n, et.blen))
      BY <1>4, <2>1, ListPatch
    <2> DEFINE new == ToLE(v.n, et.blen)
    <2>3. new \in Seq(Byte) /\ Len(new) = et.blen
      BY <1>1, <2>1, ToLEBytes
    <2> HIDE DEF new
    <2>4. Slice(c, et.pos, et.blen) = new
      <3>1. \A k \in 1 .. Len(new) : c[et.pos + k] = Put(b, et.pos, new)[et.pos + k]
        BY <1>4, <2>2, <2>3 DEF new
      <3>2. Len(c) \in Nat /\ et.pos \in Nat /\ et.pos + Len(new) <= Len(b)
        BY <1>1, <2>2, <2>3
      <3>3. PutIn(b, et.pos, new, c)
        BY <3>1, <3>2 DEF PutIn
      <3>4. Slice(c, et.pos, Len(new)) = new
        BY <2>3, <3>2, <3>3, PutBack, Zenon
      <3> QED  BY <2>3, <3>4
    <2>5. FromLE(new) = v.n
      BY <1>1, <1>4, <2>1, NumberBack, UnsignedBack DEF new
    <2>6. Has(c, et.pos + et.blen - 1) /\ ~(et.bitLen > 8)
      <3>1. Has(c, et.pos + et.blen - 1)
        BY ONLY <1>1, <2>1, <2>2, Len(c) = Len(b) DEF Has
      <3>2. ~(et.bitLen > 8)
        BY ONLY <1>1
      <3> QED  BY <3>1, <3>2
    <2> QED  BY <1>2, <1>4, <2>1, <2>4, <2>5, <2>6 DEF DecodeList
  <1> QED  BY <1>3, <1>4

LEMMA OneDigit ==
  ASSUME NEW x \in Byte
  PROVE  FromLE(<<x>>) = x
  <1>1. \A k \in 2 .. 8 : Digit(<<x>>, k) = 0
    BY DEF Digit
  <1>2. Digit(<<x>>, 1) = x /\ x \in Int
    BY DEF Digit, Byte, Width
  <1> QED  BY <1>1, <1>2, SMT DEF FromLE, Width

LEMMA OneByteNumber ==
  ASSUME NEW v \in Nat, v < Width
  PROVE  ToLE(v, 1)[1] = v
  <1>1. ToLE(v, 1)[1] = (v \div Width^(1 - 1)) % Width
    BY DEF ToLE
  <1>2. v \div Width^(1 - 1) = v
    BY SMT DEF Width
  <1>3. v % Width = v
    BY DEF Width
  <1> QED  BY <1>1, <1>2, <1>3

\* for a number with its width, sign, byte order or nibble,
LEMMA NumberReadBack ==
  ASSUME NEW et, Numbers(et), NEW b \in Seq(Byte), NEW v \in Value,
         EncodeNumber(et, b, v).out = "ok", NEW val, val = EncodeNumber(et, b, v).val,
         NEW c, Len(c) = Len(b),
         \A k \in 1 .. et.blen : c[et.pos + k] = val[et.pos + k]
  PROVE  /\ Nibble(et) /\ ~IsSigned(et) /\ et.bitPos \in {0, 4} /\ 0 <= v.n /\ v.n < 16
            => DecodeNumber(et, c) = Good(v)
         /\ et.bitLen = 0 /\ IsSigned(et) /\ -(Width^et.blen \div 2) <= v.n
              /\ v.n < -(Width^et.blen \div 2) + Width^et.blen
            => DecodeNumber(et, c) = Good(v)
         /\ et.bitLen = 0 /\ ~IsSigned(et) /\ 0 <= v.n /\ v.n < Width^et.blen
            => DecodeNumber(et, c) = Good(v)
  <1> PICK le : le = ToLE(v.n, et.blen)
    OBVIOUS
  <1>1. /\ v.kind = "num" /\ v.n \in Int /\ ~NumberRefused(et, b)
        /\ et.blen \in 1 .. 4 /\ et.pos + et.blen <= Len(b)
        /\ le \in Seq(Byte) /\ Len(le) = et.blen /\ le[1] \in Byte
        /\ Nibble(et) => et.blen = 1
    BY NumberPatch
  <1>2. et.pos \in Nat /\ et.bitLen \in Nat /\ Len(b) \in Nat
    BY NumbersParts
  <1>10. IF Nibble(et) /\ ~IsSigned(et)
         THEN val = IF et.bitPos = 0
                    THEN Put(b, et.pos, <<Or(b[et.pos + 1] % 16, (le[1] * 16) % Width)>>)
                    ELSE IF et.bitPos = 4
                    THEN Put(b, et.pos, <<Or(16 * (b[et.pos + 1] \div 16), le[1])>>)
                    ELSE b
         ELSE val = Put(b, et.pos, IF BigEndian(et) THEN Reverse(le) ELSE le)
    BY NumberPatch
  <1>3. v = Num(v.n) /\ ~NumberRefused(et, c)
    BY <1>1, ValueIs DEF NumberRefused
  <1> DEFINE cut == Slice(c, et.pos, et.blen)
             n   == FromLE(IF BigEndian(et) THEN Reverse(cut) ELSE cut)
  <1>4. DecodeNumber(et, c)
          = Good(Num(IF IsSigned(et) THEN Signed(n, et.blen)
                     ELSE IF Nibble(et) /\ et.bitPos = 0 THEN n \div 16
                     ELSE IF Nibble(et) /\ et.bitPos = 4 THEN n % 16
                     ELSE n))
    BY <1>3 DEF DecodeNumber
  <1>5. ASSUME NEW new \in Seq(Byte), Len(new) = et.blen, val = Put(b, et.pos, new)
        PROVE  cut = new
    <2>1. \A k \in 1 .. Len(new) : c[et.pos + k] = Put(b, et.pos, new)[et.pos + k]
      BY <1>5
    <2>2. Len(c) \in Nat /\ et.pos \in Nat /\ et.pos + Len(new) <= Len(b)
      BY <1>1, <1>2, <1>5
    <2>3. PutIn(b, et.pos, new, c)
      BY <2>1, <2>2 DEF PutIn
    <2>4. Slice(c, et.pos, Len(new)) = new
      BY <1>5, <2>2, <2>3, PutBack, Zenon
    <2> QED  BY <1>5, <2>4
  <1> HIDE DEF cut
  <1>6. ASSUME Nibble(et), ~IsSigned(et), et.bitPos \in {0, 4}, 0 <= v.n, v.n < 16
        PROVE  DecodeNumber(et, c) = Good(v)
    <2> PICK d : d = v.n
      OBVIOUS
    <2>6. d \in Int /\ 0 <= d /\ d < 16
      BY <1>1, <1>6
    <2>7. d \in 0 .. 15
      BY ONLY <2>6
    <2> PICK old : old = b[et.pos + 1]
      OBVIOUS
    <2>1. et.blen = 1 /\ old \in Byte /\ ~BigEndian(et)
      <3>1. et.blen = 1
        BY <1>1, <1>6
      <3>2. et.pos + 1 \in 1 .. Len(b)
        BY <1>1, <1>2, <3>1
      <3> QED  BY <3>1, <3>2 DEF BigEndian
    <2>2. le[1] = d
      <3>1. d \in Nat /\ d < Width
        BY <2>6 DEF Width
      <3> QED  BY <2>1, <3>1, OneByteNumber
    <2>3. ASSUME NEW x \in Byte, val = Put(b, et.pos, <<x>>)
          PROVE  n = x
      <3>1. <<x>> \in Seq(Byte) /\ Len(<<x>>) = et.blen
        BY <2>1
      <3>2. cut = <<x>>
        BY <2>3, <3>1, <1>5
      <3> QED  BY <2>1, <3>2, OneDigit
    <2>4. CASE et.bitPos = 0
      <3> PICK x : x = Or(old % 16, (d * 16) % Width)
        OBVIOUS
      <3>1. x \in Byte /\ x \div 16 = d
        BY <2>1, <2>7, UpperNibble
      <3>2. val = Put(b, et.pos, <<x>>)
        BY <1>6, <1>10, <2>2, <2>4
      <3>3. n = x
        BY <2>3, <3>1, <3>2
      <3> HIDE DEF n
      <3> QED  BY <1>3, <1>4, <1>6, <2>4, <3>1, <3>3
    <2>5. CASE et.bitPos = 4
      <3> PICK x : x = Or(16 * (old \div 16), d)
        OBVIOUS
      <3>1. x \in Byte /\ x % 16 = d
        BY <2>1, <2>7, LowerNibble
      <3>2. val = Put(b, et.pos, <<x>>)
        BY <1>6, <1>10, <2>2, <2>5
      <3>3. n = x
        BY <2>3, <3>1, <3>2
      <3> HIDE DEF n
      <3> QED  BY <1>3, <1>4, <1>6, <2>5, <3>1, <3>3
    <2> QED  BY <1>6, <2>4, <2>5
  <1>7. ASSUME et.bitLen = 0  PROVE n = v.n % Width^et.blen
    <2>1. ~Nibble(et)
      BY <1>7 DEF Nibble
    <2> DEFINE new == IF BigEndian(et) THEN Reverse(le) ELSE le
    <2>2. val = Put(b, et.pos, new)
      BY <2>1, NumberPatch
    <2>3. new \in Seq(Byte) /\ Len(new) = et.blen
      BY <1>1, OrderedBytes
    <2>4. cut = new
      <3> HIDE DEF new
      <3> QED  BY <1>5, <2>2, <2>3
    <2>5. (IF BigEndian(et) THEN Reverse(cut) ELSE cut) = le
      <3>1. BigEndian(et) => Len(le) = 2
        BY <1>1 DEF BigEndian
      <3> QED  BY <2>4, <3>1, <1>1, ReverseTwo
    <2> QED  BY <2>5, <1>1, NumberBack
  <1> HIDE DEF n
  <1>8. ASSUME et.bitLen = 0, IsSigned(et), -(Width^et.blen \div 2) <= v.n,
               v.n < -(Width^et.blen \div 2) + Width^et.blen
        PROVE  DecodeNumber(et, c) = Good(v)
    <2>1. Signed(n, et.blen) = v.n
      BY <1>1, <1>7, <1>8, SignedBack
    <2> QED  BY <1>3, <1>4, <1>8, <2>1
  <1>9. ASSUME et.bitLen = 0, ~IsSigned(et), 0 <= v.n, v.n < Width^et.blen
        PROVE  DecodeNumber(et, c) = Good(v)
    <2>1. n = v.n
      BY <1>1, <1>7, <1>9, UnsignedBack
    <2>2. ~Nibble(et)
      BY <1>9 DEF Nibble
    <2> QED  BY <1>3, <1>4, <1>9, <2>1, <2>2
  <1> QED  BY <1>6, <1>8, <1>9

\* for a duration,
LEMMA DurationBack ==
  ASSUME NEW et, Numbers(et), NEW b \in Seq(Byte), NEW v \in Value,
         EncodeDuration(et, b, v).out = "ok", NEW val, val = EncodeDuration(et, b, v).val,
         NEW c, Len(c) = Len(b), et.blen \in 1 .. 4, 0 <= v.n, v.n < Width^et.blen,
         \A k \in 1 .. et.blen : c[et.pos + k] = val[et.pos + k]
  PROVE  DecodeDuration(et, c) = Good(v)
  <1> PICK new : new = ToLE(v.n, et.blen)
    OBVIOUS
  <1>1. /\ v.kind = "dur" /\ v.n \in Int /\ et.pos + et.blen <= Len(b)
        /\ val = Put(b, et.pos, new)
    BY DurationPatch
  <1>2. et.pos \in Nat /\ et.blen \in Nat /\ Len(b) \in Nat /\ v = Dur(v.n)
    <2>1. et.pos \in Nat /\ et.blen \in Nat
      BY NumbersParts
    <2>2. v = Dur(v.n)
      BY <1>1, ValueIs
    <2> QED  BY <2>1, <2>2
  <1>3. new \in Seq(Byte) /\ Len(new) = et.blen
    BY <1>1, <1>2, ToLEBytes
  <1>4. Slice(c, et.pos, et.blen) = new
    <2>1. \A k \in 1 .. Len(new) : c[et.pos + k] = Put(b, et.pos, new)[et.pos + k]
      BY <1>1, <1>3
    <2>2. Len(c) \in Nat /\ et.pos \in Nat /\ et.pos + Len(new) <= Len(b)
      BY <1>1, <1>2, <1>3
    <2>3. PutIn(b, et.pos, new, c)
      BY <2>1, <2>2 DEF PutIn
    <2>4. Slice(c, et.pos, Len(new)) = new
      BY <1>3, <2>2, <2>3, PutBack, Zenon
    <2> QED  BY <1>3, <2>4
  <1>5. FromLE(new) = v.n
    BY <1>1, NumberBack, UnsignedBack
  <1>6. ~(Len(c) < et.pos + et.blen)
    BY <1>1, <1>2
  <1> QED  BY <1>2, <1>4, <1>5, <1>6 DEF DecodeDuration

\* The day of v with a time, as it is read.
DateOf(v, hour, min, sec) ==
  [kind |-> "date", year |-> v.year, month |-> v.month, day |-> v.day,
   wday |-> 0, hour |-> hour, min |-> min, sec |-> sec]

\* The bytes of a date, the last of which may be missing.
LEMMA DateRead ==
  ASSUME NEW w, Calendar(w), NEW n \in Nat, n >= 4, NEW new, Len(new) = n,
         \A k \in 1 .. 8 : k <= n => new[k] = DateBytes(w)[k],
         n < 8 => w.hour = 0 /\ w.min = 0 /\ w.sec = 0
  PROVE  DecodeBCDDate(new)
           = Good([kind |-> "date", year |-> w.year, month |-> w.month, day |-> w.day,
                   wday |-> 0, hour |-> w.hour, min |-> w.min, sec |-> w.sec])
  <1> DEFINE all == DateBytes(w)
             d == [k \in 1 .. 8 |-> IF k <= Len(new) THEN FromBCD(new[k]) ELSE 0]
  <1>1. /\ FromBCD(all[1]) * 100 + FromBCD(all[2]) = w.year
        /\ FromBCD(all[3]) = w.month /\ FromBCD(all[4]) = w.day
        /\ FromBCD(all[6]) = w.hour /\ FromBCD(all[7]) = w.min
        /\ FromBCD(all[8]) = w.sec
    BY DateParts
  <1> HIDE DEF all
  <1>2. \A k \in 1 .. 8 : k <= n => new[k] = all[k]
    BY DEF all
  <1>3. \A k \in 1 .. 8 : d[k] = IF k <= n THEN FromBCD(all[k]) ELSE 0
    <2> TAKE k \in 1 .. 8
    <2>1. d[k] = IF k <= n THEN FromBCD(new[k]) ELSE 0
      OBVIOUS
    <2> QED  BY <1>2, <2>1
  <1>4. DecodeBCDDate(new)
          = Good([kind |-> "date", year |-> d[1] * 100 + d[2], month |-> d[3],
                  day |-> d[4], wday |-> 0, hour |-> d[6], min |-> d[7], sec |-> d[8]])
    <2>1. ~(Len(new) < 4)
      OBVIOUS
    <2> QED  BY <2>1 DEF DecodeBCDDate
  <1> HIDE DEF d
  <1>5. d[1] * 100 + d[2] = w.year /\ d[3] = w.month /\ d[4] = w.day
    <2>1. /\ d[1] = FromBCD(all[1]) /\ d[2] = FromBCD(all[2])
          /\ d[3] = FromBCD(all[3]) /\ d[4] = FromBCD(all[4])
      BY <1>3
    <2> QED  BY <1>1, <2>1
  <1>6. d[6] = w.hour /\ d[7] = w.min /\ d[8] = w.sec
    <2>1. CASE n >= 8
      <3>1. d[6] = FromBCD(all[6]) /\ d[7] = FromBCD(all[7]) /\ d[8] = FromBCD(all[8])
        BY <1>3, <2>1
      <3> QED  BY <1>1, <3>1
    <2>2. CASE n < 8
      <3>1. FromBCD(all[6]) = 0 /\ FromBCD(all[7]) = 0 /\ FromBCD(all[8]) = 0
        BY <1>1, <2>2
      <3>2. d[6] = 0 /\ d[7] = 0 /\ d[8] = 0
        BY <1>3, <3>1
      <3> QED  BY <2>2, <3>2
    <2> QED  BY <2>1, <2>2
  <1> QED  BY <1>4, <1>5, <1>6

\* The data lie inside the block.
Fitting(et, b) == Len(b) = et.len /\ et.pos + et.blen <= et.len

\* The bytes of the event are the same.
SameBytes(et, val, c) == \A k \in 1 .. et.blen : c[et.pos + k] = val[et.pos + k]

\* for a date with a time,
LEMMA DateTimeBack ==
  ASSUME NEW et, Numbers(et), NEW b \in Seq(Byte), NEW v \in Value,
         EncodeDateTime(et, b, v).out = "ok", NEW val,
         val = EncodeDateTime(et, b, v).val,
         NEW c, Len(c) = Len(b), Fitting(et, b),
         SameBytes(et, val, c)
  PROVE  et.blen = 8 => DecodeDate(et, c) = Good(DateOf(v, v.hour, v.min, v.sec))
  <1> HAVE et.blen = 8
  <1> DEFINE new == DateBytes(v)
  <1>1. v.kind = "date" /\ val = Put(b, et.pos, new)
    BY DateTimePatch
  <1>2. /\ et.pos \in Nat /\ et.blen \in Nat /\ et.len \in Nat /\ et.len < Width
        /\ et.pos + et.blen \in Nat
    <2>1. et.len \in Byte
      BY DEF Numbers
    <2>2. et.len \in Nat /\ et.len < Width
      BY <2>1, ByteMod
    <2>3. et.pos \in Nat /\ et.blen \in Nat
      BY NumbersParts
    <2>4. et.pos + et.blen \in Nat
      BY ONLY <2>3
    <2> QED  BY ONLY <2>2, <2>3, <2>4
  <1>3. Calendar(v)
    BY <1>1, ValueParts
  <1>4. new \in Seq(Byte) /\ Len(new) = 8
    BY <1>3, DateParts
  <1>5. DecodeBCDDate(new)
          = Good([kind |-> "date", year |-> v.year, month |-> v.month, day |-> v.day,
                  wday |-> 0, hour |-> v.hour, min |-> v.min, sec |-> v.sec])
    <2>1. /\ 8 \in Nat /\ 8 >= 4 /\ \A k \in 1 .. 8 : k <= 8 => new[k] = DateBytes(v)[k]
          /\ 8 < 8 => v.hour = 0 /\ v.min = 0 /\ v.sec = 0
      OBVIOUS
    <2> HIDE DEF new
    <2> QED  BY ONLY <2>1, <1>3, <1>4, DateRead
  <1> HIDE DEF new
  <1>6. Slice(c, et.pos, et.blen) = new
    <2>1. \A k \in 1 .. Len(new) : c[et.pos + k] = Put(b, et.pos, new)[et.pos + k]
      BY <1>1, <1>4 DEF SameBytes
    <2>2. Len(c) \in Nat /\ et.pos \in Nat /\ et.pos + Len(new) <= Len(b)
      BY <1>2, <1>4 DEF Fitting
    <2>3. PutIn(b, et.pos, new, c)
      BY <2>1, <2>2 DEF PutIn
    <2>4. Slice(c, et.pos, Len(new)) = new
      BY <1>4, <2>2, <2>3, PutBack, Zenon
    <2> QED  BY <1>4, <2>4
  <1>7. ~(Len(c) < et.len) /\ ~(Len(c) < et.pos + et.blen \/ et.pos + et.blen >= Width)
    <2>1. Width \in Nat
      BY DEF Width
    <2>2. Len(c) = Len(b) /\ Len(b) = et.len /\ et.pos + et.blen <= et.len
      BY DEF Fitting
    <2> QED  BY ONLY <1>2, <2>1, <2>2
  <1>8. DecodeDate(et, c) = DecodeBCDDate(new)
    BY <1>6, <1>7 DEF DecodeDate
  <1> QED  BY <1>1, <1>5, <1>8 DEF DateOf

\* and for one without.
LEMMA DateBack ==
  ASSUME NEW et, Numbers(et), NEW b \in Seq(Byte), NEW v \in Value,
         EncodeDate(et, b, v).out = "ok", NEW val, val = EncodeDate(et, b, v).val,
         NEW c, Len(c) = Len(b), Fitting(et, b), et.blen >= 4,
         SameBytes(et, val, c)
  PROVE  DecodeDate(et, c) = Good(DateOf(v, 0, 0, 0))
  <1>1. v.kind = "date" /\ DayPut(et, b, v, val)
    BY DatePatch
  <1> PICK n \in 4 .. 8, new \in Seq(Byte) :
         /\ n = Min({8, Len(b) - et.pos}) /\ et.pos + n <= Len(b)
         /\ val = Put(b, et.pos, new)
         /\ Len(new) = n /\ \A k \in 1 .. n : new[k] = DateBytes(Midnight(v))[k]
    BY <1>1 DEF DayPut
  <1>2. /\ et.pos \in Nat /\ et.blen \in Nat /\ et.len \in Nat /\ et.len < Width
        /\ et.pos + et.blen \in Nat
    <2>1. et.len \in Byte
      BY DEF Numbers
    <2>2. et.len \in Nat /\ et.len < Width
      BY <2>1, ByteMod
    <2>3. et.pos \in Nat /\ et.blen \in Nat
      BY NumbersParts
    <2>4. et.pos + et.blen \in Nat
      BY ONLY <2>3
    <2> QED  BY ONLY <2>2, <2>3, <2>4
  <1> DEFINE w == Midnight(v)
  <1>3. /\ Calendar(w) /\ w.year = v.year /\ w.month = v.month /\ w.day = v.day
        /\ w.hour = 0 /\ w.min = 0 /\ w.sec = 0
    BY <1>1, MidnightParts
  <1> HIDE DEF w
  <1>4. \A k \in 1 .. n : new[k] = DateBytes(w)[k]
    BY DEF w
  <1> PICK l \in Nat : l = et.blen
    BY <1>2
  <1> PICK i \in Nat : i = et.pos
    BY <1>2
  <1> PICK cut : cut = Slice(c, i, l)
    OBVIOUS
  <1>5. Len(cut) = l /\ \A k \in 1 .. l : cut[k] = c[i + k]
    <2>1. cut = [k \in 1 .. l |-> c[i + k]]
      BY ONLY cut = Slice(c, i, l), i \in Nat, l \in Nat DEF Slice
    <2> QED  BY ONLY <2>1, l \in Nat
  <1> PICK all \in Nat : all = Len(b)
    OBVIOUS
  <1>6. i + l <= all /\ i + n <= all
    BY DEF Fitting
  <1>7. \A k \in 1 .. 8 : k <= l => k <= n
    <2> PICK rest \in Int : rest = all - i
      OBVIOUS
    <2>1. n = Min({8, rest})
      OBVIOUS
    <2>2. Min({8, rest}) = IF 8 <= rest THEN 8 ELSE rest
      BY ONLY rest \in Int, 8 \in Int, LesserOfTwo
    <2>3. n = IF 8 <= rest THEN 8 ELSE rest
      BY ONLY <2>1, <2>2
    <2>4. l <= rest
      BY ONLY <1>6, i \in Nat, l \in Nat, all \in Nat, rest = all - i
    <2> QED  BY ONLY <2>3, <2>4, l \in Nat, rest \in Int
  <1>8. ASSUME NEW k \in 1 .. 8, k <= l
        PROVE  cut[k] = DateBytes(w)[k]
    <2>1. k \in 1 .. l /\ k \in 1 .. n
      BY <1>7, <1>8
    <2>2. cut[k] = val[i + k]
      BY <1>5, <2>1 DEF SameBytes
    <2>3. i + k \in 1 .. Len(b) /\ i < i + k /\ i + k <= i + Len(new) /\ (i + k) - i = k
      BY ONLY <1>6, <2>1, i \in Nat, n \in 4 .. 8, all \in Nat, Len(new) = n, all = Len(b)
    <2>4. val[i + k] = new[k]
      <3>1. i + Len(new) <= Len(b)
        BY ONLY <1>6, all = Len(b), Len(new) = n
      <3>2. val = Put(b, i, new)
        OBVIOUS
      <3>3. Put(b, i, new)[i + k] = new[(i + k) - i]
        BY ONLY <2>3, <3>1, b \in Seq(Byte), new \in Seq(Byte), i \in Nat, PutBytes
      <3> QED  BY <2>3, <3>2, <3>3
    <2> QED  BY <1>4, <2>1, <2>2, <2>4
  <1>9. DecodeBCDDate(cut)
          = Good([kind |-> "date", year |-> v.year, month |-> v.month, day |-> v.day,
                  wday |-> 0, hour |-> 0, min |-> 0, sec |-> 0])
    <2>1. l >= 4
      OBVIOUS
    <2>2. DecodeBCDDate(cut)
            = Good([kind |-> "date", year |-> w.year, month |-> w.month, day |-> w.day,
                    wday |-> 0, hour |-> w.hour, min |-> w.min, sec |-> w.sec])
      BY ONLY <1>3, <1>5, <1>8, <2>1, l \in Nat, DateRead
    <2> QED  BY <1>3, <2>2
  <1>10. ~(Len(c) < et.len) /\ ~(Len(c) < et.pos + et.blen \/ et.pos + et.blen >= Width)
    <2>1. Width \in Nat
      BY DEF Width
    <2>2. Len(c) = Len(b) /\ Len(b) = et.len /\ et.pos + et.blen <= et.len
      BY DEF Fitting
    <2> QED  BY ONLY <1>2, <2>1, <2>2
  <1>11. DecodeDate(et, c) = DecodeBCDDate(cut)
    BY <1>10 DEF DecodeDate
  <1> QED  BY <1>9, <1>11 DEF DateOf

-----------------------------------------------------------------------------
(* Scaling: what float32 and the cut to whole steps may cost.                *)

LEMMA UnitZero ==
  ASSUME NEW et, Numbers(et)
  PROVE  Unit(et) \in Nat \ {0} /\ Zero(et) \in Int
  BY DEF Numbers, Unit, Zero, One

LEMMA BlurNat ==
  ASSUME NEW et, Numbers(et), NEW n \in Int
  PROVE  /\ Blur(et, n) \in Nat
         /\ Exactly(et, n) => Blur(et, n) = 0
  <1> DEFINE all == Abs(n) + 2 * Abs(Zero(et))
  <1>1. all \in Nat
    BY UnitZero DEF Abs
  <1>2. Precision \in Nat \ {0}
    BY DEF Precision
  <1> HIDE DEF all
  <1>3. all \div Precision \in Nat
    <2> PICK p \in Nat \ {0} : p = Precision
      BY <1>2
    <2>1. all \div p \in Nat
      BY ONLY <1>1, p \in Nat \ {0}
    <2> QED  BY <2>1
  <1>4. Blur(et, n) = IF Exactly(et, n) THEN 0 ELSE all \div Precision
    BY DEF Blur, all
  <1> QED  BY <1>3, <1>4

\* A multiple has no rest.
LEMMA MultipleRest ==
  ASSUME NEW z \in Int, NEW s \in Nat \ {0}, NEW d \in Int, z = s * d
  PROVE  z % s = 0
  <1> DEFINE f == z \div s
             r == z % s
  <1>1. f \in Int /\ r \in 0 .. s - 1 /\ z = (s * f) + r
    OBVIOUS
  <1>2. r = s * (d - f) /\ d - f \in Int
    BY <1>1
  <1>3. ASSUME NEW k \in Int, s * k \in 0 .. s - 1  PROVE s * k = 0
    <2>1. k >= 1 => s * k >= s
      OBVIOUS
    <2>2. k <= -1 => s * k <= -s
      OBVIOUS
    <2>3. k = 0 => s * k = 0
      OBVIOUS
    <2> QED  BY <1>3, <2>1, <2>2, <2>3
  <1> HIDE DEF f, r
  <1>4. s * (d - f) \in 0 .. s - 1
    BY <1>1, <1>2
  <1>5. s * (d - f) = 0
    BY <1>2, <1>3, <1>4
  <1> QED  BY <1>2, <1>5 DEF r

\* Quotient and rest.
LEMMA Division ==
  ASSUME NEW z \in Nat, NEW s \in Nat \ {0}
  PROVE  /\ z \div s \in Nat /\ z - s * (z \div s) \in 0 .. s - 1
         /\ z - s * (z \div s) = z % s
  <1>1. z \div s \in Nat
    OBVIOUS
  <1>2. z % s \in 0 .. s - 1
    OBVIOUS
  <1>3. z = (s * (z \div s)) + (z % s)
    OBVIOUS
  <1> PICK m : m = s * (z \div s)
    OBVIOUS
  <1>4. m \in Int
    BY ONLY <1>1, s \in Nat \ {0}, m = s * (z \div s)
  <1>5. z - m = z % s
    BY ONLY <1>2, <1>3, <1>4, z \in Nat, m = s * (z \div s)
  <1>6. z - s * (z \div s) = z % s
    BY ONLY <1>5, m = s * (z \div s)
  <1> QED
    BY ONLY <1>1, <1>2, <1>6, Zenon

\* What is left of y when it is cut to whole steps of s.
Whole(y, s) == IF y < 0 THEN -((-y) \div s) ELSE y \div s

\* Less than a step is cut off, and nothing from a whole number of steps.
LEMMA WholeNear ==
  ASSUME NEW y \in Int, NEW s \in Nat \ {0}
  PROVE  /\ Whole(y, s) \in Int
         /\ Whole(y, s) * s - y \in 1 - s .. s - 1
         /\ y % s = 0 => Whole(y, s) * s = y
  <1>1. CASE y >= 0
    <2>0. y \in Nat
      BY <1>1
    <2> PICK q : q = y \div s
      OBVIOUS
    <2>1. q \in Nat /\ y - s * q \in 0 .. s - 1 /\ y - s * q = y % s
      BY ONLY <2>0, s \in Nat \ {0}, q = y \div s, Division, Zenon
    <2>2. Whole(y, s) = q
      BY <1>1 DEF Whole
    <2> PICK m : m = s * q
      OBVIOUS
    <2>3. m \in Int /\ q * s = m
      BY ONLY <2>1, s \in Nat \ {0}, m = s * q
    <2>4. m - y \in 1 - s .. s - 1 /\ (y % s = 0 => m = y)
      BY ONLY <2>1, <2>3, y \in Int, s \in Nat \ {0}, m = s * q
    <2> QED  BY <2>1, <2>2, <2>3, <2>4
  <1>2. CASE y < 0
    <2> PICK z \in Nat : z = -y
      BY <1>2
    <2> PICK q : q = z \div s
      OBVIOUS
    <2>1. q \in Nat /\ z - s * q \in 0 .. s - 1 /\ z - s * q = z % s
      BY ONLY z \in Nat, s \in Nat \ {0}, q = z \div s, Division, Zenon
    <2>2. Whole(y, s) = -q
      BY <1>2 DEF Whole
    <2> PICK m : m = s * q
      OBVIOUS
    <2>3. m \in Int /\ (-q) * s = -m
      BY ONLY <2>1, s \in Nat \ {0}, m = s * q
    <2>4. -m - y \in 1 - s .. s - 1 /\ (z % s = 0 => -m = y)
      BY ONLY <2>1, <2>3, y \in Int, z = -y, s \in Nat \ {0}, m = s * q
    <2>5. y % s = 0 => z % s = 0
      <3>1. ASSUME y % s = 0  PROVE z % s = 0
        <4> PICK d : d = y \div s
          OBVIOUS
        <4>1. d \in Int /\ y = s * d
          BY ONLY <3>1, y \in Int, s \in Nat \ {0}, d = y \div s
        <4>2. z = s * (-d) /\ -d \in Int
          BY ONLY <4>1, z = -y, s \in Nat \ {0}
        <4> PICK k \in Int : k = -d
          BY <4>2
        <4>3. z \in Int /\ z = s * k
          BY ONLY <4>2, z \in Nat, k = -d
        <4> QED  BY ONLY <4>3, k \in Int, s \in Nat \ {0}, MultipleRest
      <3> QED  BY <3>1
    <2> QED  BY <2>1, <2>2, <2>3, <2>4, <2>5
  <1> QED  BY <1>1, <1>2

\* The codecs whose values are numbers.
Numeric(et) == et.codec \in {"valueList", "divMulOffset"}

\* What Encode may make of a number: whole steps of one close to it.
LEMMA UnscaledSteps ==
  ASSUME NEW et, Numbers(et), NEW v \in Value, v.kind = "num", Numeric(et),
         NEW u \in Unscaled(et, v)
  PROVE  \E e \in Nat, y \in Int :
           /\ e = IF Exactly(et, Within(et, v.n)) THEN 0 ELSE Blur(et, Within(et, v.n)) + 1
           /\ y - (Within(et, v.n) - Zero(et)) \in -e .. e
           /\ u = Num(Whole(y, Unit(et)))
  <1> DEFINE n == Within(et, v.n)
             a == n - Zero(et)
             e == IF Exactly(et, n) THEN 0 ELSE Blur(et, n) + 1
  <1>1. n \in Int
    BY ValueParts, WithinInt
  <1>2. Zero(et) \in Int /\ Unit(et) \in Nat \ {0}
    BY UnitZero
  <1>3. e \in Nat
    BY <1>1, BlurNat
  <1>4. Unscaled(et, v) = {Num(x) : x \in Cut(a - e .. a + e, Unit(et))}
    BY DEF Unscaled, Numeric
  <1> HIDE DEF e, n
  <1>5. PICK x \in Cut(a - e .. a + e, Unit(et)) : u = Num(x)
    BY <1>4
  <1>6. PICK y \in a - e .. a + e : x = Whole(y, Unit(et))
    BY <1>5 DEF Cut, Whole
  <1>7. y \in Int /\ y - a \in -e .. e
    BY ONLY <1>1, <1>2, <1>3, y \in a - e .. a + e
  <1> QED  BY <1>3, <1>5, <1>6, <1>7 DEF e, n

\* It is a value of the same kind; what is no number stays as it is.
LEMMA UnscaledValue ==
  ASSUME NEW et, Numbers(et), NEW v \in Value, NEW u \in Unscaled(et, v)
  PROVE  u \in Value /\ u.kind = v.kind /\ ((v.kind = "num" /\ Numeric(et)) \/ u = v)
  <1>1. CASE v.kind = "num" /\ Numeric(et)
    <2>1. PICK y \in Int : u = Num(Whole(y, Unit(et)))
      BY <1>1, UnscaledSteps
    <2>2. Whole(y, Unit(et)) \in Int
      BY UnitZero, WholeNear
    <2> PICK x \in Int : x = Whole(y, Unit(et))
      BY <2>2
    <2>3. Num(x) \in Value /\ Num(x).kind = "num"
      BY DEF Num, Value
    <2> QED  BY <1>1, <2>1, <2>3
  <1>2. CASE ~(v.kind = "num" /\ Numeric(et))
    <2>1. Unscaled(et, v) = {v}
      BY <1>2 DEF Unscaled, Numeric
    <2> QED  BY <2>1
  <1> QED  BY <1>1, <1>2

\* The distance of two numbers.
Apart(m, n, d) == m - n <= d /\ n - m <= d

LEMMA AbsApart ==
  ASSUME NEW m \in Int, NEW n \in Int, NEW d \in Int, Apart(m, n, d)
  PROVE  Abs(m - n) <= d
  BY DEF Abs, Apart

\* What has been cut to whole steps comes back less than a step and the blurs of both
\* ways off, and as it was if it was a whole number of steps that float32 has.
LEMMA ScaledBack ==
  ASSUME NEW et, Numbers(et), NEW v \in Value, v.kind = "num", Numeric(et),
         Within(et, v.n) = v.n, NEW u \in Unscaled(et, v), NEW w \in Shown(et, u)
  PROVE  /\ Abs(w.n - v.n) <= Unit(et) + Blur(et, v.n) + Blur(et, Meant(et, u.n))
         /\ Exactly(et, v.n) /\ (v.n - Zero(et)) % Unit(et) = 0 => w.n = v.n
  <1> PICK n \in Int : n = v.n
    BY ValueParts
  <1> PICK s \in Nat \ {0} : s = Unit(et)
    BY UnitZero
  <1> PICK z \in Int : z = Zero(et)
    BY UnitZero
  <1> PICK p \in Nat : p = Blur(et, n)
    BY BlurNat
  <1>1. PICK e \in Nat, y \in Int :
          /\ e = IF Exactly(et, n) THEN 0 ELSE p + 1
          /\ y - (n - z) \in -e .. e
          /\ u = Num(Whole(y, s))
    BY UnscaledSteps
  <1>2. /\ Whole(y, s) \in Int
        /\ Whole(y, s) * s - y \in 1 - s .. s - 1
        /\ y % s = 0 => Whole(y, s) * s = y
    BY WholeNear
  <1> PICK q \in Int : q = Whole(y, s) * s
    BY <1>2
  <1> PICK m : m = Meant(et, u.n)
    OBVIOUS
  <1>3. m = q + z /\ m \in Int
    <2>1. m = Whole(y, s) * s + z
      BY <1>1 DEF Meant, Num
    <2> QED  BY <2>1
  <1> PICK r \in Nat : r = Blur(et, m)
    BY <1>3, BlurNat
  <1>4. w.n \in Int /\ w.n - m \in -r .. r
    <2>1. PICK x \in m - r .. m + r : w = Num(x)
      BY <1>1 DEF Shown, Num
    <2>2. x \in Int /\ x - m \in -r .. r
      BY ONLY <1>3, r \in Nat, x \in m - r .. m + r
    <2> QED  BY <2>1, <2>2 DEF Num
  <1> PICK t \in Int : t = w.n
    BY <1>4
  <1>5. e <= p + 1 /\ q - y \in 1 - s .. s - 1 /\ y - (n - z) \in -e .. e /\ t - m \in -r .. r
    BY <1>1, <1>2, <1>4
  <1>6. Apart(t, n, s + p + r)
    BY ONLY <1>3, <1>5, n \in Int, s \in Nat \ {0}, z \in Int, p \in Nat, e \in Nat,
            y \in Int, q \in Int, r \in Nat, t \in Int DEF Apart
  <1>7. Abs(t - n) <= s + p + r
    BY <1>6, AbsApart
  <1>8. ASSUME Exactly(et, n), (n - z) % s = 0
        PROVE  t = n
    <2>1. e = 0
      BY <1>1, <1>8
    <2>2. y = n - z
      BY ONLY <1>5, <2>1, n \in Int, z \in Int, y \in Int
    <2>3. q = y
      BY <1>2, <1>8, <2>2
    <2>4. m = n
      BY ONLY <1>3, <2>2, <2>3, n \in Int, z \in Int
    <2>5. r = 0
      BY <1>8, <2>4, BlurNat
    <2> QED  BY ONLY <1>5, <2>4, <2>5, t \in Int, n \in Int
  <1> QED  BY <1>7, <1>8

=============================================================================
