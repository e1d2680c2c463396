-------------------------- MODULE PayloadWordProofs -------------------------
(***************************************************************************)
(* What PayloadWord promises for every address and room map: the word and  *)
(* the frames carry the image of LegacyFrames, and a changed byte is       *)
(* rejected.                                                               *)
(***************************************************************************)
EXTENDS PayloadWord, SequenceTheorems, TLAPS

\* The masks of the ports.
LEMMA Masks ==
  /\ Mask[0] = 1 /\ Mask[1] = 2 /\ Mask[2] = 4 /\ Mask[3] = 8
  /\ Mask[4] = 16 /\ Mask[5] = 32 /\ Mask[6] = 64 /\ Mask[7] = 128
  /\ Mask[8] = 256 /\ Mask[9] = 512 /\ Mask[10] = 1024 /\ Mask[11] = 2048
  /\ Mask[12] = 4096 /\ Mask[13] = 8192 /\ Mask[14] = 16384 /\ Mask[15] = 32768
<1> DEFINE Doubles(f) == f = [port \in Port |-> IF port = 0 THEN 1 ELSE 2 * f[port - 1]]
           table == <<1, 2, 4, 8, 16, 32, 64, 128, 256, 512, 1024, 2048, 4096, 8192, 16384, 32768>>
           g == [port \in Port |-> table[port + 1]]
<1>1. Doubles(g)
  <2>1. /\ g[0] = 1 /\ g[1] = 2 /\ g[2] = 4 /\ g[3] = 8
        /\ g[4] = 16 /\ g[5] = 32 /\ g[6] = 64 /\ g[7] = 128
        /\ g[8] = 256 /\ g[9] = 512 /\ g[10] = 1024 /\ g[11] = 2048
        /\ g[12] = 4096 /\ g[13] = 8192 /\ g[14] = 16384 /\ g[15] = 32768
    BY DEF Port
  <2>2. g = [port \in Port |-> g[port]]
    OBVIOUS
  <2> HIDE DEF g
  <2>3. ASSUME NEW port \in Port PROVE g[port] = IF port = 0 THEN 1 ELSE 2 * g[port - 1]
    BY <2>1 DEF Port
  <2>4. QED
    BY <2>2, <2>3
<1>2. Mask = CHOOSE f : Doubles(f)
  BY DEF Mask
<1> HIDE DEF g
<1>3. Doubles(Mask)
  <2> HIDE DEF Doubles
  <2>1. QED
    BY <1>1, <1>2
<1>4. \A port \in Port : Mask[port] = IF port = 0 THEN 1 ELSE 2 * Mask[port - 1]
  BY <1>3
<1>5. Mask[0] = 1 /\ Mask[1] = 2 * Mask[0] /\ Mask[2] = 2 * Mask[1] /\ Mask[3] = 2 * Mask[2]
  BY <1>4 DEF Port
<1>6. /\ Mask[4] = 2 * Mask[3] /\ Mask[5] = 2 * Mask[4] /\ Mask[6] = 2 * Mask[5]
      /\ Mask[7] = 2 * Mask[6]
  BY <1>4 DEF Port
<1>7. /\ Mask[8] = 2 * Mask[7] /\ Mask[9] = 2 * Mask[8] /\ Mask[10] = 2 * Mask[9]
      /\ Mask[11] = 2 * Mask[10]
  BY <1>4 DEF Port
<1>8. /\ Mask[12] = 2 * Mask[11] /\ Mask[13] = 2 * Mask[12] /\ Mask[14] = 2 * Mask[13]
      /\ Mask[15] = 2 * Mask[14]
  BY <1>4 DEF Port
<1>9. QED
  BY <1>5, <1>6, <1>7, <1>8

\* The ranges of a byte and of a word of two bytes.
LEMMA InByte == \A x : x \in Byte <=> x \in Int /\ 0 <= x /\ x <= 255
BY SMT DEF Byte

LEMMA InWord == \A x : x \in Word <=> x \in Int /\ 0 <= x /\ x < 65536
<1>1. PICK n \in Int : n = 256 * 256 - 1
  OBVIOUS
<1>2. \A x : x \in 0 .. n <=> x \in Int /\ 0 <= x /\ x <= n
  OBVIOUS
<1>3. Word = 0 .. n
  BY <1>1 DEF Word
<1>4. \A x : x \in Word <=> x \in Int /\ 0 <= x /\ x <= n
  BY ONLY <1>2, <1>3, Zenon
<1>5. n + 1 = 65536
  BY <1>1
<1>6. QED
  BY ONLY n \in Int, <1>4, <1>5

\* Adding up in bytes is adding up.
LEMMA AddsUp ==
  ASSUME NEW x \in Nat, NEW y \in Nat
  PROVE  ((x % 256) + y) % 256 = (x + y) % 256
OBVIOUS

\* The sums of four and of five bytes.
IsSum(f, b, n) == f = [k \in 0 .. n |-> IF k = 0 THEN 0 ELSE (f[k - 1] + b[k]) % 256]

LEMMA SumTable ==
  ASSUME NEW b, NEW n \in {4, 5}, \A k \in 1 .. n : b[k] \in Byte
  PROVE  /\ \E f : IsSum(f, b, n)
         /\ \A f : IsSum(f, b, n) =>
              /\ n = 4 => f[4] = (b[1] + b[2] + b[3] + b[4]) % 256
              /\ n = 5 => f[5] = (b[1] + b[2] + b[3] + b[4] + b[5]) % 256
<1>1. /\ b[1] \in Nat /\ b[2] \in Nat /\ b[3] \in Nat /\ b[4] \in Nat
      /\ n = 5 => b[5] \in Nat
      /\ b[1] = (0 + b[1]) % 256
  <2>1. 1 \in 1 .. n /\ 2 \in 1 .. n /\ 3 \in 1 .. n /\ 4 \in 1 .. n /\ (n = 5 => 5 \in 1 .. n)
    OBVIOUS
  <2>2. /\ b[1] \in Byte /\ b[2] \in Byte /\ b[3] \in Byte /\ b[4] \in Byte
        /\ n = 5 => b[5] \in Byte
    BY <2>1
  <2>3. QED
    BY <2>2, InByte
<1>2. PICK s2 : s2 = (b[1] + b[2]) % 256
  OBVIOUS
<1>3. PICK s3 : s3 = (s2 + b[3]) % 256
  OBVIOUS
<1>4. PICK s4 : s4 = (s3 + b[4]) % 256
  OBVIOUS
<1>5. PICK s5 : s5 = (s4 + b[5]) % 256
  OBVIOUS
<1>6. s3 = (b[1] + b[2] + b[3]) % 256
  <2>1. b[1] + b[2] \in Nat
    BY <1>1
  <2>2. QED
    BY <1>1, <1>2, <1>3, <2>1, AddsUp
<1>7. s4 = (b[1] + b[2] + b[3] + b[4]) % 256
  <2>1. b[1] + b[2] + b[3] \in Nat
    BY <1>1
  <2>2. QED
    BY <1>1, <1>4, <1>6, <2>1, AddsUp
<1>8. n = 5 => s5 = (b[1] + b[2] + b[3] + b[4] + b[5]) % 256
  <2>1. b[1] + b[2] + b[3] + b[4] \in Nat
    BY <1>1
  <2>2. QED
    BY <1>1, <1>5, <1>7, <2>1, AddsUp
<1>9. \E f : IsSum(f, b, n)
  <2> DEFINE g == [k \in 0 .. n |-> IF k = 0 THEN 0 ELSE IF k = 1 THEN b[1] ELSE IF k = 2 THEN s2
                                    ELSE IF k = 3 THEN s3 ELSE IF k = 4 THEN s4 ELSE s5]
  <2>1. /\ g[0] = 0 /\ g[1] = b[1] /\ g[2] = s2 /\ g[3] = s3 /\ g[4] = s4
        /\ n = 5 => g[5] = s5
        /\ g = [k \in 0 .. n |-> g[k]]
    OBVIOUS
  <2> HIDE DEF g
  <2>2. ASSUME NEW k \in 0 .. n
        PROVE  g[k] = IF k = 0 THEN 0 ELSE (g[k - 1] + b[k]) % 256
    <3>1. k \in {0, 1, 2, 3, 4} \/ (k = 5 /\ n = 5)
      OBVIOUS
    <3>2. CASE k \in {0, 1}
      BY <1>1, <2>1, <3>2
    <3>3. CASE k \in {2, 3}
      BY <1>2, <1>3, <2>1, <3>3
    <3>4. CASE k = 4 \/ (k = 5 /\ n = 5)
      BY <1>4, <1>5, <2>1, <3>4
    <3>5. QED
      BY <3>1, <3>2, <3>3, <3>4
  <2>3. IsSum(g, b, n)
    BY <2>1, <2>2 DEF IsSum
  <2>4. QED
    BY <2>3
<1>10. ASSUME NEW f, IsSum(f, b, n)
       PROVE  f[4] = s4 /\ (n = 5 => f[5] = s5)
  <2>1. \A k \in 0 .. n : f[k] = IF k = 0 THEN 0 ELSE (f[k - 1] + b[k]) % 256
    BY <1>10 DEF IsSum
  <2>2. f[0] = 0 /\ f[1] = (f[0] + b[1]) % 256 /\ f[2] = (f[1] + b[2]) % 256
    BY <2>1
  <2>3. f[3] = (f[2] + b[3]) % 256 /\ f[4] = (f[3] + b[4]) % 256
    BY <2>1
  <2>4. n = 5 => f[5] = (f[4] + b[5]) % 256
    BY <2>1
  <2>5. f[1] = b[1]
    BY <1>1, <2>2
  <2>6. QED
    BY <1>2, <1>3, <1>4, <1>5, <2>2, <2>3, <2>4, <2>5
<1>11. QED
  BY <1>7, <1>8, <1>9, <1>10

\* What the loop of checksum adds up, for the frames of the bus.
LEMMA ByteSums ==
  ASSUME NEW b, Len(b) \in {4, 5}, \A k \in 1 .. Len(b) : b[k] \in Byte
  PROVE  /\ Len(b) = 4 => ByteSum(b) = (b[1] + b[2] + b[3] + b[4]) % 256
         /\ Len(b) = 5 => ByteSum(b) = (b[1] + b[2] + b[3] + b[4] + b[5]) % 256
<1> DEFINE f == CHOOSE g : IsSum(g, b, Len(b))
<1>1. ByteSum(b) = f[Len(b)]
  BY DEF ByteSum, IsSum
<1>2. IsSum(f, b, Len(b))
  BY SumTable
<1> HIDE DEF f
<1>3. QED
  BY <1>1, <1>2, SumTable
-----------------------------------------------------------------------------
\* The bits of an image, and the bytes they make: bits 0..7 and 8..15.
Bits(ports) == [p \in Port |-> IF p \in ports THEN 1 ELSE 0]

FromBits(b0, b1, b2, b3, b4, b5, b6, b7) ==
  b0 + 2 * b1 + 4 * b2 + 8 * b3 + 16 * b4 + 32 * b5 + 64 * b6 + 128 * b7

ByteAt(b, o) ==
  FromBits(b[o], b[o + 1], b[o + 2], b[o + 3], b[o + 4], b[o + 5], b[o + 6], b[o + 7])
Value(b) == ByteAt(b, 0) + 256 * ByteAt(b, 8)

\* Eight bits make a byte.
LEMMA Bytes ==
  ASSUME NEW b \in [Port -> {0, 1}], NEW o \in {0, 8} PROVE ByteAt(b, o) \in Byte
<1>1. \A i \in 0 .. 7 : b[o + i] \in {0, 1}
  BY DEF Port
<1>2. b[o] \in {0, 1}
  BY DEF Port
<1>3. PICK x0 \in {0, 1} : b[o] = x0
  BY <1>2
<1>4. PICK x1 \in {0, 1} : b[o + 1] = x1
  BY <1>1
<1>5. PICK x2 \in {0, 1} : b[o + 2] = x2
  BY <1>1
<1>6. PICK x3 \in {0, 1} : b[o + 3] = x3
  BY <1>1
<1>7. PICK x4 \in {0, 1} : b[o + 4] = x4
  BY <1>1
<1>8. PICK x5 \in {0, 1} : b[o + 5] = x5
  BY <1>1
<1>9. PICK x6 \in {0, 1} : b[o + 6] = x6
  BY <1>1
<1>10. PICK x7 \in {0, 1} : b[o + 7] = x7
  BY <1>1
<1>11. ByteAt(b, o) = FromBits(x0, x1, x2, x3, x4, x5, x6, x7)
  BY <1>3, <1>4, <1>5, <1>6, <1>7, <1>8, <1>9, <1>10 DEF ByteAt
<1>12. QED
  BY <1>11, InByte DEF FromBits

Sets(c, b, p) == c = [b EXCEPT ![p] = 1]

\* A bit that was 0 and is 1 adds its weight to its byte, and nothing to the other one.
LEMMA ByteAdds ==
  ASSUME NEW b \in [Port -> {0, 1}], NEW o \in {0, 8}, NEW other \in {0, 8}, other # o,
         NEW i \in 0 .. 7, NEW p \in Port, p = o + i, b[p] = 0,
         NEW c, Sets(c, b, p)
  PROVE  ByteAt(c, o) = ByteAt(b, o) + Mask[i] /\ ByteAt(c, other) = ByteAt(b, other)
<1>1. \A q \in Port : b[q] \in {0, 1} /\ c[q] = IF q = o + i THEN 1 ELSE b[q]
  BY DEF Sets
<1>2. /\ o \in Port /\ o + 1 \in Port /\ o + 2 \in Port /\ o + 3 \in Port
      /\ o + 4 \in Port /\ o + 5 \in Port /\ o + 6 \in Port /\ o + 7 \in Port
  BY DEF Port
<1>3. PICK x0 \in {0, 1} : b[o] = x0 /\ c[o] = (IF i = 0 THEN 1 ELSE x0)
  BY <1>1, <1>2
<1>4. PICK x1 \in {0, 1} : b[o + 1] = x1 /\ c[o + 1] = (IF i = 1 THEN 1 ELSE x1)
  BY <1>1, <1>2
<1>5. PICK x2 \in {0, 1} : b[o + 2] = x2 /\ c[o + 2] = (IF i = 2 THEN 1 ELSE x2)
  BY <1>1, <1>2
<1>6. PICK x3 \in {0, 1} : b[o + 3] = x3 /\ c[o + 3] = (IF i = 3 THEN 1 ELSE x3)
  BY <1>1, <1>2
<1>7. PICK x4 \in {0, 1} : b[o + 4] = x4 /\ c[o + 4] = (IF i = 4 THEN 1 ELSE x4)
  BY <1>1, <1>2
<1>8. PICK x5 \in {0, 1} : b[o + 5] = x5 /\ c[o + 5] = (IF i = 5 THEN 1 ELSE x5)
  BY <1>1, <1>2
<1>9. PICK x6 \in {0, 1} : b[o + 6] = x6 /\ c[o + 6] = (IF i = 6 THEN 1 ELSE x6)
  BY <1>1, <1>2
<1>10. PICK x7 \in {0, 1} : b[o + 7] = x7 /\ c[o + 7] = (IF i = 7 THEN 1 ELSE x7)
  BY <1>1, <1>2
<1>11. ByteAt(b, o) = FromBits(x0, x1, x2, x3, x4, x5, x6, x7)
  BY <1>3, <1>4, <1>5, <1>6, <1>7, <1>8, <1>9, <1>10 DEF ByteAt
<1>12. ByteAt(b, o) \in Byte
  BY Bytes
<1>13. ByteAt(c, other) = ByteAt(b, other)
  <2>1. /\ c[other] = b[other] /\ c[other + 1] = b[other + 1]
        /\ c[other + 2] = b[other + 2] /\ c[other + 3] = b[other + 3]
        /\ c[other + 4] = b[other + 4] /\ c[other + 5] = b[other + 5]
        /\ c[other + 6] = b[other + 6] /\ c[other + 7] = b[other + 7]
    BY <1>1 DEF Port
  <2>2. QED
    BY <2>1 DEF ByteAt
<1>14. CASE i = 0
  <2>1. x0 = 0 /\ ByteAt(c, o) = FromBits(1, x1, x2, x3, x4, x5, x6, x7)
    BY <1>3, <1>4, <1>5, <1>6, <1>7, <1>8, <1>9, <1>10, <1>14 DEF ByteAt
  <2>2. ByteAt(c, o) = ByteAt(b, o) + 1
    BY <1>11, <2>1 DEF FromBits
  <2>3. QED
    BY <1>12, <1>13, <1>14, <2>2, Masks
<1>15. CASE i = 1
  <2>1. x1 = 0 /\ ByteAt(c, o) = FromBits(x0, 1, x2, x3, x4, x5, x6, x7)
    BY <1>3, <1>4, <1>5, <1>6, <1>7, <1>8, <1>9, <1>10, <1>15 DEF ByteAt
  <2>2. ByteAt(c, o) = ByteAt(b, o) + 2
    BY <1>11, <2>1 DEF FromBits
  <2>3. QED
    BY <1>12, <1>13, <1>15, <2>2, Masks
<1>16. CASE i = 2
  <2>1. x2 = 0 /\ ByteAt(c, o) = FromBits(x0, x1, 1, x3, x4, x5, x6, x7)
    BY <1>3, <1>4, <1>5, <1>6, <1>7, <1>8, <1>9, <1>10, <1>16 DEF ByteAt
  <2>2. ByteAt(c, o) = ByteAt(b, o) + 4
    BY <1>11, <2>1 DEF FromBits
  <2>3. QED
    BY <1>12, <1>13, <1>16, <2>2, Masks
<1>17. CASE i = 3
  <2>1. x3 = 0 /\ ByteAt(c, o) = FromBits(x0, x1, x2, 1, x4, x5, x6, x7)
    BY <1>3, <1>4, <1>5, <1>6, <1>7, <1>8, <1>9, <1>10, <1>17 DEF ByteAt
  <2>2. ByteAt(c, o) = ByteAt(b, o) + 8
    BY <1>11, <2>1 DEF FromBits
  <2>3. QED
    BY <1>12, <1>13, <1>17, <2>2, Masks
<1>18. CASE i = 4
  <2>1. x4 = 0 /\ ByteAt(c, o) = FromBits(x0, x1, x2, x3, 1, x5, x6, x7)
    BY <1>3, <1>4, <1>5, <1>6, <1>7, <1>8, <1>9, <1>10, <1>18 DEF ByteAt
  <2>2. ByteAt(c, o) = ByteAt(b, o) + 16
    BY <1>11, <2>1 DEF FromBits
  <2>3. QED
    BY <1>12, <1>13, <1>18, <2>2, Masks
<1>19. CASE i = 5
  <2>1. x5 = 0 /\ ByteAt(c, o) = FromBits(x0, x1, x2, x3, x4, 1, x6, x7)
    BY <1>3, <1>4, <1>5, <1>6, <1>7, <1>8, <1>9, <1>10, <1>19 DEF ByteAt
  <2>2. ByteAt(c, o) = ByteAt(b, o) + 32
    BY <1>11, <2>1 DEF FromBits
  <2>3. QED
    BY <1>12, <1>13, <1>19, <2>2, Masks
<1>20. CASE i = 6
  <2>1. x6 = 0 /\ ByteAt(c, o) = FromBits(x0, x1, x2, x3, x4, x5, 1, x7)
    BY <1>3, <1>4, <1>5, <1>6, <1>7, <1>8, <1>9, <1>10, <1>20 DEF ByteAt
  <2>2. ByteAt(c, o) = ByteAt(b, o) + 64
    BY <1>11, <2>1 DEF FromBits
  <2>3. QED
    BY <1>12, <1>13, <1>20, <2>2, Masks
<1>21. CASE i = 7
  <2>1. x7 = 0 /\ ByteAt(c, o) = FromBits(x0, x1, x2, x3, x4, x5, x6, 1)
    BY <1>3, <1>4, <1>5, <1>6, <1>7, <1>8, <1>9, <1>10, <1>21 DEF ByteAt
  <2>2. ByteAt(c, o) = ByteAt(b, o) + 128
    BY <1>11, <2>1 DEF FromBits
  <2>3. QED
    BY <1>12, <1>13, <1>21, <2>2, Masks
<1>22. QED
  BY <1>14, <1>15, <1>16, <1>17, <1>18, <1>19, <1>20, <1>21

\* A bit that is set adds its mask to the word.
LEMMA BitAdds ==
  ASSUME NEW b \in [Port -> {0, 1}], NEW p \in Port, b[p] = 0
  PROVE  Value([b EXCEPT ![p] = 1]) = Value(b) + Mask[p]
<1>1. PICK c : c = [b EXCEPT ![p] = 1] /\ Sets(c, b, p)
  BY DEF Sets
<1>2. PICK lo \in Int, hi \in Int, low \in Int, high \in Int :
        /\ lo = ByteAt(b, 0) /\ hi = ByteAt(b, 8)
        /\ low = ByteAt(c, 0) /\ high = ByteAt(c, 8)
  <2>1. c \in [Port -> {0, 1}]
    BY <1>1
  <2>2. /\ ByteAt(b, 0) \in Int /\ ByteAt(b, 8) \in Int
        /\ ByteAt(c, 0) \in Int /\ ByteAt(c, 8) \in Int
    BY <2>1, Bytes, InByte
  <2>3. QED
    BY <2>2
<1>3. CASE p \in 0 .. 7
  <2>1. PICK m \in Nat : m = Mask[p]
    BY <1>3, Masks
  <2>2. low = lo + m /\ high = hi
    <3>1. PICK o \in {0, 8}, other \in {0, 8}, i \in 0 .. 7 :
            o = 0 /\ other = 8 /\ other # o /\ i = p /\ p = o + i
      BY <1>3
    <3>2. ByteAt(c, o) = ByteAt(b, o) + Mask[i] /\ ByteAt(c, other) = ByteAt(b, other)
      BY <1>1, <3>1, ByteAdds
    <3>3. QED
      BY <1>2, <2>1, <3>1, <3>2
  <2>3. low + 256 * high = lo + 256 * hi + m
    BY <2>2
  <2>4. QED
    BY <1>1, <1>2, <2>1, <2>3 DEF Value
<1>4. CASE p \in 8 .. 15
  <2>1. PICK i \in 0 .. 7 : p = 8 + i
    <3>1. p - 8 \in 0 .. 7 /\ p = 8 + (p - 8)
      BY <1>4
    <3>2. QED
      BY <3>1
  <2>2. PICK m \in Nat : m = Mask[i] /\ Mask[p] = 256 * m
    BY <2>1, Masks
  <2>3. high = hi + m /\ low = lo
    <3>1. PICK o \in {0, 8}, other \in {0, 8} : o = 8 /\ other = 0 /\ other # o /\ p = o + i
      BY <2>1
    <3>2. ByteAt(c, o) = ByteAt(b, o) + Mask[i] /\ ByteAt(c, other) = ByteAt(b, other)
      BY <1>1, <3>1, ByteAdds
    <3>3. QED
      BY <1>2, <2>2, <3>1, <3>2
  <2>4. low + 256 * high = lo + 256 * hi + 256 * m
    BY <2>3
  <2>5. QED
    BY <1>1, <1>2, <2>2, <2>4 DEF Value
<1>5. QED
  BY <1>3, <1>4 DEF Port

\* The bits are read from the word and from its bytes.
LEMMA ByteReads ==
  ASSUME NEW b \in [Port -> {0, 1}], NEW o \in {0, 8}, NEW h \in Nat,
         NEW w, w = ByteAt(b, o) + 256 * h,
         NEW i \in 0 .. 7, NEW p \in Port, p = o + i
  PROVE  Bit(w, i) = b[p]
<1>1. \A k \in 0 .. 7 : b[o + k] \in {0, 1}
  BY DEF Port
<1>2. b[o] \in {0, 1}
  BY DEF Port
<1>3. PICK x0 \in {0, 1} : b[o] = x0
  BY <1>2
<1>4. PICK x1 \in {0, 1} : b[o + 1] = x1
  BY <1>1
<1>5. PICK x2 \in {0, 1} : b[o + 2] = x2
  BY <1>1
<1>6. PICK x3 \in {0, 1} : b[o + 3] = x3
  BY <1>1
<1>7. PICK x4 \in {0, 1} : b[o + 4] = x4
  BY <1>1
<1>8. PICK x5 \in {0, 1} : b[o + 5] = x5
  BY <1>1
<1>9. PICK x6 \in {0, 1} : b[o + 6] = x6
  BY <1>1
<1>10. PICK x7 \in {0, 1} : b[o + 7] = x7
  BY <1>1
<1>11. w = x0 + 2 * x1 + 4 * x2 + 8 * x3 + 16 * x4 + 32 * x5 + 64 * x6 + 128 * x7 + 256 * h
  <2>1. ByteAt(b, o) = FromBits(x0, x1, x2, x3, x4, x5, x6, x7)
    BY <1>3, <1>4, <1>5, <1>6, <1>7, <1>8, <1>9, <1>10 DEF ByteAt
  <2>2. QED
    BY <2>1 DEF FromBits
<1>12. Bit(w, 0) = x0
  <2>1. PICK r \in Nat : r = x1 + 2 * x2 + 4 * x3 + 8 * x4 + 16 * x5 + 32 * x6 + 64 * x7 + 128 * h
    OBVIOUS
  <2>2. w \div 1 = x0 + 2 * r
    BY <1>11, <2>1
  <2>3. (w \div 1) % 2 = x0
    BY <2>2
  <2>4. QED
    BY <2>3, Masks DEF Bit
<1>13. Bit(w, 1) = x1
  <2>1. PICK r \in Nat : r = x2 + 2 * x3 + 4 * x4 + 8 * x5 + 16 * x6 + 32 * x7 + 64 * h
    OBVIOUS
  <2>2. w \div 2 = x1 + 2 * r
    BY <1>11, <2>1
  <2>3. (w \div 2) % 2 = x1
    BY <2>2
  <2>4. QED
    BY <2>3, Masks DEF Bit
<1>14. Bit(w, 2) = x2
  <2>1. PICK r \in Nat : r = x3 + 2 * x4 + 4 * x5 + 8 * x6 + 16 * x7 + 32 * h
    OBVIOUS
  <2>2. w \div 4 = x2 + 2 * r
    BY <1>11, <2>1
  <2>3. (w \div 4) % 2 = x2
    BY <2>2
  <2>4. QED
    BY <2>3, Masks DEF Bit
<1>15. Bit(w, 3) = x3
  <2>1. PICK r \in Nat : r = x4 + 2 * x5 + 4 * x6 + 8 * x7 + 16 * h
    OBVIOUS
  <2>2. w \div 8 = x3 + 2 * r
    BY <1>11, <2>1
  <2>3. (w \div 8) % 2 = x3
    BY <2>2
  <2>4. QED
    BY <2>3, Masks DEF Bit
<1>16. Bit(w, 4) = x4
  <2>1. PICK r \in Nat : r = x5 + 2 * x6 + 4 * x7 + 8 * h
    OBVIOUS
  <2>2. w \div 16 = x4 + 2 * r
    BY <1>11, <2>1
  <2>3. (w \div 16) % 2 = x4
    BY <2>2
  <2>4. QED
    BY <2>3, Masks DEF Bit
<1>17. Bit(w, 5) = x5
  <2>1. PICK r \in Nat : r = x6 + 2 * x7 + 4 * h
    OBVIOUS
  <2>2. w \div 32 = x5 + 2 * r
    BY <1>11, <2>1
  <2>3. (w \div 32) % 2 = x5
    BY <2>2
  <2>4. QED
    BY <2>3, Masks DEF Bit
<1>18. Bit(w, 6) = x6
  <2>1. PICK r \in Nat : r = x7 + 2 * h
    OBVIOUS
  <2>2. w \div 64 = x6 + 2 * r
    BY <1>11, <2>1
  <2>3. (w \div 64) % 2 = x6
    BY <2>2
  <2>4. QED
    BY <2>3, Masks DEF Bit
<1>19. Bit(w, 7) = x7
  <2>1. PICK r \in Nat : r = h
    OBVIOUS
  <2>2. w \div 128 = x7 + 2 * r
    BY <1>11, <2>1
  <2>3. (w \div 128) % 2 = x7
    BY <2>2
  <2>4. QED
    BY <2>3, Masks DEF Bit
<1>20. CASE i = 0
  BY <1>3, <1>12, <1>20
<1>21. CASE i = 1
  BY <1>4, <1>13, <1>21
<1>22. CASE i = 2
  BY <1>5, <1>14, <1>22
<1>23. CASE i = 3
  BY <1>6, <1>15, <1>23
<1>24. CASE i = 4
  BY <1>7, <1>16, <1>24
<1>25. CASE i = 5
  BY <1>8, <1>17, <1>25
<1>26. CASE i = 6
  BY <1>9, <1>18, <1>26
<1>27. CASE i = 7
  BY <1>10, <1>19, <1>27
<1>28. QED
  BY <1>20, <1>21, <1>22, <1>23, <1>24, <1>25, <1>26, <1>27

\* A bit of the high byte is found in the word eight places higher.
LEMMA HighBits ==
  ASSUME NEW w \in Nat, NEW i \in 0 .. 7
  PROVE  Bit(w, i + 8) = Bit(w \div 256, i)
<1>1. CASE i = 0
  <2>1. Mask[i] = 1 /\ Mask[i + 8] = 256
    BY <1>1, Masks
  <2>2. w \div 256 = (w \div 256) \div 1
    OBVIOUS
  <2>3. QED
    BY <2>1, <2>2 DEF Bit
<1>2. CASE i = 1
  <2>1. Mask[i] = 2 /\ Mask[i + 8] = 512
    BY <1>2, Masks
  <2>2. w \div 512 = (w \div 256) \div 2
    OBVIOUS
  <2>3. QED
    BY <2>1, <2>2 DEF Bit
<1>3. CASE i = 2
  <2>1. Mask[i] = 4 /\ Mask[i + 8] = 1024
    BY <1>3, Masks
  <2>2. w \div 1024 = (w \div 256) \div 4
    OBVIOUS
  <2>3. QED
    BY <2>1, <2>2 DEF Bit
<1>4. CASE i = 3
  <2>1. Mask[i] = 8 /\ Mask[i + 8] = 2048
    BY <1>4, Masks
  <2>2. w \div 2048 = (w \div 256) \div 8
    OBVIOUS
  <2>3. QED
    BY <2>1, <2>2 DEF Bit
<1>5. CASE i = 4
  <2>1. Mask[i] = 16 /\ Mask[i + 8] = 4096
    BY <1>5, Masks
  <2>2. w \div 4096 = (w \div 256) \div 16
    OBVIOUS
  <2>3. QED
    BY <2>1, <2>2 DEF Bit
<1>6. CASE i = 5
  <2>1. Mask[i] = 32 /\ Mask[i + 8] = 8192
    BY <1>6, Masks
  <2>2. w \div 8192 = (w \div 256) \div 32
    OBVIOUS
  <2>3. QED
    BY <2>1, <2>2 DEF Bit
<1>7. CASE i = 6
  <2>1. Mask[i] = 64 /\ Mask[i + 8] = 16384
    BY <1>7, Masks
  <2>2. w \div 16384 = (w \div 256) \div 64
    OBVIOUS
  <2>3. QED
    BY <2>1, <2>2 DEF Bit
<1>8. CASE i = 7
  <2>1. Mask[i] = 128 /\ Mask[i + 8] = 32768
    BY <1>8, Masks
  <2>2. w \div 32768 = (w \div 256) \div 128
    OBVIOUS
  <2>3. QED
    BY <2>1, <2>2 DEF Bit
<1>9. QED
  BY <1>1, <1>2, <1>3, <1>4, <1>5, <1>6, <1>7, <1>8

\* What the word and its bytes say of the bits they are made of.
LEMMA WordReads ==
  ASSUME NEW b \in [Port -> {0, 1}], NEW w, w = Value(b)
  PROVE  /\ w \in Word
         /\ LowByte(w) = ByteAt(b, 0) /\ HighByte(w) = ByteAt(b, 8)
         /\ LowByte(w) \in Byte /\ HighByte(w) \in Byte
         /\ \A p \in Port : Bit(w, p) = b[p]
         /\ \A p \in Port : Bit(IF p < 8 THEN LowByte(w) ELSE HighByte(w), p % 8) = b[p]
<1>1. PICK lo \in Byte, hi \in Byte : lo = ByteAt(b, 0) /\ hi = ByteAt(b, 8)
  BY Bytes
<1>2. w = lo + 256 * hi
  BY <1>1 DEF Value
<1>3. w \in Word /\ w \div 256 = hi /\ w % 256 = lo
  <2>1. lo + 256 * hi \in Word
    BY InByte, InWord
  <2>2. (lo + 256 * hi) \div 256 = hi /\ (lo + 256 * hi) % 256 = lo
    BY InByte
  <2>3. QED
    BY <1>2, <2>1, <2>2
<1>4. LowByte(w) = lo /\ HighByte(w) = hi
  BY <1>3, InByte DEF LowByte, HighByte
<1>5. ASSUME NEW i \in 0 .. 7, NEW p \in Port, p = i
      PROVE  Bit(w, i) = b[p] /\ Bit(lo, i) = b[p]
  <2>1. PICK o \in {0, 8}, h \in Nat, none \in Nat :
          o = 0 /\ h = hi /\ none = 0 /\ p = o + i
    BY <1>5, InByte
  <2>2. w = ByteAt(b, o) + 256 * h /\ lo = ByteAt(b, o) + 256 * none
    BY <1>1, <1>2, <2>1, InByte
  <2>3. Bit(w, i) = b[p]
    BY <2>1, <2>2, ByteReads
  <2>4. Bit(lo, i) = b[p]
    BY <2>1, <2>2, ByteReads
  <2>5. QED
    BY <2>3, <2>4
<1>6. ASSUME NEW i \in 0 .. 7, NEW p \in Port, p = 8 + i
      PROVE  Bit(w, p) = b[p] /\ Bit(hi, i) = b[p]
  <2>1. PICK o \in {0, 8}, none \in Nat :
          o = 8 /\ none = 0 /\ p = o + i /\ hi = ByteAt(b, o) + 256 * none
    BY <1>1, <1>6, InByte
  <2>2. Bit(hi, i) = b[p]
    BY <2>1, ByteReads
  <2>3. Bit(w, i + 8) = Bit(w \div 256, i)
    <3>1. w \in Nat
      BY <1>3, InWord
    <3>2. QED
      BY <3>1, HighBits
  <2>4. p = i + 8
    BY <1>6
  <2>5. QED
    BY <1>3, <2>2, <2>3, <2>4
<1>7. ASSUME NEW p \in Port
      PROVE  /\ Bit(w, p) = b[p]
             /\ Bit(IF p < 8 THEN LowByte(w) ELSE HighByte(w), p % 8) = b[p]
  <2>1. CASE p \in 0 .. 7
    <3>1. p < 8 /\ p % 8 = p
      BY <2>1
    <3>2. Bit(w, p) = b[p] /\ Bit(lo, p) = b[p]
      BY <1>5, <2>1
    <3>3. QED
      BY <1>4, <3>1, <3>2
  <2>2. CASE p \in 8 .. 15
    <3>1. ~(p < 8)
      BY <2>2
    <3>2. PICK i \in 0 .. 7 : i = p % 8 /\ p = 8 + i
      BY <2>2
    <3>3. Bit(w, p) = b[p] /\ Bit(hi, i) = b[p]
      BY <1>6, <3>2
    <3>4. QED
      BY <1>4, <3>1, <3>2, <3>3
  <2>3. QED
    BY <2>1, <2>2 DEF Port
<1>8. QED
  BY <1>1, <1>3, <1>4, <1>7
-----------------------------------------------------------------------------
\* SetPortStatus does to the word what it does to the set of ports.
LEMMA WordFollows ==
  ASSUME NEW ports \in SUBSET Port, NEW w, w = Value(Bits(ports)),
         NEW port \in Port, NEW status
  PROVE  WordAfter(w, port, status) = Value(Bits(SetPortStatus(ports, port, status)))
<1>1. \A q \in SUBSET Port : Bits(q) \in [Port -> {0, 1}]
  BY DEF Bits
<1>2. Bit(w, port) = 1 <=> port \in ports
  <2>1. Bit(w, port) = Bits(ports)[port]
    BY <1>1, WordReads
  <2>2. QED
    BY <2>1 DEF Bits
<1>3. ASSUME NEW q \in SUBSET Port, port \notin q
      PROVE  Value(Bits(q \cup {port})) = Value(Bits(q)) + Mask[port]
  <2>1. Bits(q)[port] = 0 /\ Bits(q \cup {port}) = [Bits(q) EXCEPT ![port] = 1]
    BY <1>3 DEF Bits
  <2>2. PICK b \in [Port -> {0, 1}] : b = Bits(q)
    BY <1>1
  <2>3. QED
    BY <2>1, <2>2, BitAdds
<1>4. Mask[port] \in Nat
  BY Masks DEF Port
<1>5. CASE port \in ports
  <2>1. ports \cup {port} = ports /\ (ports \ {port}) \cup {port} = ports
        /\ ports \ {port} \in SUBSET Port
    BY <1>5
  <2>2. w = Value(Bits(ports \ {port})) + Mask[port]
    BY <1>3, <2>1
  <2>3. Value(Bits(ports \ {port})) \in Int
    BY <1>1, <2>1, WordReads, InWord
  <2>4. w - Mask[port] = Value(Bits(ports \ {port}))
    BY <1>4, <2>2, <2>3
  <2>5. QED
    BY <1>2, <1>5, <2>1, <2>4 DEF WordAfter, SetPortStatus
<1>6. CASE port \notin ports
  <2>1. ports \ {port} = ports
    BY <1>6
  <2>2. Value(Bits(ports \cup {port})) = w + Mask[port]
    BY <1>3, <1>6
  <2>3. QED
    BY <1>2, <1>6, <2>1, <2>2 DEF WordAfter, SetPortStatus
<1>7. QED
  BY <1>5, <1>6

\* The frame with its checksum.
LEMMA Appended ==
  ASSUME NEW b \in Seq(Byte), NEW x \in Byte, NEW f, f = Append(b, x)
  PROVE  /\ f \in Seq(Byte) /\ Len(f) = Len(b) + 1
         /\ \A i \in 1 .. Len(b) : f[i] = b[i]
         /\ f[Len(b) + 1] = x
BY AppendProperties

\* The five bytes of a slave frame.
LEMMA SlaveFrame ==
  ASSUME NEW w, LowByte(w) \in Byte, HighByte(w) \in Byte
  PROVE  /\ BuildSlaveFrame(Address, w) \in Seq(Byte)
         /\ Len(BuildSlaveFrame(Address, w)) = 5
         /\ BuildSlaveFrame(Address, w)[1] = Colon
         /\ BuildSlaveFrame(Address, w)[3] = LowByte(w)
         /\ BuildSlaveFrame(Address, w)[4] = HighByte(w)
         /\ \A i \in 1 .. 5 : BuildSlaveFrame(Address, w)[i] \in Byte
         /\ ByteSum(BuildSlaveFrame(Address, w)) = 0
<1>1. PICK lo \in Byte, hi \in Byte : lo = LowByte(w) /\ hi = HighByte(w)
  OBVIOUS
<1>2. Address \in Byte /\ Colon \in Byte
  BY PlaceAssumption, InByte DEF Colon
<1>3. PICK body : body = <<Colon, Address, lo, hi>>
  OBVIOUS
<1>4. /\ body \in Seq(Byte) /\ Len(body) = 4
      /\ body[1] = Colon /\ body[2] = Address /\ body[3] = lo /\ body[4] = hi
  BY <1>2, <1>3
<1>5. ByteSum(body) = (Colon + Address + lo + hi) % 256
  <2>1. \A k \in 1 .. 4 : body[k] \in Byte
    BY <1>2, <1>4
  <2>2. \A k \in 1 .. Len(body) : body[k] \in Byte
    BY <1>4, <2>1
  <2>3. QED
    BY <1>4, <2>2, ByteSums
<1>6. PICK s \in Nat : s = Colon + Address + lo + hi
  BY <1>2, InByte
<1>7. Checksum(body) = (255 - (s % 256) + 1) % 256
  BY <1>5, <1>6 DEF Checksum
<1>8. PICK sum \in Byte : sum = Checksum(body) /\ (s + sum) % 256 = 0
  <2>1. (255 - (s % 256) + 1) % 256 \in Int /\ 0 <= (255 - (s % 256) + 1) % 256
        /\ (255 - (s % 256) + 1) % 256 <= 255
    OBVIOUS
  <2>2. (s + ((255 - (s % 256) + 1) % 256)) % 256 = 0
    OBVIOUS
  <2>3. QED
    BY <1>7, <2>1, <2>2, InByte
<1>9. PICK frame : frame = Append(body, sum) /\ frame = BuildSlaveFrame(Address, w)
  BY <1>1, <1>3, <1>8 DEF BuildSlaveFrame
<1>10. /\ frame \in Seq(Byte) /\ Len(frame) = 5 /\ frame[1] = Colon /\ frame[2] = Address
       /\ frame[3] = lo /\ frame[4] = hi /\ frame[5] = sum
  <2>1. /\ frame \in Seq(Byte) /\ Len(frame) = Len(body) + 1
        /\ \A i \in 1 .. Len(body) : frame[i] = body[i]
        /\ frame[Len(body) + 1] = sum
    BY <1>4, <1>9, Appended
  <2>2. 1 \in 1 .. 4 /\ 2 \in 1 .. 4 /\ 3 \in 1 .. 4 /\ 4 \in 1 .. 4 /\ 4 + 1 = 5
    OBVIOUS
  <2>3. QED
    BY <1>4, <2>1, <2>2
<1>11. \A i \in 1 .. 5 : frame[i] \in Byte
  BY <1>2, <1>10
<1>12. ByteSum(frame) = 0
  <2>1. ByteSum(frame) = (frame[1] + frame[2] + frame[3] + frame[4] + frame[5]) % 256
    BY <1>10, <1>11, ByteSums
  <2>2. Colon + Address + lo + hi + sum = s + sum
    BY <1>6
  <2>3. QED
    BY <1>8, <1>10, <2>1, <2>2
<1>13. QED
  BY <1>1, <1>9, <1>10, <1>11, <1>12

\* A number is its high part and its low nibble.
LEMMA Parts ==
  ASSUME NEW n \in Nat
  PROVE  \E high \in Nat, low \in Nat : n = 16 * high + low /\ low <= 15 /\ low = n % 16
<1>1. PICK high \in Nat : high = n \div 16 /\ 16 * high <= n /\ n < 16 * high + 16
  OBVIOUS
<1>2. PICK low \in Nat : low = n - 16 * high /\ low <= 15
  BY <1>1
<1>3. n = 16 * high + low /\ n % 16 = low
  BY <1>2
<1>4. QED
  BY <1>2, <1>3

\* The four bytes of a display frame: the reference comes apart into the port and
\* the low nibble of the card.
LEMMA DisplayFrame ==
  ASSUME NEW card \in Byte, NEW port \in Port, NEW mode \in Byte,
         NEW f, f = BuildDisplayFrame(card, port, mode)
  PROVE  /\ Len(f) = 4 /\ \A i \in 1 .. 4 : f[i] \in Byte
         /\ f # <<>> /\ ReadPlace(f) = [card |-> card % 16, port |-> port]
<1>1. PICK ref : ref = (card * 16 + port) % 256
  OBVIOUS
<1>2. ref \in Byte /\ ref \div 16 = card % 16 /\ ref % 16 = port
  <2>1. card \in Nat /\ port \in Nat /\ port <= 15
    BY InByte DEF Port
  <2>2. PICK high \in Nat, low \in Nat : card = 16 * high + low /\ low <= 15 /\ low = card % 16
    BY <2>1, Parts
  <2>3. card * 16 + port = 256 * high + (16 * low + port)
    BY <2>1, <2>2
  <2>4. ref = 16 * low + port
    BY <1>1, <2>1, <2>2, <2>3
  <2>5. QED
    BY <2>1, <2>2, <2>4, InByte
<1>3. f = <<Colon, 254, ref, mode>>
  BY <1>1 DEF BuildDisplayFrame
<1>4. Len(f) = 4 /\ f[1] = Colon /\ f[2] = 254 /\ f[3] = ref /\ f[4] = mode /\ f # <<>>
  BY <1>3
<1>5. Colon \in Byte /\ 254 \in Byte
  BY InByte DEF Colon
<1>6. \A i \in 1 .. 4 : f[i] \in Byte
  BY <1>2, <1>4, <1>5
<1>7. QED
  BY <1>2, <1>4, <1>6 DEF ReadPlace

\* Only one byte makes a sum zero.
LEMMA OneResidue ==
  ASSUME NEW r \in Nat, NEW x \in Nat, NEW y \in Nat, x <= 255, y <= 255,
         (r + x) % 256 = 0, (r + y) % 256 = 0
  PROVE  x = y
<1>1. PICK u \in Nat : u = (r + x) \div 256 /\ r + x = 256 * u
  OBVIOUS
<1>2. PICK v \in Nat : v = (r + y) \div 256 /\ r + y = 256 * v
  OBVIOUS
<1>3. QED
  BY <1>1, <1>2

\* One byte of an accepted frame changed makes a frame that is not accepted.
LEMMA Damage ==
  ASSUME NEW frame \in Seq(Byte), Len(frame) = 5, ByteSum(frame) = 0,
         NEW i \in 1 .. 5, NEW b \in Byte, b # frame[i],
         Accepted([frame EXCEPT ![i] = b])
  PROVE  FALSE
<1>1. PICK g : g = [frame EXCEPT ![i] = b]
  OBVIOUS
<1>2. PICK f1 \in Byte, f2 \in Byte, f3 \in Byte, f4 \in Byte, f5 \in Byte :
        /\ f1 = frame[1] /\ f2 = frame[2] /\ f3 = frame[3] /\ f4 = frame[4] /\ f5 = frame[5]
  <2>1. \A k \in 1 .. 5 : frame[k] \in Byte
    BY ElementOfSeq
  <2>2. /\ frame[1] \in Byte /\ frame[2] \in Byte /\ frame[3] \in Byte
        /\ frame[4] \in Byte /\ frame[5] \in Byte
    BY <2>1
  <2>3. QED
    BY <2>2
<1>3. \A k \in 1 .. 5 : frame[k] \in Byte /\ g[k] = IF k = i THEN b ELSE frame[k]
  BY <1>1
<1>4. Len(g) = 5 /\ ByteSum(g) = 0
  BY <1>1 DEF Accepted
<1>5. (f1 + f2 + f3 + f4 + f5) % 256 = 0
  <2>1. \A k \in 1 .. Len(frame) : frame[k] \in Byte
    BY ElementOfSeq
  <2>2. QED
    BY <1>2, <2>1, ByteSums
<1>6. (g[1] + g[2] + g[3] + g[4] + g[5]) % 256 = 0
  <2>1. \A k \in 1 .. Len(g) : g[k] \in Byte
    BY <1>3, <1>4
  <2>2. QED
    BY <1>4, <2>1, ByteSums
<1>7. CASE i = 1
  <2>1. (b + f2 + f3 + f4 + f5) % 256 = 0 /\ b # f1
    BY <1>2, <1>3, <1>6, <1>7
  <2>2. PICK r \in Nat, x \in Nat, y \in Nat :
          r = f2 + f3 + f4 + f5 /\ x = f1 /\ y = b /\ x <= 255 /\ y <= 255
    BY InByte
  <2>3. (r + x) % 256 = 0 /\ (r + y) % 256 = 0
    BY <1>5, <2>1, <2>2, InByte
  <2>4. x <= 255 /\ y <= 255 /\ x # y
    BY <2>1, <2>2
  <2>5. QED
    BY <2>3, <2>4, OneResidue
<1>8. CASE i = 2
  <2>1. (f1 + b + f3 + f4 + f5) % 256 = 0 /\ b # f2
    BY <1>2, <1>3, <1>6, <1>8
  <2>2. PICK r \in Nat, x \in Nat, y \in Nat :
          r = f1 + f3 + f4 + f5 /\ x = f2 /\ y = b /\ x <= 255 /\ y <= 255
    BY InByte
  <2>3. (r + x) % 256 = 0 /\ (r + y) % 256 = 0
    BY <1>5, <2>1, <2>2, InByte
  <2>4. x <= 255 /\ y <= 255 /\ x # y
    BY <2>1, <2>2
  <2>5. QED
    BY <2>3, <2>4, OneResidue
<1>9. CASE i = 3
  <2>1. (f1 + f2 + b + f4 + f5) % 256 = 0 /\ b # f3
    BY <1>2, <1>3, <1>6, <1>9
  <2>2. PICK r \in Nat, x \in Nat, y \in Nat :
          r = f1 + f2 + f4 + f5 /\ x = f3 /\ y = b /\ x <= 255 /\ y <= 255
    BY InByte
  <2>3. (r + x) % 256 = 0 /\ (r + y) % 256 = 0
    BY <1>5, <2>1, <2>2, InByte
  <2>4. x <= 255 /\ y <= 255 /\ x # y
    BY <2>1, <2>2
  <2>5. QED
    BY <2>3, <2>4, OneResidue
<1>10. CASE i = 4
  <2>1. (f1 + f2 + f3 + b + f5) % 256 = 0 /\ b # f4
    BY <1>2, <1>3, <1>6, <1>10
  <2>2. PICK r \in Nat, x \in Nat, y \in Nat :
          r = f1 + f2 + f3 + f5 /\ x = f4 /\ y = b /\ x <= 255 /\ y <= 255
    BY InByte
  <2>3. (r + x) % 256 = 0 /\ (r + y) % 256 = 0
    BY <1>5, <2>1, <2>2, InByte
  <2>4. x <= 255 /\ y <= 255 /\ x # y
    BY <2>1, <2>2
  <2>5. QED
    BY <2>3, <2>4, OneResidue
<1>11. CASE i = 5
  <2>1. (f1 + f2 + f3 + f4 + b) % 256 = 0 /\ b # f5
    BY <1>2, <1>3, <1>6, <1>11
  <2>2. PICK r \in Nat, x \in Nat, y \in Nat :
          r = f1 + f2 + f3 + f4 /\ x = f5 /\ y = b /\ x <= 255 /\ y <= 255
    BY InByte
  <2>3. (r + x) % 256 = 0 /\ (r + y) % 256 = 0
    BY <1>5, <2>1, <2>2, InByte
  <2>4. x <= 255 /\ y <= 255 /\ x # y
    BY <2>1, <2>2
  <2>5. QED
    BY <2>3, <2>4, OneResidue
<1>12. QED
  BY <1>7, <1>8, <1>9, <1>10, <1>11
-----------------------------------------------------------------------------
\* The word has the bits of the image, and the frames are those of the word and of the
\* last call.
WordInv ==
  /\ image \in SUBSET Port
  /\ word = Value(Bits(image))
  /\ slave # <<>> => slave = BuildSlaveFrame(Address, word)
  /\ display # <<>> =>
       /\ last.place \in Place /\ last.place.port \in Port
       /\ display = BuildDisplayFrame(last.place.card, last.place.port, DisplayModeOf(last.state))

LEMMA Start == Init => WordInv
<1> SUFFICES ASSUME Init PROVE WordInv
  OBVIOUS
<1>1. PICK b : b = Bits({})
  OBVIOUS
<1>2. \A p \in Port : b[p] = 0
  BY <1>1 DEF Bits
<1>3. /\ b[0] = 0 /\ b[1] = 0 /\ b[2] = 0 /\ b[3] = 0 /\ b[4] = 0 /\ b[5] = 0 /\ b[6] = 0
      /\ b[7] = 0 /\ b[8] = 0 /\ b[9] = 0 /\ b[10] = 0 /\ b[11] = 0 /\ b[12] = 0 /\ b[13] = 0
      /\ b[14] = 0 /\ b[15] = 0
  BY <1>2 DEF Port
<1>4. ByteAt(b, 0) = 0 /\ ByteAt(b, 8) = 0
  BY <1>3 DEF ByteAt, FromBits
<1>5. Value(Bits({})) = 0
  BY <1>1, <1>4 DEF Value
<1>6. QED
  BY <1>5 DEF Init, WordInv

LEMMA Keeps == WordInv /\ [Next]_vars => WordInv'
<1> SUFFICES ASSUME WordInv, [Next]_vars PROVE WordInv'
  OBVIOUS
<1>1. ASSUME NEW place \in Place, NEW state \in SemanticState, Patch(place, state)
      PROVE  WordInv'
  <2>1. PICK status : status = RoomStatusOf(state)
    OBVIOUS
  <2>2. /\ place.port \in Port
        /\ word' = WordAfter(word, place.port, status)
        /\ slave' = BuildSlaveFrame(Address, word')
        /\ display' = BuildDisplayFrame(place.card, place.port, DisplayModeOf(state))
        /\ image' = SetPortStatus(image, place.port, status)
        /\ last' = [place |-> place, state |-> state]
    BY <1>1, <2>1 DEF Patch, Settable
  <2>3. image' \in SUBSET Port
    BY <2>2 DEF WordInv, SetPortStatus
  <2>4. word' = Value(Bits(image'))
    <3>1. image \in SUBSET Port /\ word = Value(Bits(image))
      BY DEF WordInv
    <3>2. QED
      BY <2>2, <3>1, WordFollows
  <2>5. last'.place = place /\ last'.state = state
    BY <2>2
  <2>6. QED
    BY <2>2, <2>3, <2>4, <2>5 DEF WordInv
<1>2. ASSUME NEW place \in Place, NEW state \in SemanticState, Refuse(place, state)
      PROVE  WordInv'
  BY <1>2 DEF Refuse, vars, WordInv
<1>3. CASE UNCHANGED vars
  BY <1>3 DEF vars, WordInv
<1>4. QED
  BY <1>1, <1>2, <1>3 DEF Next

LEMMA Always == Spec => []WordInv
BY Start, Keeps, PTL DEF Spec

\* What the invariant says of the word and of the frame on the bus.
LEMMA WordIs ==
  ASSUME WordInv
  PROVE  /\ word \in Word /\ LowByte(word) \in Byte /\ HighByte(word) \in Byte
         /\ \A p \in Port :
              p \in image <=> Bit(IF p < 8 THEN LowByte(word) ELSE HighByte(word), p % 8) = 1
<1>1. PICK b \in [Port -> {0, 1}] : b = Bits(image)
  BY DEF Bits
<1>2. \A p \in Port : p \in image <=> b[p] = 1
  <2>1. ASSUME NEW p \in Port, p \in image PROVE b[p] = 1
    BY <1>1, <2>1 DEF Bits
  <2>2. ASSUME NEW p \in Port, p \notin image PROVE b[p] # 1
    BY <1>1, <2>2 DEF Bits
  <2>3. QED
    BY <2>1, <2>2
<1>3. word = Value(b)
  BY <1>1 DEF WordInv
<1>4. QED
  BY <1>2, <1>3, WordReads

LEMMA FrameIs ==
  ASSUME WordInv, slave # <<>>
  PROVE  /\ slave \in Seq(Byte) /\ Len(slave) = 5 /\ slave[1] = Colon /\ ByteSum(slave) = 0
         /\ slave[3] = LowByte(word) /\ slave[4] = HighByte(word)
         /\ \A i \in 1 .. 5 : slave[i] \in Byte
<1>1. slave = BuildSlaveFrame(Address, word)
  BY DEF WordInv
<1>2. QED
  BY <1>1, WordIs, SlaveFrame

LEMMA DisplayIs ==
  ASSUME WordInv, display # <<>>
  PROVE  /\ Len(display) = 4 /\ \A i \in 1 .. 4 : display[i] \in Byte
         /\ ReadPlace(display) = [card |-> last.place.card % 16, port |-> last.place.port]
<1>1. /\ last.place.card \in Byte /\ last.place.port \in Port
      /\ display = BuildDisplayFrame(last.place.card, last.place.port, DisplayModeOf(last.state))
  BY PlaceAssumption DEF WordInv
<1>2. DisplayModeOf(last.state) \in Byte
  BY InByte DEF DisplayModeOf, DisplayOff, DisplayOn
<1>3. QED
  BY <1>1, <1>2, DisplayFrame
-----------------------------------------------------------------------------
(***************************************************************************)
(* The word is a uint16 without wrapping, and every byte of a frame is one.*)
(***************************************************************************)
THEOREM TypeCorrect == Spec => []TypeOK
<1>1. WordInv => TypeOK
  BY WordIs, FrameIs, DisplayIs DEF WordInv, TypeOK
<1>2. QED
  BY <1>1, Always, PTL

(***************************************************************************)
(* SetPortStatus, BuildSlaveFrame and checksum: the frame last built is    *)
(* accepted and read as the ports the calls left energised, for any        *)
(* address, any rooms and any sequence of calls.                           *)
(***************************************************************************)
THEOREM ImageRead == Spec => []CardReadsImage
<1>1. WordInv => CardReadsImage
  <2> SUFFICES ASSUME WordInv, slave # <<>> PROVE Accepted(slave) /\ ReadImage(slave) = image
    BY DEF CardReadsImage
  <2>1. Accepted(slave)
    BY FrameIs DEF Accepted
  <2>2. \A p \in Port : p \in image <=> Bit(IF p < 8 THEN slave[3] ELSE slave[4], p % 8) = 1
    BY FrameIs, WordIs
  <2>3. image \subseteq Port
    BY DEF WordInv
  <2>4. ReadImage(slave) = image
    BY <2>2, <2>3 DEF ReadImage
  <2>5. QED
    BY <2>1, <2>4
<1>2. QED
  BY <1>1, Always, PTL

(***************************************************************************)
(* The checksum: whichever byte of a slave frame is changed, and into      *)
(* whatever, no card accepts the frame.                                    *)
(***************************************************************************)
THEOREM NoDamage == Spec => []DamageRejected
<1>1. WordInv => DamageRejected
  <2> SUFFICES ASSUME WordInv, slave # <<>>
               PROVE  /\ Accepted(slave)
                      /\ \A i \in 1 .. 5 : \A b \in Byte \ {slave[i]} :
                           ~Accepted([slave EXCEPT ![i] = b])
    BY DEF DamageRejected
  <2>1. Accepted(slave)
    BY FrameIs DEF Accepted
  <2>2. ASSUME NEW i \in 1 .. 5, NEW b \in Byte \ {slave[i]}, Accepted([slave EXCEPT ![i] = b])
        PROVE  FALSE
    <3>1. PICK frame \in Seq(Byte) : frame = slave
      BY FrameIs
    <3>2. Len(frame) = 5 /\ ByteSum(frame) = 0 /\ Accepted([frame EXCEPT ![i] = b])
      BY <2>2, <3>1, FrameIs
    <3>3. b \in Byte /\ b # frame[i]
      BY <2>2, <3>1
    <3>4. QED
      BY <3>2, <3>3, Damage
  <2>3. QED
    BY <2>1, <2>2
<1>2. QED
  BY <1>1, Always, PTL

(***************************************************************************)
(* BuildDisplayFrame: the display is told the room of the last call, up to *)
(* the nibble that byte(card*16 + port) leaves for the card.               *)
(***************************************************************************)
THEOREM RoomNamed == Spec => []DisplayNamesRoom
<1>1. WordInv => DisplayNamesRoom
  BY DisplayIs DEF DisplayNamesRoom
<1>2. QED
  BY <1>1, Always, PTL
=============================================================================
