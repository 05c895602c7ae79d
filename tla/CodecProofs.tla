----------------------------- MODULE CodecProofs -----------------------------
(***************************************************************************)
(* Theorems about Codec: for all bytes and lengths, the code's arithmetic  *)
(* computes what the standards define.                                     *)
(***************************************************************************)
EXTENDS Codec, TLAPS

-----------------------------------------------------------------------------
(* UTF-8 *)

\* The marks is_valid_utf8 looks for are those of the bytes 80..BF, whose low six bits
\* count from 80.
LEMMA ContinuationIsTail ==
    ASSUME NEW b \in Byte
    PROVE  /\ Continuation(b) <=> b \in Tail
           /\ Continuation(b) => Low6(b) = b - 128
           /\ Low6(b) \in 0..63
BY DEF Byte, Continuation, Tail, Low6

\* Each of the three longer forms is accepted where the table of the standard has it.
LEMMA TwoBytes ==
    ASSUME NEW b1 \in Byte, NEW b2 \in Byte
    PROVE  Accepts2(b1, b2) <=> WellFormed2(b1, b2)
<1>1. b1 \div 32 = 6 <=> b1 \in 192..223
  BY DEF Byte
<1>2. b1 \in 192..223 => b1 % 32 = b1 - 192
  BY DEF Byte
<1>3. ASSUME b1 \in 192..223, b2 \in Tail
      PROVE  CodePoint2(b1, b2) = (b1 - 192) * 64 + (b2 - 128)
  <2>1. b1 % 32 = b1 - 192
    BY <1>2, <1>3
  <2>2. b2 \in Byte /\ Low6(b2) = b2 - 128
    BY <1>3, ContinuationIsTail
  <2> QED
    BY <2>1, <2>2 DEF CodePoint2, Byte
<1>4. Continuation(b2) <=> b2 \in Tail
  BY ContinuationIsTail
<1>5. CASE b1 \in 192..223 /\ b2 \in Tail
  BY <1>1, <1>3, <1>4, <1>5 DEF Accepts2, WellFormed2, Tail
<1>6. CASE ~(b1 \in 192..223 /\ b2 \in Tail)
  <2>1. ~Accepts2(b1, b2)
    BY <1>1, <1>4, <1>6 DEF Accepts2
  <2>2. ~WellFormed2(b1, b2)
    BY <1>6 DEF WellFormed2, Tail
  <2> QED
    BY <2>1, <2>2
<1> QED
  BY <1>5, <1>6

LEMMA ThreeBytes ==
    ASSUME NEW b1 \in Byte, NEW b2 \in Byte, NEW b3 \in Byte
    PROVE  Accepts3(b1, b2, b3) <=> WellFormed3(b1, b2, b3)
<1>1. b1 \div 16 = 14 <=> b1 \in 224..239
  BY DEF Byte
<1>2. b1 \in 224..239 => b1 % 16 = b1 - 224
  BY DEF Byte
<1>3. ASSUME b1 \in 224..239, b2 \in Tail, b3 \in Tail
      PROVE  CodePoint3(b1, b2, b3) = (b1 - 224) * 4096 + (b2 - 128) * 64 + (b3 - 128)
  <2>1. b1 % 16 = b1 - 224
    BY <1>2, <1>3
  <2>2. b2 \in Byte /\ Low6(b2) = b2 - 128
    BY <1>3, ContinuationIsTail
  <2>3. b3 \in Byte /\ Low6(b3) = b3 - 128
    BY <1>3, ContinuationIsTail
  <2> QED
    BY <2>1, <2>2, <2>3 DEF CodePoint3, Byte
<1>4. /\ Continuation(b2) <=> b2 \in Tail
      /\ Continuation(b3) <=> b3 \in Tail
  BY ContinuationIsTail
<1>5. CASE b1 \in 224..239 /\ b2 \in Tail /\ b3 \in Tail
  BY <1>1, <1>3, <1>4, <1>5 DEF Accepts3, WellFormed3, Tail
<1>6. CASE ~(b1 \in 224..239 /\ b2 \in Tail /\ b3 \in Tail)
  <2>1. ~Accepts3(b1, b2, b3)
    BY <1>1, <1>4, <1>6 DEF Accepts3
  <2>2. ~WellFormed3(b1, b2, b3)
    BY <1>6 DEF WellFormed3, Tail
  <2> QED
    BY <2>1, <2>2
<1> QED
  BY <1>5, <1>6

LEMMA FourBytes ==
    ASSUME NEW b1 \in Byte, NEW b2 \in Byte, NEW b3 \in Byte, NEW b4 \in Byte
    PROVE  Accepts4(b1, b2, b3, b4) <=> WellFormed4(b1, b2, b3, b4)
<1>1. b1 \div 8 = 30 <=> b1 \in 240..247
  BY DEF Byte
<1>2. b1 \in 240..247 => b1 % 8 = b1 - 240
  BY DEF Byte
<1>3. ASSUME b1 \in 240..247, b2 \in Tail, b3 \in Tail, b4 \in Tail
      PROVE  CodePoint4(b1, b2, b3, b4) =
               (b1 - 240) * 262144 + (b2 - 128) * 4096 + (b3 - 128) * 64 + (b4 - 128)
  <2>1. b1 % 8 = b1 - 240
    BY <1>2, <1>3
  <2>2. b2 \in Byte /\ Low6(b2) = b2 - 128
    BY <1>3, ContinuationIsTail
  <2>3. b3 \in Byte /\ Low6(b3) = b3 - 128
    BY <1>3, ContinuationIsTail
  <2>4. b4 \in Byte /\ Low6(b4) = b4 - 128
    BY <1>3, ContinuationIsTail
  <2> QED
    BY <2>1, <2>2, <2>3, <2>4 DEF CodePoint4, Byte
<1>4. /\ Continuation(b2) <=> b2 \in Tail
      /\ Continuation(b3) <=> b3 \in Tail
      /\ Continuation(b4) <=> b4 \in Tail
  BY ContinuationIsTail
<1>5. CASE b1 \in 240..247 /\ b2 \in Tail /\ b3 \in Tail /\ b4 \in Tail
  BY <1>1, <1>3, <1>4, <1>5 DEF Accepts4, WellFormed4, Tail
<1>6. CASE ~(b1 \in 240..247 /\ b2 \in Tail /\ b3 \in Tail /\ b4 \in Tail)
  <2>1. ~Accepts4(b1, b2, b3, b4)
    BY <1>1, <1>4, <1>6 DEF Accepts4
  <2>2. ~WellFormed4(b1, b2, b3, b4)
    BY <1>6 DEF WellFormed4, Tail
  <2> QED
    BY <2>1, <2>2
<1> QED
  BY <1>5, <1>6

\* is_valid_utf8 moves on over exactly the characters that are well-formed by the
\* Unicode standard: no overlong form, no surrogate, nothing above U+10FFFF, and no
\* reading past the 0 that ends the text.
THEOREM Utf8IsWellFormed ==
    ASSUME NEW b1 \in Byte, NEW b2 \in Byte, NEW b3 \in Byte, NEW b4 \in Byte
    PROVE  /\ CharLength(b1, b2, b3, b4) = 1 <=> b1 < 128
           /\ CharLength(b1, b2, b3, b4) = 2 <=> WellFormed2(b1, b2)
           /\ CharLength(b1, b2, b3, b4) = 3 <=> WellFormed3(b1, b2, b3)
           /\ CharLength(b1, b2, b3, b4) = 4 <=> WellFormed4(b1, b2, b3, b4)
<1>1. Accepts1(b1) <=> b1 < 128
  BY DEF Accepts1, Byte
<1>2. /\ Accepts2(b1, b2) => b1 \in 194..223
      /\ Accepts3(b1, b2, b3) => b1 \in 224..239
      /\ Accepts4(b1, b2, b3, b4) => b1 \in 240..244
  BY TwoBytes, ThreeBytes, FourBytes DEF WellFormed2, WellFormed3, WellFormed4
<1>3. CASE Accepts1(b1)
  BY <1>1, <1>2, <1>3, TwoBytes, ThreeBytes, FourBytes DEF CharLength
<1>4. CASE ~Accepts1(b1) /\ Accepts2(b1, b2)
  BY <1>1, <1>2, <1>4, TwoBytes, ThreeBytes, FourBytes DEF CharLength
<1>5. CASE ~Accepts1(b1) /\ ~Accepts2(b1, b2) /\ Accepts3(b1, b2, b3)
  BY <1>1, <1>2, <1>5, TwoBytes, ThreeBytes, FourBytes DEF CharLength
<1>6. CASE ~Accepts1(b1) /\ ~Accepts2(b1, b2) /\ ~Accepts3(b1, b2, b3)
  BY <1>1, <1>2, <1>6, TwoBytes, ThreeBytes, FourBytes DEF CharLength
<1> QED
  BY <1>3, <1>4, <1>5, <1>6

-----------------------------------------------------------------------------
(* Base64 *)

\* The sextets of bytes are sextets, and each is what is read back of its character,
\* in either alphabet; no character of data is taken for the end of the data.
THEOREM AlphabetReadBack ==
    ASSUME NEW s \in Sextet, NEW url \in BOOLEAN
    PROVE  /\ PosOfChar(CharOf(s, url)) = s
           /\ ~EndsData(CharOf(s, url))
           /\ EndsData(Trailing(url))
<1>1. CASE url
  BY <1>1 DEF Sextet, PosOfChar, CharOf, EndsData, Trailing
<1>2. CASE ~url
  BY <1>2 DEF Sextet, PosOfChar, CharOf, EndsData, Trailing
<1> QED
  BY <1>1, <1>2

\* decode of what base64_encode makes of a chunk of three, two or one bytes is the chunk.
THEOREM ChunkReadBack ==
    ASSUME NEW b1 \in Byte, NEW b2 \in Byte, NEW b3 \in Byte
    PROVE  /\ {Sextet1(b1), Sextet2(b1, b2), Sextet3(b2, b3), Sextet4(b3)} \subseteq Sextet
           /\ Byte1(Sextet1(b1), Sextet2(b1, b2)) = b1
           /\ Byte2(Sextet2(b1, b2), Sextet3(b2, b3)) = b2
           /\ Byte3(Sextet3(b2, b3), Sextet4(b3)) = b3
<1>1. PICK h1 \in 0..63, l1 \in 0..3 : b1 = h1 * 4 + l1 /\ b1 \div 4 = h1 /\ b1 % 4 = l1
  BY DEF Byte
<1>2. PICK h2 \in 0..15, l2 \in 0..15 : b2 = h2 * 16 + l2 /\ b2 \div 16 = h2 /\ b2 % 16 = l2
  BY DEF Byte
<1>3. PICK h3 \in 0..3, l3 \in 0..63 : b3 = h3 * 64 + l3 /\ b3 \div 64 = h3 /\ b3 % 64 = l3
  BY DEF Byte
<1>4. Sextet1(b1) = h1 /\ Sextet2(b1, b2) = l1 * 16 + h2
      /\ Sextet3(b2, b3) = l2 * 4 + h3 /\ Sextet4(b3) = l3
  BY <1>1, <1>2, <1>3 DEF Sextet1, Sextet2, Sextet3, Sextet4
<1>5. /\ (l1 * 16 + h2) \div 16 = l1 /\ (l1 * 16 + h2) % 16 = h2
      /\ (l2 * 4 + h3) \div 4 = l2 /\ (l2 * 4 + h3) % 4 = h3
  OBVIOUS
<1>6. h1 * 4 + l1 \in 0..255 /\ h2 * 16 + l2 \in 0..255 /\ h3 * 64 + l3 \in 0..255
  OBVIOUS
<1>7. \A n \in 0..255 : n % 256 = n
  OBVIOUS
<1>8. Byte1(h1, l1 * 16 + h2) = b1
  BY <1>1, <1>5, <1>6, <1>7 DEF Byte1
<1>9. Byte2(l1 * 16 + h2, l2 * 4 + h3) = b2
  BY <1>2, <1>5, <1>6, <1>7 DEF Byte2
<1>10. Byte3(l2 * 4 + h3, l3) = b3
  BY <1>3, <1>5, <1>6, <1>7 DEF Byte3
<1>11. l1 * 16 + h2 \in 0..63 /\ l2 * 4 + h3 \in 0..63
  OBVIOUS
<1> QED
  BY <1>4, <1>8, <1>9, <1>10, <1>11 DEF Sextet

-----------------------------------------------------------------------------
(* The header of a frame *)

\* A number is its last byte and the rest.
LEMMA LastByte ==
    ASSUME NEW n \in Nat
    PROVE  n \div 256 \in Nat /\ (n \div 256) * 256 + (n % 256) = n
<1>1. n \div 256 \in Nat /\ n % 256 \in 0..255
  OBVIOUS
<1>2. n = 256 * (n \div 256) + (n % 256)
  OBVIOUS
<1> QED
  BY <1>1, <1>2

\* processFrame reads the length that sendFrame wrote, for every length of 64 bits.
THEOREM LengthReadBack ==
    ASSUME NEW len \in Nat, len < 256 * Pow8(7)
    PROVE  LengthRead(LengthCode(len), [i \in 0..7 |-> LengthByte(len, i)]) = len
<1> DEFINE data == [i \in 0..7 |-> LengthByte(len, i)]
           d(i) == LengthByte(len, i)
           r(i) == len \div Pow8(i)
<1>1. CASE len < 126
  BY <1>1 DEF LengthCode, LengthRead
<1>2. CASE len >= 126 /\ len < 65536
  <2>1. LengthRead(LengthCode(len), data) = d(1) * 256 + d(0)
    BY <1>2 DEF LengthCode, LengthRead
  <2>2. d(0) = len % 256 /\ d(1) = len \div 256
    BY <1>2 DEF LengthByte, Pow8
  <2> QED
    BY <2>1, <2>2, LastByte
<1>3. CASE len >= 65536
  <2>1. LengthRead(LengthCode(len), data) =
          ((((((d(7) * 256 + d(6)) * 256 + d(5)) * 256 + d(4)) * 256 + d(3)) * 256 + d(2)) * 256
            + d(1)) * 256 + d(0)
    BY <1>3 DEF LengthCode, LengthRead
  <2>2. /\ r(0) = len /\ r(1) = r(0) \div 256 /\ r(2) = r(1) \div 256 /\ r(3) = r(2) \div 256
        /\ r(4) = r(3) \div 256 /\ r(5) = r(4) \div 256 /\ r(6) = r(5) \div 256
        /\ r(7) = r(6) \div 256
    BY DEF Pow8
  <2>3. d(7) = r(7)
    BY DEF LengthByte, Pow8
  <2>4. /\ d(0) = r(0) % 256 /\ d(1) = r(1) % 256 /\ d(2) = r(2) % 256 /\ d(3) = r(3) % 256
        /\ d(4) = r(4) % 256 /\ d(5) = r(5) % 256 /\ d(6) = r(6) % 256
    BY DEF LengthByte
  <2> HIDE DEF d, r
  <2>5. /\ r(0) \in Nat /\ r(1) \in Nat /\ r(2) \in Nat /\ r(3) \in Nat
        /\ r(4) \in Nat /\ r(5) \in Nat /\ r(6) \in Nat
    BY <2>2, LastByte
  <2>6. d(7) * 256 + d(6) = r(6)
    BY <2>2, <2>3, <2>4, <2>5, LastByte
  <2>7. r(6) * 256 + d(5) = r(5)
    BY <2>2, <2>4, <2>5, LastByte
  <2>8. r(5) * 256 + d(4) = r(4)
    BY <2>2, <2>4, <2>5, LastByte
  <2>9. r(4) * 256 + d(3) = r(3)
    BY <2>2, <2>4, <2>5, LastByte
  <2>10. r(3) * 256 + d(2) = r(2)
    BY <2>2, <2>4, <2>5, LastByte
  <2>11. r(2) * 256 + d(1) = r(1)
    BY <2>2, <2>4, <2>5, LastByte
  <2>12. r(1) * 256 + d(0) = r(0)
    BY <2>2, <2>4, <2>5, LastByte
  <2> QED
    BY <2>1, <2>2, <2>6, <2>7, <2>8, <2>9, <2>10, <2>11, <2>12
<1> QED
  BY <1>1, <1>2, <1>3

=============================================================================
