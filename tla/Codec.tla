-------------------------------- MODULE Codec --------------------------------
(***************************************************************************)
(* The byte formats of the module, as functions: one character of UTF-8    *)
(* (stream_utils.cpp), one quantum of base64 (base64.cpp), and the header  *)
(* of a WebSocket frame (ws_client.cpp).  Each comes with a definition of  *)
(* what it should be, taken from the standard.  CodecProofs has theorems   *)
(* that say they agree.                                                    *)
(*                                                                         *)
(* The code masks and shifts unsigned numbers: & with a mask of low bits   *)
(* is a remainder, a shift to the right a division, and | of numbers with  *)
(* no bit in common a sum.                                                 *)
(***************************************************************************)
EXTENDS Naturals

Byte == 0..255

-----------------------------------------------------------------------------
(* UTF-8: is_valid_utf8 looks at the character str points to *)

Continuation(b) == b \div 64 = 2

\* What is left of the bytes when the marks of their place are taken off.
Low6(b) == b % 64
CodePoint2(b1, b2) == (b1 % 32) * 64 + Low6(b2)
CodePoint3(b1, b2, b3) == (b1 % 16) * 4096 + Low6(b2) * 64 + Low6(b3)
CodePoint4(b1, b2, b3, b4) == (b1 % 8) * 262144 + Low6(b2) * 4096 + Low6(b3) * 64 + Low6(b4)

Accepts1(b1) == b1 \div 128 = 0

Accepts2(b1, b2) ==
    /\ b1 \div 32 = 6 /\ Continuation(b2)
    /\ CodePoint2(b1, b2) >= 128

Accepts3(b1, b2, b3) ==
    /\ b1 \div 16 = 14 /\ Continuation(b2) /\ Continuation(b3)
    /\ CodePoint3(b1, b2, b3) >= 2048
    /\ ~(CodePoint3(b1, b2, b3) >= 55296 /\ CodePoint3(b1, b2, b3) <= 57343)

Accepts4(b1, b2, b3, b4) ==
    /\ b1 \div 8 = 30 /\ Continuation(b2) /\ Continuation(b3) /\ Continuation(b4)
    /\ CodePoint4(b1, b2, b3, b4) >= 65536
    /\ CodePoint4(b1, b2, b3, b4) <= 1114111

\* How far str is moved on; 0 where the text is refused.  A byte 0 ends the text.
CharLength(b1, b2, b3, b4) ==
    CASE Accepts1(b1) -> 1
      [] Accepts2(b1, b2) -> 2
      [] Accepts3(b1, b2, b3) -> 3
      [] Accepts4(b1, b2, b3, b4) -> 4
      [] OTHER -> 0

\* The Unicode standard, table 3-7: well-formed byte sequences.
Tail == 128..191
WellFormed2(b1, b2) == b1 \in 194..223 /\ b2 \in Tail
WellFormed3(b1, b2, b3) ==
    /\ b3 \in Tail
    /\ \/ b1 = 224 /\ b2 \in 160..191
       \/ b1 \in (225..236) \union {238, 239} /\ b2 \in Tail
       \/ b1 = 237 /\ b2 \in 128..159
WellFormed4(b1, b2, b3, b4) ==
    /\ b3 \in Tail /\ b4 \in Tail
    /\ \/ b1 = 240 /\ b2 \in 144..191
       \/ b1 \in 241..243 /\ b2 \in Tail
       \/ b1 = 244 /\ b2 \in 128..143

-----------------------------------------------------------------------------
(* Base64 *)

Sextet == 0..63

\* base64_encode: the four sextets of a chunk of three bytes; in the last chunk, where
\* bytes are missing, they are taken for 0 and the sextets made of nothing else are
\* replaced by the trailing character.
Sextet1(b1) == b1 \div 4
Sextet2(b1, b2) == (b1 % 4) * 16 + b2 \div 16
Sextet3(b2, b3) == (b2 % 16) * 4 + b3 \div 64
Sextet4(b3) == b3 % 64

\* decode: the three bytes of a chunk; push_back keeps the low eight bits.
Byte1(s1, s2) == (s1 * 4 + s2 \div 16) % 256
Byte2(s2, s3) == ((s2 % 16) * 16 + s3 \div 4) % 256
Byte3(s3, s4) == ((s3 % 4) * 64 + s4) % 256

\* base64_chars, as codes: A-Z, a-z, 0-9 and two that depend on url.
CharOf(s, url) ==
    CASE s \in 0..25 -> s + 65
      [] s \in 26..51 -> s - 26 + 97
      [] s \in 52..61 -> s - 52 + 48
      [] s = 62 -> IF url THEN 45 ELSE 43
      [] OTHER -> IF url THEN 95 ELSE 47

Trailing(url) == IF url THEN 46 ELSE 61

\* pos_of_char throws for what is in none of the two alphabets.
Thrown == 64
PosOfChar(c) ==
    CASE c \in 65..90 -> c - 65
      [] c \in 97..122 -> c - 97 + 25 + 1
      [] c \in 48..57 -> c - 48 + 25 + 25 + 2
      [] c \in {43, 45} -> 62
      [] c \in {47, 95} -> 63
      [] OTHER -> Thrown

\* decode takes these for the end of the data.
EndsData(c) == c \in {61, 46}

-----------------------------------------------------------------------------
(* The header of a frame *)

Pow8(n) == CASE n = 0 -> 1 [] n = 1 -> 256 [] n = 2 -> 65536 [] n = 3 -> 16777216
             [] n = 4 -> 4294967296 [] n = 5 -> 1099511627776
             [] n = 6 -> 281474976710656 [] n = 7 -> 72057594037927936

\* sendFrame: what the second byte says of the length, and the bytes that follow it.
LengthCode(len) == IF len < 126 THEN len ELSE IF len < 65536 THEN 126 ELSE 127
LengthByte(len, i) == (len \div Pow8(i)) % 256

\* sendFrame masks; servers need not.
HeaderSize(code, masked) ==
    2 + (IF code = 126 THEN 2 ELSE IF code = 127 THEN 8 ELSE 0) + (IF masked THEN 4 ELSE 0)

SentHeaderSize(len) == HeaderSize(LengthCode(len), TRUE)

\* processFrame: the length, from the code and the bytes data[i], i counted from the end.
LengthRead(code, data) ==
    CASE code = 126 -> data[1] * 256 + data[0]
      [] code = 127 -> ((((((data[7] * 256 + data[6]) * 256 + data[5]) * 256 + data[4]) * 256
                         + data[3]) * 256 + data[2]) * 256 + data[1]) * 256 + data[0]
      [] OTHER -> code

=============================================================================
