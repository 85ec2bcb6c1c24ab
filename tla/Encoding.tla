------------------------------ MODULE Encoding ------------------------------
(***************************************************************************)
(* Hexadecimal and Base64 (encoding.rs).  The decoders take more spellings *)
(* than the encoders write: both cases, both Base64 alphabets, white space *)
(* anywhere, padding or none.                                              *)
(***************************************************************************)
EXTENDS Catalogue, Characters

HEX_UPPER == DIGITS \o SubSeq(UPPER, 1, 6)
HEX_LOWER == DIGITS \o SubSeq(LOWER, 1, 6)

\* hex_val.
HexVal == PlaceIn(HEX_UPPER) @@ PlaceIn(HEX_LOWER)
HexDigits == DOMAIN HexVal

WithoutPrefix(s) ==
  IF Len(s) >= 2 /\ s[1] = "0" /\ s[2] \in {"x", "X"} THEN SubSeq(s, 3, Len(s)) ELSE s

\* What is left of s without the characters of a set.
Leaving(s, set) ==
  LET left[i \in 0 .. Len(s)] ==
        IF i = 0 THEN <<>> ELSE IF s[i] \in set THEN left[i - 1] ELSE Append(left[i - 1], s[i])
  IN  left[Len(s)]

PairsToBytes(s) ==
  IF Len(s) % 2 # 0 THEN NONE
  ELSE [i \in 1 .. Len(s) \div 2 |-> 16 * HexVal[s[2 * i - 1]] + HexVal[s[2 * i]]]

HexOnly(s) == IF Range(s) \subseteq HexDigits THEN PairsToBytes(s) ELSE NONE
HexDecode(s) == HexOnly(Leaving(WithoutPrefix(s), AsciiSpace))

\* Every character that is no digit is skipped.
HexDecodeLossy(s) == PairsToBytes(Leaving(WithoutPrefix(s), Range(s) \ HexDigits))

HexOf(bytes, digit) ==
  [i \in 1 .. 2 * Len(bytes) |->
     IF i % 2 = 1 THEN digit[(bytes[(i + 1) \div 2] \div 16) + 1]
     ELSE digit[(bytes[i \div 2] % 16) + 1]]
HexEncode(bytes)      == HexOf(bytes, HEX_LOWER)
HexEncodeUpper(bytes) == HexOf(bytes, HEX_UPPER)

-----------------------------------------------------------------------------
BASE64 == UPPER \o LOWER \o DIGITS \o <<"+", "/">>

\* b64_val: either alphabet.
Base64Val == PlaceIn(BASE64) @@ "-" :> 62 @@ "_" :> 63

\* What a number of bits can count.
Span == [bits \in {0, 2, 4} |-> IF bits = 0 THEN 1 ELSE IF bits = 2 THEN 4 ELSE 16]

\* Six bits more; acc holds the bits that are not yet a byte.
Take6(state, v) ==
  LET acc == state.acc * 64 + v
  IN  IF state.bits < 2 THEN [out |-> state.out, acc |-> acc, bits |-> state.bits + 6]
      ELSE [out |-> Append(state.out, acc \div Span[state.bits - 2]),
            acc |-> acc % Span[state.bits - 2], bits |-> state.bits - 2]

\* Mutant of Finished: bits that are left over are dropped.
FinishedEarly(state) == IF state.bits >= 6 THEN NONE ELSE state.out

\* Leftover bits must be zero padding, never data.
Finished(state) == IF state.bits >= 6 \/ state.acc # 0 THEN NONE ELSE state.out

Sextets(s) ==
  LET state[i \in 0 .. Len(s)] ==
        IF i = 0 THEN [out |-> <<>>, acc |-> 0, bits |-> 0] ELSE Take6(state[i - 1], Base64Val[s[i]])
  IN  IF Range(s) \subseteq DOMAIN Base64Val THEN Finished(state[Len(s)]) ELSE NONE
Base64Decode(s) == Sextets(Leaving(s, AsciiSpace \union {"="}))

\* A chunk of up to three bytes as four characters.
Chunk(n, len) ==
  [i \in 1 .. 4 |->
     IF i > len + 1 THEN "=" ELSE BASE64[1 + (<<n \div 262144, n \div 4096, n \div 64, n>>[i] % 64)]]
ChunkFrom(b, at) ==
  LET byte(i) == IF i \in DOMAIN b THEN b[i] ELSE 0
  IN  Chunk(byte(at) * 65536 + byte(at + 1) * 256 + byte(at + 2), Min({3, Len(b) - at + 1}))
Base64Encode(b) ==
  [i \in 1 .. 4 * ((Len(b) + 2) \div 3) |-> ChunkFrom(b, 3 * ((i - 1) \div 4) + 1)[1 + ((i - 1) % 4)]]

-----------------------------------------------------------------------------
\* The alphabets: a digit is read as what it is written for, and no digit is white
\* space, padding or the mark of a prefix.
ASSUME HexAlphabet ==
  /\ Len(HEX_UPPER) = 16
  /\ \A k \in 1 .. 16 : HEX_UPPER[k] \in HexDigits /\ HexVal[HEX_UPPER[k]] = k - 1
  /\ \A c \in HexDigits : HexVal[c] \in 0 .. 15 /\ HEX_UPPER[HexVal[c] + 1] = UpperOf(c)
  /\ HexDigits \intersect (AsciiSpace \union {"x", "X"}) = {}
ASSUME Base64Alphabet ==
  /\ Len(BASE64) = 64
  /\ \A k \in 1 .. 64 : BASE64[k] \in DOMAIN Base64Val /\ Base64Val[BASE64[k]] = k - 1
  /\ \A c \in DOMAIN Base64Val :
       /\ Base64Val[c] \in 0 .. 63
       /\ BASE64[Base64Val[c] + 1] = CASE c = "-" -> "+" [] c = "_" -> "/" [] OTHER -> c
  /\ DOMAIN Base64Val \intersect (AsciiSpace \union {"="}) = {}

=============================================================================
