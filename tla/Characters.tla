----------------------------- MODULE Characters -----------------------------
(***************************************************************************)
(* ASCII, as the readers of short forms use it: the alphabets they accept  *)
(* and the codes of the characters, for text that travels as bytes.        *)
(***************************************************************************)
EXTENDS TLC, Integers, SequencesExt

UPPER == <<"A", "B", "C", "D", "E", "F", "G", "H", "I", "J", "K", "L", "M", "N", "O", "P", "Q",
           "R", "S", "T", "U", "V", "W", "X", "Y", "Z">>
LOWER == <<"a", "b", "c", "d", "e", "f", "g", "h", "i", "j", "k", "l", "m", "n", "o", "p", "q",
           "r", "s", "t", "u", "v", "w", "x", "y", "z">>
DIGITS == <<"0", "1", "2", "3", "4", "5", "6", "7", "8", "9">>

\* The place of each character in an alphabet, from 0.
PlaceIn(alphabet) == [c \in Range(alphabet) |-> (CHOOSE i \in DOMAIN alphabet : alphabet[i] = c) - 1]

DigitOf    == PlaceIn(DIGITS)
IsDecimal(c) == c \in DOMAIN DigitOf
AsciiSpace == {" ", "nl", "cr", "tab", "ff"}

\* to_ascii_uppercase.
UpperOf(c) == IF c \in Range(LOWER) THEN UPPER[PlaceIn(LOWER)[c] + 1] ELSE c
UpperCase(s) == [i \in DOMAIN s |-> UpperOf(s[i])]

\* The codes of the characters a key is written with.
CodesFrom(first, alphabet) == [c \in Range(alphabet) |-> first + PlaceIn(alphabet)[c]]
Ascii == CodesFrom(65, UPPER) @@ CodesFrom(97, LOWER) @@ CodesFrom(48, DIGITS)
           @@ ":" :> 58 @@ " " :> 32 @@ "+" :> 43 @@ "/" :> 47 @@ "=" :> 61
AsBytes(s) == [i \in DOMAIN s |-> Ascii[s[i]]]

\* from_utf8, of bytes that are ASCII; other text is of no interest to a reader.
CharOf == [b \in Range(Ascii) |-> CHOOSE c \in DOMAIN Ascii : Ascii[c] = b]
AsText(bytes) == IF Range(bytes) \subseteq DOMAIN CharOf THEN [i \in DOMAIN bytes |-> CharOf[bytes[i]]] ELSE <<>>

-----------------------------------------------------------------------------
\* trim_start_matches and str::trim over a set of characters.
TrimStartOf(s, set) ==
  LET kept == {i \in DOMAIN s : s[i] \notin set}
  IN  IF kept = {} THEN <<>> ELSE SubSeq(s, Min(kept), Len(s))
TrimEndOf(s, set) == Reverse(TrimStartOf(Reverse(s), set))

\* find: where a character first occurs in s, or 0.
FindIn(s, c) == LET at == {i \in DOMAIN s : s[i] = c} IN IF at = {} THEN 0 ELSE Min(at)

Before(s, i) == SubSeq(s, 1, i - 1)
After(s, i)  == SubSeq(s, i + 1, Len(s))

=============================================================================
