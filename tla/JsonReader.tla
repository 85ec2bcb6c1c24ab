----------------------------- MODULE JsonReader -----------------------------
(***************************************************************************)
(* The JSON reader (json.rs): one pass over a text, value by value, that   *)
(* keeps where each value was found, bounds the nesting and the members of *)
(* an object, and reports what JSON does not allow and stations write.     *)
(*                                                                         *)
(* A text is a sequence of symbols: a structural character is one, and so  *)
(* is a word, a run of letters or digits that nothing looks into.  The     *)
(* code recurses; here the calls that have not returned are the stack.     *)
(***************************************************************************)
EXTENDS Catalogue, Integers, Sequences

CONSTANTS
  Limits,    \* [record, payload, readings, depth, object_members : Nat]
  HARD_DEPTH, \* the nesting that no limit exceeds
  Symbols    \* what texts are made of

ASSUME LimitsAssumption ==
  /\ Limits \in [{"record", "payload", "readings", "depth", "object_members"} -> Nat]
  /\ HARD_DEPTH \in Nat

-----------------------------------------------------------------------------
(***************************************************************************)
(* Symbols.  "nl" is a line feed, "ff" a form feed (white space between    *)
(* sections and around the record, not in JSON), "^" any other control     *)
(* character.  A group of four hexadecimal digits is one symbol.           *)
(***************************************************************************)
QUOTE     == "\""
BACKSLASH == "\\"
LBRACE    == "{"
RBRACE    == "}"
COMMA     == ","
SP        == " "
JsonSpace == {SP, "nl"}
Space     == JsonSpace \union {"ff"}
Control   == {"nl", "ff", "^"}
Digit     == {"0", "1", "2", "3"}
Literal   == {"true", "false", "null"}

\* What a backslash and a letter stand for.
Simple == [c \in {QUOTE, BACKSLASH, "/", "b", "f", "n", "r", "t"} |->
             IF c \in {QUOTE, BACKSLASH, "/"} THEN c
             ELSE IF c = "f" THEN "ff" ELSE IF c = "n" THEN "nl" ELSE "^"]

\* What four digits stand for: a character, or one half of a surrogate pair.
Hex  == [c \in {"004E", "006B", "0009", "000C"} |->
           IF c = "004E" THEN "N" ELSE IF c = "006B" THEN "k" ELSE IF c = "0009" THEN "^" ELSE "ff"]
High == {"D83D"}
Low  == {"DE00"}
Hex4 == DOMAIN Hex \union High \union Low

\* What has a meaning here is a symbol; the end of a text and a text that is not
\* there are told from every symbol and from every text.
ASSUME SymbolsAssumption ==
  /\ Space \union Control \union Digit \union Literal \union Hex4 \subseteq Symbols
  /\ {LBRACE, RBRACE, "[", "]", ":", COMMA, QUOTE, BACKSLASH, "|", "-", "+", ".", "e", "u", "/", "N", "k",
      "pair", "FFFD"} \subseteq Symbols
  /\ NONE \notin Symbols
  /\ NONE \notin Seq(Symbols)

\* The symbol at position i of s, or NONE at the end of input.
At(s, i) == IF i \in DOMAIN s THEN s[i] ELSE NONE

\* The first position from i on that holds no symbol of S.
PastAll(s, i, S) == CHOOSE j \in i .. Len(s) + 1 :
                      /\ At(s, j) \notin S
                      /\ \A k \in i .. j - 1 : s[k] \in S

SkipSpace(s, i) == PastAll(s, i, JsonSpace)

Blank == Space \union {"cr"}

\* str::trim.
Trim(t) ==
  LET kept == {i \in DOMAIN t : t[i] \notin Blank} IN
  IF kept = {} THEN <<>>
  ELSE SubSeq(t, CHOOSE i \in kept : \A k \in kept : i <= k,
                 CHOOSE i \in kept : \A k \in kept : k <= i)

(***************************************************************************)
(* RawStr::decode.  An escape nobody defines is the character after the    *)
(* backslash, and half a pair is the replacement character "FFFD".  The    *)
(* bad group of a \u costs its first character.                            *)
(***************************************************************************)
IsPair(s, i) == /\ At(s, i) \in High
                /\ At(s, i + 1) = BACKSLASH /\ At(s, i + 2) = "u" /\ At(s, i + 3) \in Low

\* The symbols an escape at i takes, and the character it stands for.
EscapeLength(s, i) ==
  IF At(s, i + 1) # "u" THEN 2 ELSE IF IsPair(s, i + 2) THEN 6 ELSE 3

EscapeMeans(s, i) ==
  IF At(s, i + 1) \in DOMAIN Simple THEN Simple[s[i + 1]]
  ELSE IF At(s, i + 1) # "u" THEN s[i + 1]
  ELSE IF At(s, i + 2) \in DOMAIN Hex THEN Hex[s[i + 2]]
  ELSE IF IsPair(s, i + 2) THEN "pair"
  ELSE "FFFD"

Decode(raw) ==
  LET from[i \in 1 .. Len(raw) + 6] ==
        IF i > Len(raw) THEN <<>>
        ELSE IF raw[i] # BACKSLASH THEN <<raw[i]>> \o from[i + 1]
        ELSE IF i = Len(raw) THEN <<>>
        ELSE <<EscapeMeans(raw, i)>> \o from[i + EscapeLength(raw, i)]
  IN from[1]

\* report_escape: whether JSON defines the escape at position i of the text.
IsDefinedEscape(s, i) ==
  \/ At(s, i + 1) \in DOMAIN Simple
  \/ At(s, i + 1) = "u" /\ (At(s, i + 2) \in DOMAIN Hex \/ IsPair(s, i + 2))

(***************************************************************************)
(* Values.  raw is what a string holds between its quotes, or a number or  *)
(* a literal as written; an object has as many names as items.             *)
(***************************************************************************)
Atom(kind, at, end, raw) ==
  [kind |-> kind, at |-> at, end |-> end, raw |-> raw, names |-> <<>>, items |-> <<>>]

\* Object::get takes the last member of that (decoded) name.
Named(o, name) == {m \in DOMAIN o.names : Decode(o.names[m]) = <<name>>}
Latest(o, M) == IF M = {} THEN NONE ELSE o.items[CHOOSE m \in M : \A k \in M : k <= m]
Get(o, name) == Latest(o, Named(o, name))
Has(o, name) == Get(o, name) # NONE

\* Object::extras: the members whose name is not a known one.
Extras(o, known) ==
  {m \in DOMAIN o.names : Decode(o.names[m]) \notin {<<name>> : name \in known}}

-----------------------------------------------------------------------------
VARIABLES
  text,      \* the whole input
  pos,       \* the next symbol
  depth,     \* the nesting the reader counts
  stack,     \* the arrays and objects that are open
  mode,      \* what the reader expects
  start,     \* where the open string began
  value,     \* the last value that was completed outside any other
  dev,       \* the kinds of deviation reported
  error      \* NONE, or why reading stopped

json == <<text, pos, depth, stack, mode, start, value, dev, error>>

Peek == At(text, pos)
Top  == stack[Len(stack)]

\* Parser::err and the bounds: reading ends here.
Stop(why) ==
  /\ error' = why
  /\ mode' = "stopped"
  /\ UNCHANGED <<text, pos, depth, stack, start, value, dev>>

\* A value is complete: it is what was asked for, or the next item of what is
\* open.  Closing forgets the frame that held it.
Complete(v, frames) ==
  /\ pos' = v.end
  /\ IF frames = <<>>
     THEN value' = v /\ stack' = <<>> /\ mode' = "complete"
     ELSE /\ stack' = [frames EXCEPT ![Len(frames)].items = Append(@, v)]
          /\ mode' = "next"
          /\ UNCHANGED value

-----------------------------------------------------------------------------
(***************************************************************************)
(* value: the first symbol decides.                                        *)
(***************************************************************************)
BeginValue(at) ==
  /\ pos' = SkipSpace(text, at)
  /\ mode' = "value"
  /\ depth' = 0
  /\ stack' = <<>>
  /\ value' = NONE

Bound == IF Limits.depth <= HARD_DEPTH THEN Limits.depth ELSE HARD_DEPTH

\* enter, then the first thing inside: an array or object may close at once.
Open ==
  /\ mode = "value" /\ Peek \in {LBRACE, "["}
  /\ depth < Bound
  /\ depth' = depth + 1
  /\ stack' = Append(stack, Atom(IF Peek = LBRACE THEN "object" ELSE "array", pos, pos, <<>>))
  /\ pos' = SkipSpace(text, pos + 1)
  /\ mode' = IF At(text, SkipSpace(text, pos + 1)) = (IF Peek = LBRACE THEN RBRACE ELSE "]")
             THEN "close" ELSE IF Peek = LBRACE THEN "name" ELSE "value"
  /\ UNCHANGED <<text, start, value, dev, error>>

TooDeep ==
  /\ mode = "value" /\ Peek \in {LBRACE, "["}
  /\ depth >= Bound
  /\ Stop("LimitExceeded: depth")

OpenString ==
  /\ \/ mode = "value" /\ Peek = QUOTE
     \/ mode = "name" /\ Peek = QUOTE
  /\ start' = pos
  /\ pos' = pos + 1
  /\ mode' = IF mode = "name" THEN "in_name" ELSE "in_string"
  /\ UNCHANGED <<text, depth, stack, value, dev, error>>

ReadLiteral ==
  /\ mode = "value" /\ Peek \in Literal
  /\ Complete(Atom(IF Peek = "null" THEN "null" ELSE "boolean", pos, pos + 1, <<Peek>>), stack)
  /\ UNCHANGED <<text, depth, start, dev, error>>

\* Where the integer, the fraction and the exponent of a number end, if each
\* has the digits it needs; NONE where one has not.
IntegerStart == IF Peek = "-" THEN pos + 1 ELSE pos
Digits(i)    == IF i = NONE \/ At(text, i) \notin Digit THEN NONE ELSE PastAll(text, i, Digit)
FractionEnd(i) == IF At(text, i) = "." THEN Digits(i + 1) ELSE i
ExponentEnd(i) ==
  IF i = NONE \/ At(text, i) # "e" THEN i
  ELSE Digits(IF At(text, i + 1) \in {"+", "-"} THEN i + 2 ELSE i + 1)
IntegerEnd == Digits(IntegerStart)
NumberEnd  == IF IntegerEnd = NONE THEN NONE ELSE ExponentEnd(FractionEnd(IntegerEnd))

LeadingZero == text[IntegerStart] = "0" /\ IntegerEnd > IntegerStart + 1

ReadNumber ==
  /\ mode = "value" /\ Peek \in Digit \union {"-"}
  /\ NumberEnd # NONE
  /\ Complete(Atom("number", pos, NumberEnd, SubSeq(text, pos, NumberEnd - 1)), stack)
  /\ dev' = dev \union (IF LeadingZero THEN {"NonCanonicalNumber"} ELSE {})
  /\ UNCHANGED <<text, depth, start, error>>

\* A value, a name, a digit, a colon or a comma was expected and is not there.
Expected ==
  /\ \/ mode = "value" /\ Peek \notin {LBRACE, "[", QUOTE, "-"} \union Literal \union Digit
     \/ mode = "value" /\ Peek \in Digit \union {"-"} /\ NumberEnd = NONE
     \/ mode = "name" /\ Peek # QUOTE
     \/ mode = "colon" /\ Peek # ":"
     \/ mode = "next" /\ At(text, SkipSpace(text, pos)) \notin
                            {COMMA, IF Top.kind = "object" THEN RBRACE ELSE "]"}
     \/ mode \in {"in_name", "in_string"} /\ Peek = NONE
     \/ mode \in {"in_name", "in_string"} /\ Peek = BACKSLASH /\ At(text, pos + 1) = NONE
  /\ Stop("Json")

-----------------------------------------------------------------------------
(***************************************************************************)
(* string: up to the quote that no backslash precedes.                     *)
(***************************************************************************)
InString == mode \in {"in_name", "in_string"} /\ Peek # NONE

ReadPlain ==
  /\ InString /\ Peek \notin {QUOTE, BACKSLASH}
  /\ pos' = pos + 1
  /\ dev' = dev \union (IF Peek \in Control THEN {"ControlCharacterInString"} ELSE {})
  /\ UNCHANGED <<text, depth, stack, mode, start, value, error>>

\* Mutant of EscapedFrom: the reader does not move.
EscapedFromHere(i) == i

\* Past the backslash and the character after it; the digits of a \u are read
\* as the plain characters they are.
EscapedFrom(i) == i + 2

ReadEscape ==
  /\ InString /\ Peek = BACKSLASH /\ At(text, pos + 1) # NONE
  /\ pos' = EscapedFrom(pos)
  /\ dev' = dev \union (IF IsDefinedEscape(text, pos) THEN {} ELSE {"InvalidStringEscape"})
  /\ UNCHANGED <<text, depth, stack, mode, start, value, error>>

Raw == SubSeq(text, start + 1, pos - 1)

CloseString ==
  /\ mode = "in_string" /\ Peek = QUOTE
  /\ Complete(Atom("string", start, pos + 1, Raw), stack)
  /\ UNCHANGED <<text, depth, start, dev, error>>

\* Mutant of IsDuplicate: names are compared as they are written.
IsDuplicateRaw(raw, names)  == \E m \in DOMAIN names : names[m] = raw

IsDuplicate(raw, names) == \E m \in DOMAIN names : Decode(names[m]) = Decode(raw)

CloseName ==
  /\ mode = "in_name" /\ Peek = QUOTE
  /\ Len(Top.items) < Limits.object_members
  /\ stack' = [stack EXCEPT ![Len(stack)].names = Append(@, Raw)]
  /\ dev' = dev \union (IF IsDuplicate(Raw, Top.names) THEN {"DuplicateKey"} ELSE {})
  /\ pos' = SkipSpace(text, pos + 1)
  /\ mode' = "colon"
  /\ UNCHANGED <<text, depth, start, value, error>>

TooManyMembers ==
  /\ mode = "in_name" /\ Peek = QUOTE
  /\ Len(Top.items) >= Limits.object_members
  /\ Stop("LimitExceeded: object members")

-----------------------------------------------------------------------------
(***************************************************************************)
(* array and object: what follows a name and an item.                      *)
(***************************************************************************)
Colon ==
  /\ mode = "colon" /\ Peek = ":"
  /\ pos' = SkipSpace(text, pos + 1)
  /\ mode' = "value"
  /\ UNCHANGED <<text, depth, stack, start, value, dev, error>>

Next_ == SkipSpace(text, pos)

Comma ==
  /\ mode = "next" /\ At(text, Next_) = COMMA
  /\ pos' = SkipSpace(text, Next_ + 1)
  /\ mode' = IF Top.kind = "object" THEN "name" ELSE "value"
  /\ UNCHANGED <<text, depth, stack, start, value, dev, error>>

\* Mutant of Left: the way out of an empty array or object does not count.
LeftUnlessEmpty == IF mode = "close" THEN depth ELSE depth - 1

Left == depth - 1

Close ==
  /\ mode \in {"close", "next"}
  /\ At(text, Next_) = (IF Top.kind = "object" THEN RBRACE ELSE "]")
  /\ depth' = Left
  /\ Complete([Top EXCEPT !.end = Next_ + 1], SubSeq(stack, 1, Len(stack) - 1))
  /\ UNCHANGED <<text, start, dev, error>>

ReadJson ==
  \/ Open \/ TooDeep \/ OpenString \/ ReadLiteral \/ ReadNumber \/ Expected
  \/ ReadPlain \/ ReadEscape \/ CloseString \/ CloseName \/ TooManyMembers
  \/ Colon \/ Comma \/ Close

=============================================================================
