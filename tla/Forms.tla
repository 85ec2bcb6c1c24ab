-------------------------------- MODULE Forms --------------------------------
(***************************************************************************)
(* The short forms of a record: signature bytes, keys, times, OBIS codes,  *)
(* hexadecimal and Base64.  The library is given the text of one, or the   *)
(* value, and reads what it was given or writes it; then it writes what it *)
(* read or reads what it wrote.                                            *)
(***************************************************************************)
EXTENDS Scalar, PublicKeys, CivilTime, Obis

CONSTANT OrderOf \* the order of a curve's base point

VARIABLES
  asked,   \* NONE, or [kind, text] or [kind, value], with what a kind needs besides
  turn,    \* "first", "second" or "done"
  answer,  \* what was read
  written  \* what was written

forms == <<asked, turn, answer, written>>

NothingAsked == asked = NONE /\ turn = "first" /\ answer = NONE /\ written = NONE

Ask(question) == asked = NONE /\ asked' = question /\ UNCHANGED <<turn, answer, written>>

About(kind) == asked # NONE /\ asked.kind = kind
IsGiven(field) == field \in DOMAIN asked

Reads(kind)  == About(kind) /\ turn = (IF IsGiven("text") THEN "first" ELSE "second")
Writes(kind) == About(kind) /\ turn = (IF IsGiven("text") THEN "second" ELSE "first")

Spelling == IF IsGiven("text") THEN asked.text ELSE written
Content == IF IsGiven("text") THEN answer ELSE asked.value

Turned == turn' = (IF turn = "first" THEN "second" ELSE "done")
Answer(x)  == answer' = x /\ Turned /\ UNCHANGED <<asked, written>>
WriteAs(x) == written' = x /\ Turned /\ UNCHANGED <<asked, answer>>

-----------------------------------------------------------------------------
(***************************************************************************)
(* Signature bytes: sign normalises what the signer answers and writes it  *)
(* (sign.rs); verify splits, normalises and pads what it finds (verify.rs).*)
(***************************************************************************)
LowOf(s, order) == IF IsHigh(s, order) THEN Negate(s, order) ELSE s

Signature(r, s, order) ==
  IF ~InRange(r, order) \/ ~InRange(s, order) THEN <<>>
  ELSE WriteEcdsaSignature(r, LowOf(s, order))

ScalarPair(r, s, dev) == [r |-> r, s |-> s, dev |-> dev]
ScalarPairs == [r : OctetStrings, s : OctetStrings,
                dev : SUBSET {"RawSignatureNotDer", "NonCanonicalDer", "HighSSignature"}]

ASSUME NoneIsNoPair == NONE \notin ScalarPairs

\* DER, or two scalars of the curve's width side by side.
Bare(bytes, f) ==
  IF Len(bytes) # 2 * f THEN NONE
  ELSE ScalarPair(SubSeq(bytes, 1, f), SubSeq(bytes, f + 1, 2 * f), {"RawSignatureNotDer"})
SplitSignature(bytes, f) ==
  LET sig == ReadEcdsaSignature(bytes)
  IN  IF sig = NONE THEN Bare(bytes, f)
      ELSE ScalarPair(sig.r, sig.s, IF sig.canonical THEN {} ELSE {"NonCanonicalDer"})

PaddedPair(sig, order, f) ==
  IF sig = NONE \/ ~InRange(sig.r, order) \/ ~InRange(sig.s, order) THEN NONE
  ELSE [sig EXCEPT !.r = PadTo(@, f), !.s = PadTo(@, f)]

Normalised(sig, order) ==
  IF sig = NONE \/ ~IsHigh(sig.s, order) THEN sig
  ELSE ScalarPair(sig.r, Negate(sig.s, order), sig.dev \union {"HighSSignature"})

ReadScalars ==
  Reads("scalars") /\
    LET order == OrderOf[asked.curve]  f == FieldBytes[asked.curve]
    IN  Answer(PaddedPair(Normalised(SplitSignature(Spelling, f), order), order, f))
WriteScalars ==
  Writes("scalars") /\ Content # NONE /\
    WriteAs(Signature(Content.r, Content.s, OrderOf[asked.curve]))

-----------------------------------------------------------------------------
ReadDer  == Reads("der") /\ Answer(ReadEcdsaSignature(Spelling))
WriteDer == Writes("der") /\ Content # NONE /\ WriteAs(WriteEcdsaSignature(Content.r, Content.s))

ReadKey  == Reads("key") /\ Answer(FromKeyText(Spelling, asked.hint))
WriteKey == Writes("key") /\ ~IsError(Content) /\ WriteAs(ToOcaBase64(Content))

ReadTime  == Reads("time") /\ Answer(ParseTm(Spelling))
WriteTime == Writes("time") /\ Content.time # NONE /\ WriteAs(DisplayTime(Content.time))
PlaceTime == Writes("date") /\ WriteAs(UnixMillis(Content))

ReadCode  == Reads("obis") /\ Answer(ParseObis(Spelling))
WriteCode == Writes("obis") /\ Content # NONE /\ WriteAs(Canonical(Content))

ReadHex  == Reads("hex") /\ Answer(HexDecode(Spelling))
WriteHex == Writes("hex") /\ Content # NONE /\ WriteAs(HexEncodeUpper(Content))

ReadBase64  == Reads("base64") /\ Answer(Base64Decode(Spelling))
WriteBase64 == Writes("base64") /\ Content # NONE /\ WriteAs(Base64Encode(Content))

ReadForm  == ReadScalars \/ ReadDer \/ ReadKey \/ ReadTime \/ ReadCode \/ ReadHex \/ ReadBase64
WriteForm ==
  WriteScalars \/ WriteDer \/ WriteKey \/ WriteTime \/ PlaceTime \/ WriteCode \/ WriteHex \/ WriteBase64

Form == ReadForm \/ WriteForm

-----------------------------------------------------------------------------
\* The number a big-endian string stands for.
Number(v) ==
  LET upto[i \in 0 .. Len(v)] == IF i = 0 THEN 0 ELSE BYTE * upto[i - 1] + v[i]
  IN  upto[Len(v)]

\* Of two scalars a signer answers, sign.rs refuses what is out of [1, n) and signs the
\* low twin of s; verify.rs reads them back, reports nothing, and has r, the smaller
\* of s and n - s, and the width of the curve.  What it reads of any other bytes is in
\* range and low too (scalar.rs, byte by byte, against the integers).
SignedScalarsAreRead ==
  About("scalars") =>
    LET n == Number(OrderOf[asked.curve]) IN
    /\ IsGiven("value") /\ turn # "first" =>
         LET r == Number(asked.value.r)  s == Number(asked.value.s) IN
         (written = <<>>) = ~(r \in 1 .. n - 1 /\ s \in 1 .. n - 1)
    /\ IsGiven("value") /\ turn = "done" /\ written # <<>> =>
         LET s == Number(asked.value.s) IN
         /\ answer # NONE /\ answer.dev = {} /\ Number(answer.r) = Number(asked.value.r)
         /\ Number(answer.s) = Min({s, n - s})
    /\ answer # NONE =>
         /\ Number(answer.r) \in 1 .. n - 1 /\ Number(answer.s) \in 1 .. n \div 2
         /\ Len(answer.r) = FieldBytes[asked.curve] /\ Len(answer.s) = FieldBytes[asked.curve]

\* der.rs calls a signature canonical exactly when writing its scalars gives the very
\* bytes back, however long the lengths, the sign bytes and the end of it; what it
\* writes is canonical and holds the scalars it was given.
CanonicalIsAsWritten ==
  About("der") /\ turn = "done" /\ answer # NONE =>
    IF IsGiven("text") THEN answer.canonical = (written = asked.text)
    ELSE /\ answer.canonical
         /\ Magnitude(answer.r) = Magnitude(asked.value.r)
         /\ Magnitude(answer.s) = Magnitude(asked.value.s)

\* A key is read from every spelling as the key it is: on the curve that the structure
\* names whatever the hint, a bare point on the curve of the hint even where its first
\* byte is the tag of a structure, from hexadecimal, Base64 and the composite forms
\* (key.rs).
KeyReadsBack ==
  /\ About("key") /\ IsGiven("of") /\ turn # "first" => answer = asked.of
  /\ About("key") /\ IsGiven("value") /\ turn = "done" => answer = asked.value

\* days_from_civil counts the days of a calendar of leap years, whatever era, century
\* and month the date is in, and unix_millis the milliseconds of the instant wherever
\* the offset puts it: the day before, a leap year's last day, year 0.
LeapYear(y) == y % 400 = 0 \/ (y % 4 = 0 /\ ~(y % 100 = 0))
LengthOf(y, m) == <<31, IF LeapYear(y) THEN 29 ELSE 28, 31, 30, 31, 30, 31, 31, 30, 31, 30, 31>>[m]
DaysBefore(y, m, d) ==
  LET months[k \in 1 .. 12] == IF k = 1 THEN 0 ELSE months[k - 1] + LengthOf(y, k - 1)
  IN  365 * y + Cardinality({k \in 0 .. y - 1 : LeapYear(k)}) + months[m] + d - 1
MillisOfADay == 24 * 3600 * 1000
DaysAreCounted ==
  About("date") /\ turn # "first" =>
    LET t == asked.value
        millis == (3600 * t.clock[1] + 60 * (t.clock[2] - t.offset_minutes) + t.clock[3]) * 1000
                    + t.millisecond
        over == written[1] - (DaysBefore(t.year, t.month, t.day) - DaysBefore(1970, 1, 1))
    IN  /\ over \in -1 .. 1 /\ written[2] \in 0 .. MillisOfADay - 1
        /\ over * MillisOfADay + written[2] = millis

\* A time is read back as it was written, with only a missing status reported, and
\* from every spelling of it; what is no date or is cut off is no time.  Of the ways
\* to depart from the table, each of the four that have a deviation of their own is
\* reported wherever it occurs, together with any others, and none of the four is
\* reported of a spelling that is the table's but for the ones it has (time.rs).  A
\* lower-case t or z, no fraction and a second blank have no deviation: of spellings
\* with one of these (not regular) nothing is claimed but the time and the four.
TimesAreReadAsSpelled ==
  /\ About("time") /\ IsGiven("of") /\ turn # "first" =>
       /\ answer.time = asked.of
       /\ IsGiven("departs") =>
            /\ asked.departs \subseteq answer.dev
            /\ asked.regular => answer.dev = asked.departs
  /\ About("time") /\ IsGiven("value") /\ turn = "done" =>
       /\ answer.time = asked.value.time
       /\ answer.dev = IF asked.value.time.status = NONE THEN {"TimeStatusMissing"} ELSE {}

\* Every spelling of an OBIS code is read, has the one canonical form of its groups and
\* measures the same; it is called canonical exactly when it is written that way, with
\* two characters to a group (obis.rs).
CodesShareAForm ==
  About("obis") /\ turn = "done" /\ IsGiven("of") =>
    /\ written = asked.of
    /\ RegisterOf(answer) = asked.measures
    /\ IsCanonical(answer) <=>
         asked.text = asked.of /\ \A g \in Range(answer.groups \o answer.period) : Len(g) = 2

\* The decoders forgive spelling and nothing else: written again, what they read is
\* what was there, without white space, prefix and padding, in the standard alphabet;
\* no bit of it was dropped (encoding.rs).
Bare64(s) == [i \in DOMAIN s |-> CASE s[i] = "-" -> "+" [] s[i] = "_" -> "/" [] OTHER -> s[i]]
DecodingIsExact ==
  /\ About("base64") /\ IsGiven("text") /\ turn = "done" =>
       Leaving(written, {"="}) = Bare64(Leaving(asked.text, AsciiSpace \union {"="}))
  /\ About("hex") /\ IsGiven("text") /\ turn = "done" =>
       LET kept == Leaving(asked.text, AsciiSpace)
       IN  written = UpperCase(IF {"x", "X"} \intersect Range(kept) # {} THEN SubSeq(kept, 3, Len(kept)) ELSE kept)
  /\ (About("base64") \/ About("hex")) /\ IsGiven("value") /\ turn = "done" => answer = asked.value

=============================================================================
