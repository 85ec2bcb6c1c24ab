------------------------------ MODULE MCForms ------------------------------
(***************************************************************************)
(* Short forms to read and to write: values at the edges of what they can  *)
(* be, and their texts in every spelling.                                  *)
(***************************************************************************)
EXTENDS Library

FromTextOf(kind, t)   == [kind |-> kind, text |-> t]
FromValue(kind, v)  == [kind |-> kind, value |-> v]
MeaningOf(q, of)    == "of" :> of @@ q

StringsUpTo(set, n) == UNION {[1 .. k -> set] : k \in 0 .. n}
CutOff(t)   == {SubSeq(t, 1, n) : n \in 0 .. Len(t)}
Edited(t) == {[t EXCEPT ![i] = t[j]] : i \in DOMAIN t, j \in DOMAIN t} \union {RemoveAt(t, i) : i \in DOMAIN t}

-----------------------------------------------------------------------------
\* Curves of one, two and three bytes, with odd orders as wide as the curve.
MCFieldBytes == "c1" :> 1 @@ "c2" :> 2 @@ "c3" :> 3
MCOrderOf == "c1" :> <<251>> @@ "c2" :> <<255, 241>> @@ "c3" :> <<140, 0, 185>>
MCOidOf == "c1" :> <<42, 1>> @@ "c2" :> <<43, 129, 4, 0, 10>> @@ "c3" :> <<43, 129, 4, 0, 34>>

\* Zero, one, the halves of the orders, the orders and what lies beside them.
Around2 == {0, 1, 125, 126, 127, 240, 241, 248, 249, 250, 251}
Around3 == {0, 1, 70, 92, 93, 140, 184, 185}
ScalarsOf(c, rs, ss) == {"curve" :> c @@ FromValue("scalars", [r |-> r, s |-> s]) : r \in rs, s \in ss}
BytesOn(c, texts) == {"curve" :> c @@ FromTextOf("scalars", t) : t \in texts}

ScalarQuestions ==
  ScalarsOf("c1", StringsUpTo({0, 1, 250, 251}, 2), {<<0, 3>>, <<200>>})
    \union UNION {ScalarsOf(c, {<<1>>}, StringsUpTo(Around2, 2)) : c \in {"c1", "c2"}}
    \union ScalarsOf("c3", {<<0, 9>>}, [1 .. 3 -> Around3])
    \union BytesOn("c1", [1 .. 2 -> Around2]) \union BytesOn("c2", [1 .. 4 -> {0, 1, 127, 249}])

-----------------------------------------------------------------------------
\* Integers and lengths in every form that is read, and some that are not.
Ones(n) == [i \in 1 .. n |-> 1]
IntegerForms == {<<>>, <<0>>, <<1>>, <<128>>, <<0, 1>>, <<0, 128>>, <<0, 0, 1>>, <<0, 0, 128>>, <<1, 0>>,
              Ones(126), Ones(128), <<0, 128>> \o Ones(127)}
LengthIn(form, len) ==
  CASE form = "short"   -> IF len < 128 THEN <<len>> ELSE <<129, len % 256>>
    [] form = "long"    -> <<129, len % 256>>
    [] form = "longer"  -> <<130, len \div 256, len % 256>>
    [] form = "longest" -> <<132, 0, 0, len \div 256, len % 256>>
    [] form = "too long" -> <<133, 0, 0, 0, len \div 256, len % 256>>
TlvIn(tag, form, v) == <<tag>> \o LengthIn(form, Len(v)) \o v
DerIn(seq, form, r, s, inside, after) ==
  TlvIn(TAG_SEQUENCE, seq, TlvIn(TAG_INTEGER, form, r) \o TlvIn(TAG_INTEGER, "short", s) \o inside) \o after

WholeDer == DerIn("short", "short", <<1>>, <<0, 128>>, <<>>, <<>>)
DerQuestions ==
  {FromTextOf("der", DerIn(seq, form, r, s, inside, after)) :
     seq \in {"short", "longer"}, form \in {"short", "long", "longest"}, r \in IntegerForms,
     s \in {<<>>, <<0, 128>>, <<0, 0>>}, inside \in {<<>>, <<2, 1, 1>>}, after \in {<<>>, <<0>>}}
    \union {FromTextOf("der", t) : t \in CutOff(WholeDer) \union Edited(WholeDer)}
    \union {FromTextOf("der", DerIn(seq, "short", <<1>>, <<1>>, <<>>, <<>>)) : seq \in {"long", "longest", "too long"}}
    \union {FromValue("der", [r |-> r, s |-> s]) : r \in IntegerForms \ {<<>>}, s \in {<<1>>, <<0, 0, 200, 0>>}}

-----------------------------------------------------------------------------
\* Keys on two curves: the points, and bare ones that begin like something else.
Coordinates(c) == {[i \in 1 .. 2 * MCFieldBytes[c] |-> IF i = 1 THEN x ELSE 7] : x \in {2, 4, 5, 48, 200}}
Uncompressed(c) == {Key(c, <<4>> \o xy) : xy \in Coordinates(c)}
Compressed(c) == {Key(c, <<sign>> \o SubSeq(xy, 1, MCFieldBytes[c])) : sign \in {2, 3}, xy \in Coordinates(c)}

Prefix16 == <<"o", "c", "a", ":", "b", "a", "s", "e", "1", "6", ":", "a", "s", "n", "1", ":">>
Prefix64 == <<"o", "c", "a", ":", "B", "a", "s", "e", "6", "4", ":", "A", "S", "N", "1", ":">>
Spaced(t) == FlattenSeq([i \in DOMAIN t |-> IF i % 4 = 0 THEN <<t[i], " ">> ELSE <<t[i]>>])
Dotted(t) == FlattenSeq([i \in DOMAIN t |-> IF i % 2 = 0 THEN <<t[i], ":">> ELSE <<t[i]>>])

\* Base64 that is hexadecimal too is read as that: no key is as short as to be.
SpellingsOf(b) ==
  {HexEncode(b), HexEncodeUpper(b), <<"0", "x">> \o HexEncode(b), <<"nl">> \o Spaced(HexEncodeUpper(b)),
   Prefix16 \o <<"0", "x">> \o Dotted(HexEncodeUpper(b)), Prefix64 \o Base64Encode(b),
   Base64Encode(AsBytes(Prefix16 \o HexEncode(b)))}
    \union {t \in {Base64Encode(b), Spaced(Base64Encode(b))} : HexDecode(t) = NONE}

KeyTextsOf(b, hints, of) ==
  {"hint" :> hint @@ MeaningOf(FromTextOf("key", t), of) : t \in SpellingsOf(b), hint \in hints}

KeyCurves == {"c2", "c3"}
SpkiOf(oid, curve, unused, point) ==
  PushTlv(TAG_SEQUENCE, PushTlv(TAG_SEQUENCE, PushTlv(TAG_OID, oid) \o PushTlv(TAG_OID, curve))
                          \o PushTlv(TAG_BIT_STRING, <<unused>> \o point))

KeyQuestions ==
  UNION {KeyTextsOf(ToSpki(k), {NONE} \union KeyCurves, k) : k \in UNION {Uncompressed(c) \union Compressed(c) : c \in KeyCurves}}
    \union UNION {KeyTextsOf(k.sec1, {k.curve}, k) : k \in UNION {Uncompressed(c) \union Compressed(c) : c \in KeyCurves}}
    \union UNION {KeyTextsOf(Tail(k.sec1), {k.curve}, k) : k \in UNION {Uncompressed(c) : c \in KeyCurves}}
    \union UNION {KeyTextsOf(SpkiOf(OID_EC_PUBLIC_KEY, <<1, 2>>, 0, <<4, 1, 1>>), {NONE}, KeyError("UnknownCurve")),
                  KeyTextsOf(SpkiOf(<<42, 3>>, MCOidOf["c2"], 0, <<4, 1, 1>>), {NONE}, KeyError("NotEcdsa")),
                  KeyTextsOf(SpkiOf(OID_EC_PUBLIC_KEY, MCOidOf["c2"], 1, <<4, 1, 1>>), {NONE, "c2"}, KeyError("Der")),
                  KeyTextsOf(SpkiOf(OID_EC_PUBLIC_KEY, MCOidOf["c2"], 0, <<4, 1, 1>>), {NONE}, KeyError("InvalidPoint")),
                  KeyTextsOf(<<5, 1, 1>>, {NONE}, KeyError("Unrecognised")),
                  KeyTextsOf(<<5, 1, 1>>, {"c2"}, KeyError("InvalidPoint"))}
    \union {"hint" :> NONE @@ FromValue("key", k) : k \in UNION {Uncompressed(c) \union Compressed(c) : c \in KeyCurves}}

-----------------------------------------------------------------------------
\* Dates on both sides of everything a calendar does, and the times of a day.
Years == {0, 1, 3, 4, 99, 100, 101, 399, 400, 401, 1600, 1900, 1969, 1970, 1972, 1999, 2000, 2001,
          2024, 2100, 2400, 9999}
Dates == {<<y, m, d>> \in Years \X (1 .. 12) \X {1, 28, 29, 30, 31} : d <= LengthOf(y, m)}
DateAt(date, clock, ms, offset) == OcmfTime(date[1], date[2], date[3], clock, ms, offset, "S")

Noon == DateAt(<<2024, 2, 29>>, <<12, 5, 9>>, 0, 0)
DateQuestions ==
  {FromValue("date", DateAt(date, <<0, 0, 0>>, 0, 0)) : date \in Dates}
    \union {FromValue("date", DateAt(date, clock, 999, offset)) :
              date \in {<<0, 1, 1>>, <<1970, 1, 1>>, <<2000, 2, 29>>, <<2023, 12, 31>>},
              clock \in {<<0, 0, 0>>, <<0, 59, 0>>, <<23, 59, 60>>}, offset \in {-1439, -90, 0, 1, 120, 1439}}

\* The fraction as written, and the milliseconds it stands for.
Fractions == {<<"5">> :> 500, <<"0", "5">> :> 50, <<"0", "0", "5">> :> 5, <<"9", "9", "9">> :> 999,
              <<"1", "2", "3", "9">> :> 123, <<>> :> 0}
Zones == {<<"Z">> :> 0, <<"z">> :> 0, <<"+", "0", "2", "0", "0">> :> 120, <<"-", "0", "1", ":", "3", "0">> :> -90,
          <<"-", "2", "3", "5", "9">> :> -1439}
States == {<<" ", "R">> :> "R", <<>> :> NONE, <<" ", " ", "U">> :> "U"}
The(one) == CHOOSE x \in DOMAIN one : TRUE

StampOf(t, mark) == [SubSeq(DisplayTime(t), 1, 19) EXCEPT ![11] = mark]
TimeSpelled(t, mark, point, fraction, zone, state) ==
  LET digits == The(fraction) IN
  "regular" :> (mark = "T" /\ digits # <<>> /\ The(zone) # <<"z">> /\ The(state) # <<" ", " ", "U">>)
    @@ "departs" :> ((IF digits # <<>> /\ point = "." THEN {"TimeDotMilliseconds"} ELSE {})
                  \union (IF Len(digits) \notin {0, 3} THEN {"TimeSubSecondDigits"} ELSE {})
                  \union (IF ":" \in Range(The(zone)) THEN {"TimeOffsetWithColon"} ELSE {})
                  \union (IF The(state) = <<>> THEN {"TimeStatusMissing"} ELSE {}))
    @@ MeaningOf(FromTextOf("time", StampOf(t, mark) \o (IF digits = <<>> THEN <<>> ELSE <<point>> \o digits)
                                  \o The(zone) \o The(state)),
                [t EXCEPT !.millisecond = fraction[digits], !.offset_minutes = zone[The(zone)],
                          !.status = state[The(state)]])

\* What is no time of day, no date or no text of one.
NoTimeTexts ==
  {DisplayTime(t) : t \in {[Noon EXCEPT !.day = 30], [Noon EXCEPT !.year = 2023], [Noon EXCEPT !.month = 13],
     [Noon EXCEPT !.month = 0], [Noon EXCEPT !.clock = <<24, 0, 0>>], [Noon EXCEPT !.clock = <<23, 60, 0>>],
     [Noon EXCEPT !.clock = <<23, 59, 61>>], [Noon EXCEPT !.offset_minutes = 1440], [Noon EXCEPT !.day = 0]}}
    \union {[DisplayTime(Noon) EXCEPT ![i] = c] : i \in DOMAIN DisplayTime(Noon) \ {20, 29, 30}, c \in {"x", " "}}
    \union {[DisplayTime(Noon) EXCEPT ![27] = "6"], [DisplayTime(Noon) EXCEPT ![30] = "X"]}
NoTimes == {MeaningOf(FromTextOf("time", t), NONE) : t \in NoTimeTexts}

\* Without its status a time is still one, without the end of its offset it is not.
CutShort ==
  {MeaningOf(FromTextOf("time", t),
             IF Len(t) = 30 THEN Noon ELSE IF Len(t) < 28 THEN NONE ELSE [Noon EXCEPT !.status = NONE]) :
     t \in CutOff(DisplayTime(Noon))}

TimeQuestions ==
  {TimeSpelled(t, mark, point, fraction, zone, state) :
     t \in {Noon, DateAt(<<0, 12, 31>>, <<23, 59, 60>>, 0, 0)}, mark \in {"T", "t"}, point \in {",", "."},
     fraction \in Fractions, zone \in Zones, state \in States}
    \union {FromValue("time", [time |-> [DateAt(date, <<7, 8, 9>>, ms, offset) EXCEPT !.status = status]]) :
              date \in {<<0, 1, 1>>, <<2000, 2, 29>>, <<9999, 12, 31>>}, ms \in {0, 1, 20, 999},
              offset \in {-1439, -61, -1, 0, 60, 1439}, status \in TimeLetters \union {NONE}}
    \union NoTimes \union CutShort

-----------------------------------------------------------------------------
\* Codes by their canonical groups, and each group in other spellings of it.
CanonicalGroups == {<<<<"0", "1">>, <<"0", "B">>, <<"B", "2">>, <<"0", "8">>, <<"0", "0">>>> :> "TransactionImportMains",
           <<<<"0", "1">>, <<"0", "0">>, <<"0", "1">>, <<"0", "8">>, <<"0", "0">>>> :> "ActiveEnergyImport",
           <<<<"0", "1">>, <<"0", "0">>, <<"C", "7">>, <<"0", "7">>, <<"F", "F">>>> :> "Reserved",
           <<<<"0", "1">>, <<"0", "0">>, <<"9", "8", "B">>, <<"0", "8">>, <<"0", "0">>>> :> "Other"}
Spell(style, g) ==
  CASE style = "canonical" -> g
    [] style = "short"     -> IF g[1] # "0" THEN g ELSE Tail(g)
    [] style = "padded"    -> IF Len(g) > 2 THEN g ELSE <<"0", "0">> \o g
    [] style = "lower"     -> [i \in DOMAIN g |-> IF g[i] \in Range(UPPER) THEN LOWER[PlaceIn(UPPER)[g[i]] + 1] ELSE g[i]]
JoinedGroups(g) == g[1] \o <<"-">> \o g[2] \o <<":">> \o g[3] \o <<".">> \o g[4] \o <<".">> \o g[5]
Period == {<<>>, <<"*">>, <<".">>}
CodeSpelled(code, s, period) ==
  LET g == The(code)
      tail == IF period = <<>> THEN <<>> ELSE <<"0", "3">>
  IN  "measures" :> code[g]
        @@ MeaningOf(FromTextOf("obis", JoinedGroups(<<Spell(s[1], g[1]), Spell(s[1], g[2]), Spell(s[2], g[3]),
                                              Spell(s[3], g[4]), Spell(s[3], g[5])>>)
                                      \o period \o (IF tail = <<>> THEN <<>> ELSE Spell(s[3], tail))),
                    JoinedGroups(g) \o (IF tail = <<>> THEN <<>> ELSE <<"*">> \o tail))

Plain == JoinedGroups(<<<<"1">>, <<"b">>, <<"1">>, <<"8">>, <<"0">>>>)
ObisQuestions ==
  {CodeSpelled(code, s, period) :
     code \in CanonicalGroups, s \in [1 .. 3 -> {"canonical", "short", "padded", "lower"}], period \in Period}
    \union {FromTextOf("obis", t) : t \in CutOff(Plain) \union Edited(Plain)}

-----------------------------------------------------------------------------
EncodedQuestions ==
  {FromTextOf("base64", t) : t \in StringsUpTo({"A", "B", "w", "8", "_", "/", "=", " "}, 4)}
    \union {FromTextOf("hex", t) : t \in StringsUpTo({"0", "x", "a", "F", "g", " "}, 4)}
    \union {FromValue(kind, v) : kind \in {"hex", "base64"}, v \in StringsUpTo({0, 1, 63, 64, 255}, 4)}

MCQuestions ==
  ScalarQuestions \union DerQuestions \union KeyQuestions \union DateQuestions \union TimeQuestions
    \union ObisQuestions \union EncodedQuestions

=============================================================================
