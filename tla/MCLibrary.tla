------------------------------ MODULE MCLibrary ------------------------------
(***************************************************************************)
(* Words and their sizes, fields to sign and texts to read.                *)
(***************************************************************************)
EXTENDS MCForms

CONSTANTS cP, cK, cB, k1, k2

MCLimits == [record |-> 131072, payload |-> 65536, readings |-> 3, depth |-> 4,
             object_members |-> 20]

MCSize ==
  "uid4" :> 8 @@ "uid7" :> 14 @@ "uid8" :> 16 @@ "uid5" :> 10 @@ "contract" :> 15
    @@ "tt250" :> 250 @@ "cf25" :> 25 @@ "ln20" :> 20 @@ "ONE" :> 3 @@ "49" :> 2
    @@ "large" :> 66000 @@ "huge" :> 132000
    @@ [w \in {"t1", "t2", "unsynchronised"} |-> 29]

MCContextOf == "T1" :> "T" @@ "F1" :> "F" @@ "T01" :> "T" @@ "X1" :> "?"
MCVersions == "1.0" :> <<1, 0>> @@ "1.1" :> <<1, 1>> @@ "1.2" :> <<1, 2>> @@ "1.3" :> <<1, 3>>
                @@ "1.4" :> <<1, 4>>
MCInstantStatus == "t1" :> "S" @@ "t2" :> "S" @@ "unsynchronised" :> NONE

-----------------------------------------------------------------------------
\* The fields to sign: a fiscal reading, a transaction, and both with one thing
\* changed at a time.
kWh == <<"k", "Wh">>
R(tm) == ReadingSpec(<<tm>>, <<"1">>, <<"code">>, kWh)

Fiscal == [Set(RecordBuilder, "PG" :> <<"F1">> @@ "MS" :> <<"m">>) EXCEPT !.readings = <<R("t1")>>]

Charged ==
  [Identified(Set(RecordBuilder, "PG" :> <<"T1">> @@ "MS" :> <<"m">>),
              TRUE, <<"TRUSTED">>, <<Flag(0, <<"RFID_PLAIN">>)>>, <<"ISO14443">>, <<"uid4">>)
     EXCEPT !.readings = <<[R("t1") EXCEPT !.TX = <<"B">>], [R("t2") EXCEPT !.TX = <<"E">>]>>]

Odd == {<<"\"">>, <<"\\">>, <<"\\", "n">>, <<"nl">>, <<"^">>, <<"ff">>, <<"|">>, <<>>, <<"large">>, <<"huge">>}

WithTexts ==
  {Set(Fiscal, "GI" :> t) : t \in Odd}
    \union {Gateway(Fiscal, <<"g">>, t, <<"1">>) : t \in {<<"g">>, <<"|">>}}
    \union {Set(Fiscal, "FV" :> t) : t \in {<<"1.0">>, <<"1.4">>, <<"v">>}}
    \union {Set(Fiscal, "PG" :> t) : t \in {NONE, <<"X1">>, <<"T1">>}}
    \union {Set(Fiscal, "MS" :> NONE), Set(Fiscal, "TT" :> <<"a">>), Set(Fiscal, "CF" :> <<"a">>)}
    \union {Set(Fiscal, "TT" :> <<"tt250">> \o t) : t \in {<<>>, <<"\"">>, <<"a">>}}
    \union {Set(Fiscal, "CF" :> <<"cf25">> \o t) : t \in {<<>>, <<"a">>}}
    \union {ChargePointOf(Fiscal, kind, id) :
              kind \in {<<"EVSEID">>, <<"CBIDC">>, <<"0">>},
              id \in {<<"a">>, <<"a", " ", "b">>, <<" ", "b">>, <<"a", " ", "b", " ", "c">>}}

WithUsers ==
  {Identified(Charged, FALSE, level, flags, kind, data) :
     level \in {NoneWord}, flags \in {<<>>}, kind \in {NoneWord, <<"ISO14443">>, <<"ISO15693">>, <<"EMAID">>, <<"EVCCID">>,
      <<"PHONE_NUMBER">>, <<"x">>},
     data \in {<<>>, <<"uid4">>, <<"uid7">>, <<"uid8">>, <<"uid5">>, <<"contract">>, <<"+", "49">>}}
  \union
  {Identified(Charged, TRUE, level, <<>>, NoneWord, <<>>) : level \in {<<"SECURE">>, <<"x">>}}
  \union
  {Identified(Charged, TRUE, NoneWord, flags, NoneWord, <<>>) :
     flags \in {<<Flag(0, <<"RFID_PLAIN">>), Flag(1, <<"OCPP_RS">>), Flag(2, <<"ISO15118_PNC">>),
                  Flag(3, <<"PLMN_SMS">>)>>,
                <<Flag(0, <<"RFID_PLAIN">>), Flag(1, <<"OCPP_RS">>), Flag(1, <<"OCPP_AUTH">>),
                  Flag(2, <<"ISO15118_PNC">>), Flag(3, <<"PLMN_SMS">>)>>,
                <<Flag(0, <<"x">>)>>, <<Flag(NONE, <<"x">>)>>, <<Flag(0, <<"|">>)>>}}

WithLoss ==
  {[Fiscal EXCEPT !.loss = [LossCompensationSpec(<<"1">>, unit) EXCEPT !.LN = name, !.LI = id]] :
     unit \in {<<"mOhm">>, kWh}, name \in {NONE, <<"ln20">>, <<"ln20", "a">>, <<"|">>},
     id \in {NONE, <<"2">>}}

Later == [R("t2") EXCEPT !.RV = NONE, !.RI = NONE, !.RU = NONE]
WithReadings ==
  {[Fiscal EXCEPT !.readings = rd] :
     rd \in {<<>>, <<R("far")>>, <<R("unsynchronised")>>, <<R("noon")>>, <<R("t1"), Later>>,
             <<R("t1"), R("t1"), R("t2")>>, <<R("t1"), R("t1"), R("t2"), R("t2")>>}
            \union {<<[R("t1") EXCEPT !.ST = <<st>>]>> : st \in {"G", "9"}}
            \union {<<[R("t1") EXCEPT !.TX = <<tx>>]>> : tx \in {"B", "T", "9"}}
            \union {<<[R("t1") EXCEPT !.TX = <<tx>>], [R("t2") EXCEPT !.TX = <<ty>>]>> :
                      tx \in {"B", "L"}, ty \in {"B", "E"}}
            \union {<<[R("t1") EXCEPT !.RU = ru]>> : ru \in {NONE, <<"Wh">>, <<"x">>}}
            \union {<<[R("t1") EXCEPT !.RI = ri]>> : ri \in {NONE, <<"old">>, <<"x">>}}
            \union {<<[R("t1") EXCEPT !.RT = <<rt>>]>> : rt \in {"AC", "x"}}
            \union {<<[R("t1") EXCEPT !.EF = ef, !.CL = <<"0">>]>> : ef \in {NONE, <<"E", "t">>, <<"x">>}}}

Fields == {Fiscal, Charged, [Fiscal EXCEPT !.write_algorithm = FALSE]}
            \union WithTexts \union WithUsers \union WithLoss \union WithReadings

Honest(c) == [curve |-> c, public_key |-> c, answer |-> "low"]

MCSignTasks ==
  Fields \X {Honest(cP)}
    \union {Fiscal, [Fiscal EXCEPT !.write_algorithm = FALSE]} \X Signers

-----------------------------------------------------------------------------
\* The texts to read: what the builder would write of any fields, and texts
\* about which the syntax has something to say, with one symbol left out, put in
\* or changed at every place, and cut everywhere.
Said(p) == <<"OCMF", "|">> \o p \o <<"|", "{", "\"", "SD", "\"", ":", "\"", "sd", "\"", "}">>

Member(name, v) == <<"\"", name, "\"", ":">> \o v
Str(t) == <<"\"">> \o t \o <<"\"">>

Nests  == Said(Braces(<<Member("U", Brackets(<<Brackets(<<>>), Braces(<<>>), <<"0">>>>)),
                        Member("ID", Str(<<>>)), Member("RD", <<"[", "]">>)>>))
Strings == Said(Braces(<<Member("k", Str(<<"\\", "\"", "|", "\\", "\\">>)),
                        <<"\"", "\\", "u", "006B", "\"", ":", "null">>>>))
Numbers == Said(Braces(<<Member("U", <<"-", "0", ".", "1", "e", "+", "2">>), Member("RV", <<"1", "2">>)>>))

Changes == {"\"", "\\", "|", "{", "]", ",", "0", "nl", "ff", "k"}
Cut(t)     == {SubSeq(t, 1, n) : n \in 0 .. Len(t)}
Without(t) == {RemoveAt(t, i) : i \in DOMAIN t}
With(t) == {InsertAt(t, i, c) : i \in DOMAIN t, c \in Changes}
Changed(t) == {[t EXCEPT ![i] = c] : i \in DOMAIN t, c \in Changes}

Repeat(item, n) == [i \in 1 .. n |-> item]
Full ==
  {Said(Repeat("[", 5) \o Repeat("]", 5)), Said(<<"[", "]">>), <<"OCMF", "|", "{", "}", "|", "0">>,
   Said(Braces(<<Member("U", Repeat("[", 3) \o Repeat("]", 3))>>)),
   Said(Braces(<<Member("U", Repeat("[", 4) \o Repeat("]", 4))>>)),
   Said(Braces(Repeat(Member("U", <<"0">>), 20))), Said(Braces(Repeat(Member("U", <<"0">>), 21))),
   Said(Braces(<<Member("RD", Brackets(Repeat(<<"0">>, 4)))>>)),
   Said(Braces(<<Member("U", Str(<<"large">>))>>)), Said(Braces(<<Member("U", Str(<<"huge">>))>>)),
   Nests \o <<"|", "{", "}">>, Nests \o <<"|", "{", "|", "}">>, <<"nl", "ff">> \o Nests}

Pair(s) == Said(Braces(<<Member("GI", Str(s))>>))
Surrogates == {<<"\\", "u", "D83D", "\\", "u", "DE00">>, <<"\\", "u", "D83D">>, <<"\\", "u", "DE00">>,
               <<"\\", "u", "D83D", "\\", "n">>}

\* Mistyped fields, each on its own, in an otherwise faultless record.
Mistyped ==
  {Said(Braces(<<Member("FV", Str(<<"1.0">>)), Member("PG", Str(<<"F1">>)), Member("MS", Str(<<"m">>)),
                 Member(key, v), Member("RD", Brackets(<<ReadingText(R("t1"))>>))>>)) :
     key \in KNOWN_KEYS,
     v \in {<<"null">>, <<"true">>, <<"0">>, <<"{", "}">>, <<"[", "0", "]">>, <<"[", "]">>}}
LossOf(members) ==
  Said(Braces(<<Member("FV", Str(<<"1.2">>)), Member("PG", Str(<<"F1">>)), Member("MS", Str(<<"m">>)),
                Member("LC", Braces(members)), Member("RD", Brackets(<<ReadingText(R("t1"))>>))>>))
Losses ==
  {LossOf(<<Member("LR", lr), Member("LU", lu), Member("LN", ln)>>) :
     lr \in {<<"1">>, Str(<<"1">>), <<"null">>}, lu \in {Str(<<"uOhm">>), <<"0">>},
     ln \in {Str(<<"a">>), <<"0">>, <<"null">>}}

MCReadTasks ==
  (({RecordText(PayloadText(b), cP, TRUE) : b \in Fields} \union Mistyped \union Losses) \X {"Strict"})
    \union ((UNION {Cut(t) \union Without(t) \union With(t) \union Changed(t) :
                      t \in {Nests, Strings, Numbers}}) \X {"Interop"})
    \union ((Full \union {Pair(s) : s \in Surrogates} \union {RecordText(PayloadText(Charged), cP, TRUE)})
              \X Profile)

\* The symbols of all these texts, and those the reader and the writer know.
KnownSymbols == Space \union Control \union Digit \union Literal \union Hex4
                  \union {"{", "}", "[", "]", ":", ",", QUOTE, BACKSLASH, "|", "-", "+", ".", "e", "u", "/", "N", "k",
                   "pair", "FFFD", "OCMF", "1.0", "1.1", "1.2", "1.3", "n", "t", "sd",
                   "LN", "LI", "LR", "LU", "SA", "SD"}
           \union KNOWN_KEYS \union ScalarKeys \union NumberKeys \union {cP, cK, cB}
MCSymbols ==
  KnownSymbols \union UNION {Range(task[1]) : task \in MCReadTasks}
        \union UNION {Range(t) : t \in UNION {FieldTexts(b) : b \in Fields} \ {NONE}}

-----------------------------------------------------------------------------
\* Records for the tool, by their text: one that begins a transaction, one that
\* ends one, one that does both and one that does neither; with symbols that
\* XML has to escape; under another key; and one that Strict does not read.
RecordIs(begins, ends, key) ==
  [begins |-> begins, ends |-> ends, key |-> key, read_by |-> {"Interop", "Reference", "Strict"}]

MCHolds ==
  <<"b">> :> RecordIs(TRUE, FALSE, k1) @@ <<"e">> :> RecordIs(FALSE, TRUE, k1)
    @@ <<"w">> :> RecordIs(TRUE, TRUE, k1) @@ <<"m">> :> RecordIs(FALSE, FALSE, k1)
    @@ <<"w", "&", "<">> :> RecordIs(TRUE, TRUE, k1) @@ <<"&", "lt;">> :> RecordIs(TRUE, FALSE, k1)
    @@ <<"w", "cr", "nl", "w">> :> RecordIs(TRUE, TRUE, k1) @@ <<"w", "nl", "w">> :> RecordIs(TRUE, TRUE, NONE)
    @@ <<"w", "2">> :> RecordIs(TRUE, TRUE, k2)
    @@ <<"w", "l">> :> [RecordIs(TRUE, TRUE, k1) EXCEPT !.read_by = {"Interop"}]
    @@ Repeat("w", 9) :> RecordIs(TRUE, TRUE, k1)

Cmd(name, inputs, key) ==
  [name |-> name, files |-> inputs, key |-> key, profile |-> "Interop", source |-> NONE]

MarkedTexts == {<<"b">>, <<"e">>, <<"w">>, <<"m">>}
OddTexts == {<<"w", "&", "<">>, <<"&", "lt;">>, <<"w", "cr", "nl", "w">>, <<"w", "2">>, <<"w", "l">>,
             Repeat("w", 9), <<"nl", "w", " ", "cr">>, <<"no record">>, <<"#", "w">>, <<>>}
KeyTexts == {NONE, <<"hex", k1>>, <<"base64", k2>>, <<"oca", k1>>, <<"no key">>}

Conversions ==
  {Cmd("to-xml", <<TextFile(t)>>, <<"hex", k1>>) :
     t \in (UNION {[1 .. n -> MarkedTexts] : n \in 1 .. 3}) \union
           {<<<<"b">>, <<"m">>>> \o t : t \in [1 .. 2 -> MarkedTexts]}}
    \union {Cmd(name, inputs, key) :
              name \in {"to-xml", "to-ocpp"},
              inputs \in {<<TextFile(<<t>>)>> : t \in OddTexts}
                        \union {<<TextFile(<<<<"w">>, t>>)>> : t \in OddTexts}
                        \union {<<TextFile(<<>>)>>},
              key \in KeyTexts}
    \union {Cmd("to-xml", <<TextFile(<<<<"b">>>>), TextFile(<<<<"e">>>>)>>, key) : key \in KeyTexts}

-----------------------------------------------------------------------------
\* Documents: two values, each written in one of many ways.
Sd(name, t) == <<Start(name, "format" :> "OCMF" @@ "encoding" :> "plain")>> \o t \o <<End(name)>>
Pk(key) == <<Start("publicKey", "encoding" :> "hex"), Text(<<"nl", "hex", key>>), End("publicKey")>>
Comment == Event("comment", "", <<>>)
CData(t) == Event("cdata", "", t)
Val(id, body) == <<Text(<<"nl">>), Start("value", "transactionId" :> id)>> \o body \o <<End("value")>>
Other(format, encoding) ==
  <<Start("signedData", Attr("format", format) @@ Attr("encoding", encoding)), Text(<<"w">>), End("signedData")>>

Bodies ==
  {<<>>, Pk(k1), Sd("signedData", <<Text(<<"w">>)>>),
   Sd("signedData", <<Text(<<"w">>)>>) \o Pk(k1), Pk(k1) \o Sd("signedData", <<Text(<<"w", "2">>)>>),
   Sd("encodedData", <<Text(<<"nl", "w", " ">>)>>) \o Pk(k1),
   Sd("signedData", <<Text(<<"w">>), Comment, CData(<<"&", "<">>)>>) \o Pk(k1),
   Sd("signedData", <<Text(<<"&">>)>>), Sd("signedData", <<Text(Repeat("w", 9))>>) \o Pk(k1),
   Sd("signedData", <<>>) \o Sd("signedData", <<Text(<<"w">>)>>) \o Pk(k1),
   <<Empty("signedData", Attr("", NONE))>> \o Pk(k1),
   Sd("signedData", <<Text(<<"w">>)>>) \o <<Empty("publicKey", Attr("", NONE)), Text(<<"x">>)>>,
   <<Start("x", Attr("", NONE))>> \o Sd("signedData", <<Text(<<"w">>)>>) \o <<End("x")>> \o Pk(k2),
   Val(3, Sd("signedData", <<Text(<<"w">>)>>) \o Pk(k1)),
   Other("SML_EDL40_P", "plain") \o Pk(k1), Other("OCMF", "base64"), Other(NONE, NONE) \o Pk(k1),
   Sd("signedData", <<Text(<<"w">>)>>) \o Pk(k1) \o Val(3, <<>>)}

Doc(body) == <<Start("values", Attr("", NONE))>> \o body \o <<End("values")>>
Whole == Sd("signedData", <<Text(<<"w">>)>>) \o Pk(k1)
Good == Doc(Val(1, Whole) \o Val(2, Whole))

Documents ==
  {Doc(Val(1, a) \o Val(2, b)) : a \in Bodies, b \in Bodies}
    \union {Doc(FlattenSeq([i \in 1 .. n |-> Val(i, Whole)])) : n \in {0, 3, 4}}
    \union Cut(Good) \union {SubSeq(Good, 1, n) \o <<Event("malformed", "", <<>>)>> : n \in DOMAIN Good}
    \union {<<Start("html", Attr("", NONE))>> \o Good, <<Empty("values", Attr("", NONE))>>,
            Doc(<<Empty("value", Attr("", NONE))>> \o Whole \o Val(1, Whole))}

Message(t, key) == [FromRecord(t, NONE) EXCEPT !.public_key = key]
Messages ==
  {OcppFile(Message(t, key)) : t \in {<<"w">>, <<"w", "2">>, <<"no record">>},
                               key \in {<<>>, <<"hex", k1>>, <<"no key">>}}
    \union {OcppFile([FromRecord(<<"w">>, k1) EXCEPT !.signed_meter_data.base64 = FALSE])}

Verifications ==
  {Cmd("verify", <<XmlFile(d)>>, NONE) : d \in Documents}
    \union {Cmd("verify", <<f>>, key) : f \in {XmlFile(Good)} \union
                {TextFile(t) : t \in [1 .. 2 -> {<<"w">>} \union OddTexts]}, key \in KeyTexts}
    \union {[Cmd("verify", <<TextFile(<<t>>)>>, <<"hex", k1>>) EXCEPT !.profile = "Strict"] :
              t \in {<<"w">>, <<"w", "l">>}}

MCCommands == Conversions \union Verifications \union {Cmd("from-ocpp", <<f>>, NONE) : f \in Messages}

=============================================================================
