---------------------------- MODULE RecordBuilder ----------------------------
(***************************************************************************)
(* RecordBuilder (sign.rs): the fields a station gives are checked, written *)
(* as a payload in the canonical order, signed, and the record is read back *)
(* and verified before anybody gets it.                                    *)
(*                                                                         *)
(* A builder's text fields are sequences of symbols, as the reader returns *)
(* them.  What a signature is worth is the signer's answer; Verification   *)
(* models how it is checked.                                               *)
(***************************************************************************)
EXTENDS RecordReader

CONSTANTS
  Curves,       \* the curves of Table 22 ...
  DefaultCurve, \* ... the one meant without SA ...
  Verifiable    \* ... and those with a backend in this build

ASSUME CurvesAssumption == DefaultCurve \in Curves /\ Verifiable \subseteq Curves

\* The names that are written are words of a text, and so are those of the curves.
ASSUME NamesAssumption ==
  KNOWN_KEYS \union ScalarKeys \union NumberKeys \union {"LN", "LI", "LR", "LU", "SA", "SD"}
    \union {"OCMF", "1.0", "1.1", "1.2", "1.3", "n", "t", "000C", "sd"} \union Curves \subseteq Symbols

\* What is not there is told from every answer and from every list of flags.
ASSUME FlagsAssumption ==
  NONE \notin BOOLEAN /\ NONE \notin Seq([group : Option(0 .. 3), text : Seq(Symbols)])

VARIABLES
  builder,   \* the fields given
  signer,    \* what signs
  stage,     \* "idle", "given", "rendered", "emitted" or "done"
  rendered,  \* the payload as it is signed
  result     \* NONE, a BuildError or "Signed"

building == <<builder, signer, stage, rendered, result>>

\* Signer: a device may fail, answer out of range, in the high half, or with
\* something that does not verify; its public key may not be had.
Signers ==
  [curve : Curves, public_key : Curves \union {NONE},
   answer : {"fails", "out of range", "low", "high", "wrong"}]

\* A flag says which group it is of; what it is called is up to the caller.
Flag(group, t) == [group |-> group, text |-> t]

ReadingSpec(tm, rv, ri, ru) ==
  [TM |-> tm, TX |-> NONE, RV |-> rv, RI |-> ri, RU |-> ru, RT |-> NONE, CL |-> NONE,
   EF |-> <<>>, ST |-> <<"G">>]

LossCompensationSpec(lr, lu) == [LN |-> NONE, LI |-> NONE, LR |-> lr, LU |-> lu]

\* RecordBuilder::new: nothing is set.
RecordBuilder ==
  [texts |-> [key \in TextKeys |-> NONE], assigned |-> NONE, flags |-> NONE, loss |-> NONE,
   readings |-> <<>>, write_algorithm |-> TRUE]

\* The setters: several fields at once where they describe one thing.
Set(b, fields)    == [b EXCEPT !.texts = fields @@ b.texts]
Gateway(b, id, serial, version) == Set(b, "GI" :> id @@ "GS" :> serial @@ "GV" :> version)
Identified(b, assigned, level, flags, kind, data) ==
  [Set(b, "IL" :> level @@ "IT" :> kind @@ "ID" :> data) EXCEPT !.assigned = assigned, !.flags = flags]
ChargePointOf(b, kind, id) == Set(b, "CT" :> kind @@ "CI" :> id)

\* Every text among the fields.
FieldTexts(b) ==
  {b.texts[key] : key \in TextKeys}
    \union (IF b.flags = NONE THEN {} ELSE {flag.text : flag \in Range(b.flags)})
    \union (IF b.loss = NONE THEN {} ELSE {b.loss.LN, b.loss.LI, b.loss.LR, b.loss.LU})
    \union {r[f] : r \in Range(b.readings), f \in ScalarKeys \union NumberKeys}

-----------------------------------------------------------------------------
(***************************************************************************)
(* validate: every rule that Profile::Strict enforces on the other side,   *)
(* in the code's order.  Each is what the answer is if it does not hold.   *)
(***************************************************************************)
Defined(t, table)  == t = NONE \/ t \in table
\* Mutant of Within: any length will do.
WithinAny(t, max)  == TRUE
Within(t, max)     == ~(t # NONE /\ Count(t) > max)
Words(S)           == {<<w>> : w \in S}

Rule(holds, why) == [holds |-> holds, why |-> why]

UserAssignment(b) ==
  LET t == b.texts IN
  << Rule(ContextOf[t["PG"][1]] = "T" => b.assigned # NONE, "MissingField: IS"),
     Rule(b.assigned # NONE => b.flags # NONE, "MissingField: IF"),
     Rule(b.assigned # NONE => t["IT"] # NONE, "MissingField: IT"),
     Rule(Defined(t["IL"], IdentificationLevel), "FieldValue: IL"),
     Rule(Defined(t["IT"], IdentificationType), "FieldValue: IT"),
     Rule(b.flags = NONE \/ \A i \in DOMAIN b.flags : b.flags[i].group # NONE, "FieldValue: IF"),
     Rule(t["IT"] # NONE /\ t["ID"] # NONE => DataIsWellFormed(t["IT"], t["ID"]),
          "FieldValue: ID") >>

ChargePointAndBounds(b) ==
  LET t == b.texts IN
  << Rule(Defined(t["CT"], ChargePointIdType), "FieldValue: CT"),
     Rule(t["CT"] # NONE /\ t["CI"] # NONE => IdIsWellFormed(t["CT"], t["CI"]), "FieldValue: CI"),
     Rule(Within(t["TT"], 250), "TooLong: TT"),
     Rule(Within(t["CF"], 25), "TooLong: CF"),
     Rule(b.loss # NONE => b.loss.LU \in Words({"mOhm", "uOhm"}), "FieldValue: LU"),
     Rule(b.loss # NONE => Within(b.loss.LN, 20), "TooLong: LN") >>

\* What is asked of one reading r.  The device's clock is a word that names a
\* date; one whose year has not four digits is a date too.
Reading_(r) ==
  << Rule(r.TM \in Words(Instants \union {"far"}), "FieldValue: TM"),
     Rule(r.TM[1] \in Instants => InstantStatus[r.TM[1]] # NONE, "MissingField: TM"),
     Rule(r.ST \in Words({"N","G","T","D","R","M","X","I","O","S","E","F"}), "FieldValue: ST"),
     Rule(Defined(r.TX, Words({"B","C","X","E","L","R","A","P","S","T"})), "FieldValue: TX"),
     Rule(Defined(r.RU, {<<"k", "Wh">>} \union Words({"Wh", "mOhm", "uOhm"})), "FieldValue: RU"),
     Rule(Defined(r.RT, Words({"AC", "DC"})), "FieldValue: RT"),
     Rule(r.RV # NONE => r.RU # NONE, "MissingField: RU"),
     Rule(r.EF = NONE \/ Range(r.EF) \subseteq {"E", "t"}, "FieldValue: EF"),
     Rule(Defined(r.RI, Words(CanonicalCodes)), "FieldValue: RI") >>

Begins == Words({"B"})
Ends   == Words({"E", "L", "R", "A", "P"})
Marking(rd, S) == {i \in DOMAIN rd : rd[i].TX \in S}

Shape(b) ==
  LET t == b.texts IN
  << Rule(t["PG"] # NONE, "MissingField: PG"),
     Rule(t["PG"] # NONE => ContextOf[t["PG"][1]] # "?", "FieldValue: PG"),
     Rule(b.readings # <<>>, "NoReadings"),
     Rule(t["MS"] # NONE, "MissingField: MS"),
     Rule(t["FV"] = NONE \/ IsVersion(t["FV"]), "FieldValue: FV") >>

\* The first rule that does not hold, if any.
FirstBroken(rules) ==
  LET broken == {i \in DOMAIN rules : ~rules[i].holds} IN
  IF broken = {} THEN NONE ELSE rules[CHOOSE i \in broken : \A k \in broken : i <= k].why

ReadingsRules(rd) ==
  LET upto[i \in 0 .. Len(rd)] == IF i = 0 THEN <<>> ELSE upto[i - 1] \o Reading_(rd[i])
  IN upto[Len(rd)]

Validate(b) ==
  LET shape == FirstBroken(Shape(b)) IN
  IF shape # NONE THEN shape
  ELSE FirstBroken(
         UserAssignment(b) \o ChargePointAndBounds(b) \o ReadingsRules(b.readings) \o
         << Rule(Cardinality(Marking(b.readings, Begins)) <= 1, "TransactionMarkers"),
            Rule(Cardinality(Marking(b.readings, Ends)) <= 1, "TransactionMarkers") >>)

-----------------------------------------------------------------------------
(***************************************************************************)
(* payload_text: the canonical rendering.                                  *)
(***************************************************************************)
\* Mutant of EscapeOf: a backslash is written as it is.
EscapeOfQuote(c) == IF c = QUOTE THEN <<BACKSLASH, QUOTE>> ELSE <<c>>

EscapeOf(c) ==
  CASE c = QUOTE -> <<BACKSLASH, QUOTE>>
    [] c = BACKSLASH -> <<BACKSLASH, BACKSLASH>>
    [] c = "nl" -> <<BACKSLASH, "n">>
    [] c = "^"  -> <<BACKSLASH, "t">>
    [] c = "ff" -> <<BACKSLASH, "u", "000C">>
    [] OTHER    -> <<c>>

\* write_json_string.
Written(t) == <<QUOTE>> \o FlattenSeq([i \in DOMAIN t |-> EscapeOf(t[i])]) \o <<QUOTE>>

\* Writer: a member, none at all if the field is not set, and members joined.
RawField(name, t) == IF t = NONE THEN <<>> ELSE << <<QUOTE, name, QUOTE, ":">> \o t >>
StrField(name, t) == IF t = NONE THEN <<>> ELSE RawField(name, Written(t))

Joined(members) ==
  FlattenSeq([i \in DOMAIN members |-> IF i > 1 THEN <<COMMA>> \o members[i] ELSE members[i]])

Braces(members) == <<LBRACE>> \o Joined(members) \o <<RBRACE>>
Brackets(items) == <<"[">> \o Joined(items) \o <<"]">>

\* Mutant of RequiredFormatVersion: the newest there is.
NewestFormatVersion(b) == <<"1.4">>

RequiredFormatVersion(b) ==
  CASE b.texts["CF"] # NONE                       -> <<"1.3">>
    [] b.texts["CF"] = NONE /\ b.loss # NONE        -> <<"1.2">>
    [] b.texts["CF"] = NONE /\ b.loss = NONE /\ b.texts["TT"] # NONE -> <<"1.1">>
    [] OTHER                                      -> <<"1.0">>

\* The text fields between two others, in the order they are written.
StrFields(texts, names) ==
  FlattenSeq([i \in DOMAIN names |-> StrField(names[i], texts[names[i]])])

ReadingText(r) ==
  Braces(StrFields(r, <<"TM", "TX">>) \o RawField("RV", r.RV)
           \o StrFields(r, <<"RI", "RU", "RT">>) \o RawField("CL", r.CL)
           \o StrFields(r, <<"EF", "ST">>))

LossText(lc) ==
  IF lc = NONE THEN NONE
  ELSE Braces(StrField("LN", lc.LN) \o RawField("LI", lc.LI) \o RawField("LR", lc.LR)
                \o StrField("LU", lc.LU))

PayloadText(b) ==
  LET t == b.texts IN
  Braces(StrField("FV", IF t["FV"] # NONE THEN t["FV"] ELSE RequiredFormatVersion(b))
           \o StrFields(t, <<"GI", "GS", "GV", "PG", "MV", "MM", "MS", "MF">>)
           \o RawField("IS", IF b.assigned = NONE THEN NONE ELSE IF b.assigned THEN <<"true">> ELSE <<"false">>)
           \o StrField("IL", t["IL"])
           \o RawField("IF", IF b.flags = NONE THEN NONE
                             ELSE Brackets([i \in DOMAIN b.flags |-> Written(b.flags[i].text)]))
           \o StrFields(t, <<"IT", "ID", "TT", "CF">>)
           \o RawField("LC", LossText(b.loss))
           \o StrFields(t, <<"CT", "CI">>)
           \o RawField("RD", Brackets([i \in DOMAIN b.readings |-> ReadingText(b.readings[i])])))

\* A bar in any text field cannot be written.
HasPipe(b) ==
  LET Pipe(t) == t # NONE /\ "|" \in Range(t) IN
  \/ \E key \in TextKeys : Pipe(b.texts[key])
  \/ b.flags # NONE /\ \E i \in DOMAIN b.flags : Pipe(b.flags[i].text)
  \/ b.loss # NONE /\ (Pipe(b.loss.LN) \/ Pipe(b.loss.LU))

\* The record around a payload, with the signature of a curve.
RecordText(p, curve, write_algorithm) ==
  <<"OCMF", "|">> \o p \o <<"|">>
    \o Braces((IF write_algorithm THEN StrField("SA", <<curve>>) ELSE <<>>) \o StrField("SD", <<"sd">>))

-----------------------------------------------------------------------------
(***************************************************************************)
(* sign.                                                                   *)
(***************************************************************************)
Sign(b, s) ==
  /\ builder' = b /\ signer' = s /\ stage' = "given" /\ rendered' = <<>> /\ result' = NONE

Fail(why) ==
  /\ result' = why
  /\ stage' = "done"
  /\ UNCHANGED <<builder, signer, rendered>>

MayBeSilent(curve) == curve = DefaultCurve

RenderError ==
  IF ~builder.write_algorithm /\ ~MayBeSilent(signer.curve) THEN "AlgorithmMustBeWritten"
  ELSE IF Validate(builder) # NONE THEN Validate(builder)
  ELSE IF HasPipe(builder) THEN "PipeInField"
  ELSE NONE

Render ==
  /\ stage = "given"
  /\ IF RenderError # NONE THEN Fail(RenderError)
     ELSE /\ rendered' = PayloadText(builder)
          /\ stage' = "rendered"
          /\ UNCHANGED <<builder, signer, result>>
  /\ UNCHANGED <<json, reading>>

\* The scalars are checked and the high half is turned into the low one.
Emit ==
  /\ stage = "rendered"
  /\ IF signer.answer \in {"fails", "out of range"} THEN Fail("Signer") /\ UNCHANGED <<json, reading>>
     ELSE /\ stage' = "emitted"
          /\ Reading(RecordText(rendered, signer.curve, builder.write_algorithm), "Strict")
          /\ UNCHANGED <<builder, signer, rendered, result>>

ReadBack == stage = "emitted" /\ Read /\ UNCHANGED building

\* verify: the curve the record names is the key's, there is a backend for it
\* and the signature is of these bytes by that key.
AlgorithmOf(o) == IF Has(o, "SA") THEN TextOf(Get(o, "SA"))[1] ELSE DefaultCurve
Verifies ==
  /\ AlgorithmOf(signature.tree) = signer.public_key
  /\ signer.public_key \in Verifiable
  /\ signer.answer # "wrong" /\ signer.curve = signer.public_key

SelfCheckAnswer ==
  IF verdict # "Read" THEN "SelfCheck"
  ELSE IF SignedBytes # rendered THEN "SelfCheck"
  ELSE IF signer.public_key = NONE THEN "Signer"
  ELSE IF ~Verifies THEN "SelfCheck"
  ELSE "Signed"

SelfCheck ==
  /\ stage = "emitted" /\ section = "done"
  /\ result' = SelfCheckAnswer
  /\ stage' = "done"
  /\ UNCHANGED <<builder, signer, rendered, json, reading>>

Build == Render \/ Emit \/ ReadBack \/ SelfCheck

-----------------------------------------------------------------------------
(***************************************************************************)
(* Properties.                                                             *)
(***************************************************************************)
\* The typed view of a payload object, as the builder would be given it.
AsWritten(o, name) == IF Has(o, name) THEN Get(o, name).raw ELSE NONE

GivenReading(items, k) ==
  [f \in ScalarKeys \union NumberKeys |->
     IF f \in NumberKeys THEN AsWritten(items[k], f)
     ELSE IF f \in {"TM", "RI", "RU", "ST"} THEN Resolved(items, k, f)
     ELSE TextOf(Get(items[k], f))]
GivenReadings(items) == [k \in DOMAIN items |-> GivenReading(items, k)]

GivenFlag(t) == Flag(Group(t), t)
GivenFlags(v) ==
  IF v = NONE THEN NONE ELSE [i \in DOMAIN v.items |-> GivenFlag(Decode(v.items[i].raw))]

\* LossCompensation::parse takes a string, and nothing else, for a text.
GivenString(v) == IF v # NONE /\ v.kind = "string" THEN Decode(v.raw) ELSE NONE

GivenLoss(lc) ==
  IF lc = NONE THEN NONE
  ELSE [LN |-> GivenString(Get(lc, "LN")), LU |-> GivenString(Get(lc, "LU")),
        LI |-> AsWritten(lc, "LI"), LR |-> AsWritten(lc, "LR")]

Given(o) ==
  [texts    |-> Texts(o),
   assigned |-> IF Has(o, "IS") THEN AsWritten(o, "IS") = <<"true">> ELSE NONE,
   flags    |-> GivenFlags(Get(o, "IF")),
   loss     |-> GivenLoss(Get(o, "LC")),
   readings |-> GivenReadings(Items(Get(o, "RD"))),
   write_algorithm |-> TRUE]

GivesBack(set, back) ==
  /\ \A key \in TextKeys : (key = "FV" /\ set.texts[key] = NONE) \/ back.texts[key] = set.texts[key]
  /\ back.assigned = set.assigned /\ back.flags = set.flags /\ back.loss = set.loss
  /\ Len(set.readings) <= Limits.readings => Len(back.readings) = Len(set.readings)
  /\ \A k \in DOMAIN back.readings, f \in ScalarKeys \union NumberKeys :
       \/ back.readings[k][f] = set.readings[k][f]
       \/ f \in {"RI", "RU"} /\ set.readings[k].RI = NONE /\ set.readings[k].RU = NONE

\* What a station has signed is what it gave: every field of a record that
\* sign returns reads back as the text, flag or number that was set, and a
\* field that was not set is not there or, in a reading, inherited (sign.rs,
\* payload_text and write_json_string against json.rs and from_object).
SignedIsWhatWasGiven == result = "Signed" => GivesBack(builder, Given(payload.tree))

\* "Stamping the newest revision instead is the obvious default and the wrong
\* one": a record whose FV the builder derives is one that the reference
\* verifier takes (sign.rs, required_format_version).
DerivedVersionIsTaken ==
  result = "Signed" /\ builder.texts["FV"] = NONE => Rejected("Reference", dev) = {}

\* What validate lets through and Strict does not: more than four flags (its
\* table allows one of each group), a flag that claims a group it is not of, a
\* year that has not four digits, and more text than the reader takes.
Unchecked(b) ==
  \/ b.flags # NONE /\ (Len(b.flags) > 4
                          \/ \E i \in DOMAIN b.flags : b.flags[i].group # Group(b.flags[i].text))
  \/ \E k \in DOMAIN b.readings : b.readings[k].TM \notin Words(Instants)
  \/ Count(PayloadText(b)) > Limits.payload

\* The self-check never refuses what an honest signer signed for a caller whose
\* fields passed validate, but for the cases above and a curve that this build
\* cannot verify: "so every value that would become a Departure::Specification
\* deviation on the reading side is refused here" (sign.rs, validate).
SelfCheckIsExplained ==
  result = "SelfCheck" =>
    \/ Unchecked(builder)
    \/ signer.curve \notin Verifiable
    \/ signer.answer = "wrong" \/ signer.public_key # signer.curve

\* And the other way round: the fields of a record that Strict reads are fields
\* that validate accepts, so the two lists of rules agree; only a record without
\* readings, or with two begins or two ends, is read and never written.
StrictIsBuildable ==
  section = "done" /\ verdict = "Read" /\ profile = "Strict" =>
    Validate(Given(payload.tree)) \in {NONE, "NoReadings", "TransactionMarkers"}

=============================================================================
