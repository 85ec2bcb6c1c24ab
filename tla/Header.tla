------------------------------- MODULE Header -------------------------------
(***************************************************************************)
(* The typed payload (payload/mod.rs): what Payload::from_object makes of  *)
(* the members of the payload object, and every deviation it reports.  The *)
(* readings are CarryForward's; here is what a reading read back from its  *)
(* own writer can report.                                                  *)
(*                                                                         *)
(* A text is a sequence of symbols, and which of them spell what is given  *)
(* by constants: the model does not look into a word.                      *)
(***************************************************************************)
EXTENDS JsonReader, FiniteSets, SequencesExt

CONSTANTS
  Size,      \* Size[w]: the characters of a word that is not a single one
  HexWords,  \* the words made of hexadecimal digits
  Counters,  \* PG: the words that are a letter and digits ...
  ContextOf, \* ... with the context of each: "T", "F" or "?" ...
  Padded,    \* ... and those with a leading zero
  Versions,  \* FV: Versions[w] is the <<major, minor>> of a word that is one
  Instants,  \* TM: the words that are a date and a time; InstantStatus[w] is
             \* the letter, or NONE
  InstantStatus,
  Codes,     \* RI: the words that are OBIS codes ...
  CanonicalCodes  \* ... and those in the canonical form

ASSUME WordsAssumption ==
  /\ DOMAIN ContextOf = Counters /\ Padded \subseteq Counters
  /\ DOMAIN InstantStatus = Instants /\ CanonicalCodes \subseteq Codes

Chars(w) == IF w \in DOMAIN Size THEN Size[w] ELSE 1
Count(t) ==
  LET upto[i \in 0 .. Len(t)] == IF i = 0 THEN 0 ELSE upto[i - 1] + Chars(t[i]) IN upto[Len(t)]

Option(S) == S \union {NONE}

-----------------------------------------------------------------------------
(***************************************************************************)
(* The tables of the user assignment and of the charge point.  NONE and    *)
(* kWh are two symbols, so that an escape can spell the first.             *)
(***************************************************************************)
NoneWord == <<"N", "ONE">>

IdentificationType ==
  {NoneWord} \union
  {<<w>> : w \in {"DENIED", "UNDEFINED", "ISO14443", "ISO15693", "EMAID", "EVCCID", "EVCOID",
                  "ISO7812", "CARD_TXN_NR", "CENTRAL", "CENTRAL_1", "CENTRAL_2", "LOCAL",
                  "LOCAL_1", "LOCAL_2", "PHONE_NUMBER", "KEY_CODE"}}

IsHex(data)   == \A i \in DOMAIN data : data[i] \in HexWords
Plus          == "+"

\* data_is_well_formed: five of the types state a form for ID.
DataIsWellFormed(type, data) ==
  CASE type = <<"ISO14443">>     -> Count(data) \in {8, 14} /\ IsHex(data)
    [] type = <<"ISO15693">>     -> Count(data) = 16 /\ IsHex(data)
    [] type = <<"EMAID">>        -> Count(data) \in {14, 15}
    [] type = <<"EVCCID">>       -> Count(data) <= 6
    [] type = <<"PHONE_NUMBER">> -> At(data, 1) = Plus
    [] OTHER                     -> TRUE

\* The flags of IF: four groups, and a flag outside the tables is in none.
Rfid     == {"RFID_NONE", "RFID_PLAIN", "RFID_RELATED", "RFID_PSK"}
Ocpp     == {"OCPP_NONE", "OCPP_RS", "OCPP_AUTH", "OCPP_RS_TLS", "OCPP_AUTH_TLS", "OCPP_CACHE",
             "OCPP_WHITELIST", "OCPP_CERTIFIED"}
Iso15118 == {"ISO15118_NONE", "ISO15118_PNC"}
Plmn     == {"PLMN_NONE", "PLMN_RING", "PLMN_SMS"}

Group(t) == CASE t \in {<<w>> : w \in Rfid}     -> 0
              [] t \in {<<w>> : w \in Ocpp}     -> 1
              [] t \in {<<w>> : w \in Iso15118} -> 2
              [] t \in {<<w>> : w \in Plmn}     -> 3
              [] OTHER                          -> NONE

IdentificationLevel ==
  {NoneWord} \union {<<w>> : w \in {"HEARSAY", "TRUSTED", "VERIFIED", "CERTIFIED", "SECURE",
                                "MISMATCH", "INVALID", "OUTDATED", "UNKNOWN"}}

ChargePointIdType == {<<"EVSEID">>, <<"CBIDC">>}

\* id_is_well_formed: CBIDC is two parts with one space between them.
IdIsWellFormed(type, id) ==
  type = <<"CBIDC">> =>
    /\ Cardinality({i \in DOMAIN id : id[i] = SP}) = 1
    /\ At(id, 1) # SP /\ At(id, Len(id)) # SP

\* Pagination::parse and is_major_minor: a single word that is one.
IsCounter(t) == Len(t) = 1 /\ t[1] \in Counters
IsVersion(t) == Len(t) = 1 /\ t[1] \in DOMAIN Versions

ReferenceVerifierReads(t) ==
  LET v == Versions[t[1]] IN v[1] < 1 \/ (v[1] = 1 /\ v[2] <= 3)

-----------------------------------------------------------------------------
(***************************************************************************)
(* The closures of from_object: what a member says as a text, and the      *)
(* reports that every field shares.  Report(k, b) is {k} exactly when b.   *)
(***************************************************************************)
Report(kind, b) == IF b THEN {kind} ELSE {}

HasText(v) == v # NONE /\ v.kind \in {"string", "number", "boolean"}
TextOf(v)  == IF ~HasText(v) THEN NONE
              ELSE IF v.kind = "string" THEN Decode(v.raw) ELSE v.raw

\* Mutant of Scalar: a structure is dropped in silence.
ScalarQuiet(v) == Report("ScalarFieldNotAString", HasText(v) /\ v.kind # "string")

Scalar(v) ==
  Report("ScalarFieldNotAString", HasText(v) /\ v.kind # "string")
    \union Report("FieldTypeMismatch", v # NONE /\ ~HasText(v))

\* is_plain_decimal: digits, and a point with digits on both its sides.
IsPlainDecimal(s) ==
  LET unsigned == IF At(s, 1) = "-" THEN Tail(s) ELSE s
      points == {i \in DOMAIN unsigned : unsigned[i] = "."}
  IN /\ unsigned # <<>> /\ Range(unsigned) \subseteq Digit \union {"."}
     /\ Cardinality(points) <= 1 /\ points \intersect {1, Len(unsigned)} = {}

\* Number::from_value: a number without an exponent, or a string that spells a
\* plain decimal.
IsNumber(v) == \/ v.kind = "number" /\ "e" \notin Range(v.raw)
               \/ v.kind = "string" /\ IsPlainDecimal(Trim(v.raw))

Typed(v, kind)     == Report("FieldTypeMismatch", v # NONE /\ v.kind # kind)
\* Mutant of Bounded: something else than characters is counted.
BoundedSymbols(t, max) == Report("FieldTooLong", t # NONE /\ Len(t) > max)
Bounded(t, max)    == Report("FieldTooLong", t # NONE /\ Count(t) > max)
InTable(t, table)  == Report("UndefinedTableValue", t # NONE /\ t \notin table)

KNOWN_KEYS ==
  {"FV", "GI", "GS", "GV", "PG", "MV", "MM", "MS", "MF", "IS", "IL", "IF", "IT", "ID", "TT",
   "CF", "LC", "CT", "CI", "RD"}
TextKeys   == KNOWN_KEYS \ {"IS", "IF", "LC", "RD"}

\* The initials that vendors may use at the top level.
CONSTANT Reserved

-----------------------------------------------------------------------------
(***************************************************************************)
(* from_object, one operator for each of its blocks: v is what the payload *)
(* object has under a key, and t what that says as a text.                 *)
(***************************************************************************)
FormatVersion(t) ==
  CASE t = NONE     -> {"FormatVersionMissing"}
    [] t # NONE /\ IsVersion(t) ->
         Report("FormatVersionAheadOfReference", ~ReferenceVerifierReads(t))
    [] OTHER        -> {"FormatVersionMalformed"}

Pagination(v, t) ==
  IF t = NONE THEN Report("PaginationMissing", v = NONE)
  ELSE IF ~IsCounter(t) THEN {"PaginationMalformed"}
  ELSE Report("PaginationLeadingZero", t[1] \in Padded)
         \union Report("UndefinedTableValue", ContextOf[t[1]] = "?")

\* A counter that nobody can read may still be one of a transaction.
InTransaction(v, t) ==
  v # NONE /\ (t = NONE \/ ~IsCounter(t) \/ ContextOf[t[1]] = "T")

IsAssigned(v) == v # NONE /\ v.kind = "boolean"

\* The flags of an array, NONE for an item that is no string.
FlagTexts(v) ==
  IF v = NONE \/ v.kind # "array" THEN <<>>
  ELSE [i \in DOMAIN v.items |->
          IF v.items[i].kind = "string" THEN Decode(v.items[i].raw) ELSE NONE]

Flags(texts) ==
  LET named == {i \in DOMAIN texts : texts[i] # NONE} IN
  Report("IdentificationFlagsCardinality", Len(texts) > 4)
    \union Report("FieldTypeMismatch", named # DOMAIN texts)
    \union Report("UndefinedTableValue", \E i \in named : Group(texts[i]) = NONE)
    \union Report("IdentificationFlagsDuplicateGroup",
                  \E i, k \in named : i < k /\ Group(texts[i]) # NONE
                                        /\ Group(texts[i]) = Group(texts[k]))

Assignment(v, t) ==
  Report("IdentificationStatusMissing", v["IS"] = NONE /\ InTransaction(v["PG"], t["PG"]))
    \union Typed(v["IS"], "boolean")
    \union Report("IdentificationFlagsMissing", v["IF"] = NONE /\ IsAssigned(v["IS"]))
    \union Typed(v["IF"], "array")
    \union Flags(FlagTexts(v["IF"]))
    \union Report("IdentificationTypeMissing", IsAssigned(v["IS"]) /\ v["IT"] = NONE)
    \union InTable(t["IT"], IdentificationType)
    \union InTable(t["IL"], IdentificationLevel)
    \union Report("IdentificationDataFormat",
                  t["IT"] # NONE /\ t["ID"] # NONE /\ ~DataIsWellFormed(t["IT"], t["ID"]))

\* LossCompensation::parse.  LN is read only if it is a string, LU must be one.
LossUnit(unit) ==
  IF unit = NONE \/ unit.kind # "string" THEN Typed(unit, "string")
  ELSE InTable(Decode(unit.raw), {<<"mOhm">>, <<"uOhm">>})
LossName(name) ==
  IF name = NONE \/ name.kind # "string" THEN {} ELSE Bounded(Decode(name.raw), 20)

LossCompensation(lc) ==
  IF lc = NONE \/ lc.kind # "object" THEN Typed(lc, "object")
  ELSE Report("LossCompensationIncomplete", \E key \in {"LR", "LU"} : ~Has(lc, key))
         \union Report("NumberUnrepresentable",
                       \E key \in {"LR", "LI"} : Has(lc, key) /\ ~IsNumber(Get(lc, key)))
         \union LossUnit(Get(lc, "LU"))
         \union LossName(Get(lc, "LN"))

ChargePoint(type, id) ==
  InTable(type, ChargePointIdType)
    \union Report("ChargePointIdFormat",
                  type # NONE /\ id # NONE /\ ~IdIsWellFormed(type, id))

\* A key can be bound to the serial of the meter, of the gateway, or to a
\* charge point.
Identity(v, t) ==
  Report("MeterSerialMissing", t["MS"] = NONE)
    \union Report("SourceUnidentifiable",
             t["MS"] = NONE /\ v["GS"] = NONE /\ (t["CT"] = NONE \/ t["CI"] = NONE))

Unknown(o) ==
  Report("UnknownKey", \E m \in Extras(o, KNOWN_KEYS) :
                          LET name == Decode(o.names[m]) IN
                          name = <<>> \/ name[1] \notin Reserved)

-----------------------------------------------------------------------------
(***************************************************************************)
(* Readings.  The fields of one item, and what the items before it leave   *)
(* to it (CarryForward is the machine that reads them one by one).         *)
(***************************************************************************)
ScalarKeys == {"TM", "TX", "RI", "RU", "RT", "EF", "ST"}
NumberKeys == {"RV", "CL"}

ItemTexts(item) == [name \in ScalarKeys |-> TextOf(Get(item, name))]

TextDeviations(t) ==
  Report("TimeMalformed", t["TM"] # NONE /\ t["TM"] \notin {<<w>> : w \in Instants})
    \union Report("TimeStatusMissing",
                  t["TM"] \in {<<w>> : w \in {i \in Instants : InstantStatus[i] = NONE}})
    \union InTable(t["TX"], {<<w>> : w \in {"B","C","X","E","L","R","A","P","S","T"}})
    \union InTable(t["ST"], {<<w>> : w \in {"N","G","T","D","R","M","X","I","O","S","E","F"}})
    \union InTable(t["RU"], {<<"k", "Wh">>, <<"Wh">>, <<"mOhm">>, <<"uOhm">>})
    \union InTable(t["RT"], {<<"AC">>, <<"DC">>})
    \union Report("UndefinedTableValue",
                  t["EF"] # NONE /\ \E i \in DOMAIN t["EF"] : t["EF"][i] \notin {"E", "t"})
    \union Report("ObisMalformed", t["RI"] # NONE /\ t["RI"] \notin {<<w>> : w \in Codes})
    \union Report("ObisNonCanonical", t["RI"] \in {<<w>> : w \in Codes \ CanonicalCodes})

FieldDeviations(item) ==
  (UNION {Scalar(Get(item, key)) : key \in ScalarKeys})
    \union Report("RvIsString", Has(item, "RV") /\ Get(item, "RV").kind = "string")
    \union Report("NumberUnrepresentable",
                  \E key \in NumberKeys : Has(item, key) /\ ~IsNumber(Get(item, key)))
    \union Report("ExtensionInsideReading", Extras(item, ScalarKeys \union NumberKeys) # {})
    \union TextDeviations(ItemTexts(item))

\* What a field of an item means: a TM or an RI that nobody can read means nothing.
Meaning(name, t) ==
  CASE name = "TM" /\ t \notin {<<w>> : w \in Instants} -> NONE
    [] name = "RI" /\ t \notin {<<w>> : w \in Codes}    -> NONE
    [] OTHER                                           -> t
Meant(item, name) == Meaning(name, TextOf(Get(item, name)))

\* The readings up to the k-th that state one of the names.
Stating(items, k, names) ==
  {m \in 1 .. k : \E name \in names : Meant(items[m], name) # NONE}

\* A field of the k-th reading once the readings before it are taken into
\* account: what the last that states it says.  RI and RU are carried together.
LastOf(items, S, name) ==
  IF S = {} THEN NONE ELSE Meant(items[CHOOSE m \in S : \A n \in S : n <= m], name)
Resolved(items, k, name) ==
  LastOf(items, Stating(items, k, IF name \in {"RI", "RU"} THEN {"RI", "RU"} ELSE {name}), name)

\* The readings that are kept, and those that are objects.
Kept(v) ==
  IF v = NONE \/ v.kind # "array" THEN <<>>
  ELSE SubSeq(v.items, 1, IF Len(v.items) <= Limits.readings THEN Len(v.items) ELSE Limits.readings)
Items(v) == SelectSeq(Kept(v), LAMBDA item : item.kind = "object")

ItemsDeviations(items) ==
  (UNION {FieldDeviations(items[k]) : k \in DOMAIN items})
    \union Report("MandatoryReadingFieldMissing",
             \E k \in DOMAIN items :
               \/ \E name \in {"TM", "ST"} : Resolved(items, k, name) = NONE
               \/ /\ Has(items[k], "RV") /\ IsNumber(Get(items[k], "RV"))
                  /\ Resolved(items, k, "RU") = NONE)
    \union Report("CarriedForwardMandatoryField",
             \E k \in DOMAIN items \ {1} :
               \E names \in {{"TM"}, {"ST"}, {"RI", "RU"}} :
                 \A name \in names : Meant(items[k], name) = NONE)

Readings(v) ==
  Report("ReadingsMissing", v = NONE)
    \union Typed(v, "array")
    \union Report("ReadingsTruncated", v # NONE /\ v.kind = "array" /\ v.items # Kept(v))
    \union Report("FieldTypeMismatch", Items(v) # Kept(v))
    \union ItemsDeviations(Items(v))

\* Payload::from_object.
Members(o) == [key \in KNOWN_KEYS |-> Get(o, key)]
Texts(o)   == [key \in TextKeys |-> TextOf(Get(o, key))]

Blocks(v, t) ==
  Readings(v["RD"]) \union (UNION {Scalar(v[key]) : key \in TextKeys})
    \union FormatVersion(t["FV"]) \union Pagination(v["PG"], t["PG"]) \union Identity(v, t)
    \union Assignment(v, t)
    \union Bounded(t["TT"], 250) \union Bounded(t["CF"], 25)
    \union LossCompensation(v["LC"]) \union ChargePoint(t["CT"], t["CI"])

PayloadDeviations(o) == Blocks(Members(o), Texts(o)) \union Unknown(o)

=============================================================================
