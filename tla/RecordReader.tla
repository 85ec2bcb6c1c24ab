---------------------------- MODULE RecordReader ----------------------------
(***************************************************************************)
(* Record::parse_with (record.rs): a text is a header, a payload and a     *)
(* signature between bars, each section read as JSON where it stands, and  *)
(* then the typed view of both and the profile's judgement.                *)
(*                                                                         *)
(* The texts here have signature sections with the table's names only and  *)
(* an SD that decodes; Verification models what else is found there.       *)
(***************************************************************************)
EXTENDS Header

VARIABLES
  profile,   \* how strictly to read
  section,   \* "header", "payload", "signature", "typed" or "done"
  payload,   \* the payload section: its span and its value
  signature, \* the signature section
  verdict    \* NONE, "Read" or why not

reading == <<profile, section, payload, signature, verdict>>

NoSection == [from |-> 0, to |-> 0, tree |-> NONE]

Profile == {"Strict", "Reference", "Interop"}

\* Every ParseError but Deviates: why a text is not read to its end.
Unreadability ==
  {"LimitExceeded: record", "NotOcmf", "MissingDelimiter", "MissingSignatureSection",
   "TrailingSectionBytes", "LimitExceeded: payload", "SectionNotAnObject", "TooManySections",
   "Json", "LimitExceeded: depth", "LimitExceeded: object members"}

\* None is no error.
ASSUME ErrorsAssumption == NONE \notin Unreadability

\* A text is about to be read.
Reading(t, p) ==
  /\ text' = t /\ profile' = p /\ section' = "header"
  /\ pos' = 1 /\ depth' = 0 /\ stack' = <<>> /\ mode' = "idle" /\ start' = 0
  /\ value' = NONE /\ dev' = {} /\ error' = NONE
  /\ payload' = NoSection /\ signature' = NoSection /\ verdict' = NONE

Bytes(from, to) == Count(SubSeq(text, from, to))

\* Reading ends, with a record or with a ParseError.
Conclude(why) ==
  /\ verdict' = why
  /\ section' = "done"
  /\ UNCHANGED <<profile, payload, signature>>

Refuse(why) == Conclude(why) /\ UNCHANGED json

-----------------------------------------------------------------------------
Lead == PastAll(text, 1, Space)

HeaderError ==
  IF Bytes(1, Len(text)) > Limits.record THEN "LimitExceeded: record"
  ELSE IF At(text, Lead) # "OCMF" THEN "NotOcmf"
  ELSE IF At(text, Lead + 1) # "|" THEN "MissingDelimiter"
  ELSE NONE

ReadHeader ==
  /\ section = "header"
  /\ IF HeaderError # NONE THEN Refuse(HeaderError)
     ELSE /\ section' = "payload"
          /\ payload' = [payload EXCEPT !.from = Lead + 2]
          /\ BeginValue(Lead + 2)
          /\ UNCHANGED <<profile, signature, verdict, text, start, dev, error>>

ReadValue == section \in {"payload", "signature"} /\ ReadJson /\ UNCHANGED reading

Unreadable ==
  /\ section \in {"payload", "signature"} /\ mode = "stopped"
  /\ Refuse(error)

\* Mutant of NextDelimiter: the first bar, wherever it is.
NextBar(s, from) ==
  LET first == IF section = "payload" THEN payload.from ELSE signature.from
      bars  == {i \in first .. Len(s) : s[i] = "|"} IN
  IF bars = {} THEN NONE ELSE CHOOSE i \in bars : \A k \in bars : i <= k

\* next_delimiter: the bar that follows a value, with white space between them;
\* NONE at the end of input, 0 if there is anything else.
NextDelimiter(s, from) ==
  LET i == PastAll(s, from, Space) IN
  IF i > Len(s) THEN NONE ELSE IF s[i] = "|" THEN i ELSE 0

\* The quotes that begin or end a string of a text that was read as JSON: those
\* with an even number of backslashes before them.
Quotes(s) ==
  {i \in DOMAIN s : /\ s[i] = QUOTE
                    /\ Cardinality({k \in 1 .. i - 1 : \A m \in k .. i - 1 : s[m] = BACKSLASH}) % 2 = 0}

\* Whether position i is inside a string, the closing quote not counted.
Quoted(s, i) == Cardinality({k \in Quotes(s) : k <= i}) % 2 = 1

\* has_whitespace_outside_strings.
IsPretty(s) == \E i \in DOMAIN s : s[i] \in JsonSpace /\ ~Quoted(s, i)

Bar == NextDelimiter(text, value.end)

PayloadError ==
  IF Bar = NONE THEN "MissingSignatureSection"
  ELSE IF Bar = 0 THEN "TrailingSectionBytes"
  ELSE IF Bytes(payload.from, Bar - 1) > Limits.payload THEN "LimitExceeded: payload"
  ELSE IF value.kind # "object" THEN "SectionNotAnObject"
  ELSE NONE

EndPayload ==
  /\ section = "payload" /\ mode = "complete"
  /\ IF PayloadError # NONE THEN Refuse(PayloadError)
     ELSE /\ section' = "signature"
          /\ payload' = [payload EXCEPT !.to = Bar - 1, !.tree = value]
          /\ signature' = [signature EXCEPT !.from = Bar + 1]
          /\ BeginValue(Bar + 1)
          /\ dev' = dev \union Report("PrettyPrintedPayload",
                                      IsPretty(SubSeq(text, payload.from, Bar - 1)))
          /\ UNCHANGED <<text, start, error, profile, verdict>>

SignatureError ==
  IF Bar = 0 THEN "TrailingSectionBytes"
  ELSE IF value.kind # "object" THEN "SectionNotAnObject"
  ELSE IF Bar # NONE /\ \E i \in DOMAIN text : i > Bar /\ text[i] = "|" THEN "TooManySections"
  ELSE NONE

\* A third bar opens the section that was withdrawn.
EndSignature ==
  /\ section = "signature" /\ mode = "complete"
  /\ IF SignatureError # NONE THEN Refuse(SignatureError)
     ELSE /\ section' = "typed"
          /\ signature' = [signature EXCEPT !.to = IF Bar = NONE THEN Len(text) ELSE Bar - 1,
                                            !.tree = value]
          /\ dev' = dev \union Report("FourthSectionPublicKey", Bar # NONE)
          /\ UNCHANGED <<text, pos, depth, stack, mode, start, value, error,
                         profile, payload, verdict>>

\* SignatureSection::from_object, as far as these texts go.
SignatureDeviations(o) == Report("SignatureDataMissing", ~Has(o, "SD"))

\* from_object of both sections, then the profile.
Judge ==
  LET all == dev \union PayloadDeviations(payload.tree) \union SignatureDeviations(signature.tree)
  IN
  /\ section = "typed"
  /\ dev' = all
  /\ Conclude(IF Rejected(profile, all) = {} THEN "Read" ELSE "Deviates")
  /\ UNCHANGED <<text, pos, depth, stack, mode, start, value, error>>

\* From the first symbol to the last; then one step more.
Scan == ReadHeader \/ ReadValue \/ Unreadable \/ EndPayload \/ EndSignature
Read == Scan \/ Judge

\* signed_bytes: what the signature covers.
SignedBytes == SubSeq(text, payload.from, payload.to)

-----------------------------------------------------------------------------
(***************************************************************************)
(* Properties.                                                             *)
(***************************************************************************)
IsRead == section = "done" /\ verdict \in {"Read", "Deviates"}

\* How many arrays and objects are open at the end of s.
Nesting(s) == Cardinality({i \in DOMAIN s : s[i] \in {LBRACE, "["} /\ ~Quoted(s, i)})
              - Cardinality({i \in DOMAIN s : s[i] \in {RBRACE, "]"} /\ ~Quoted(s, i)})

\* The signed span is what stands between the first two bars that are outside
\* every string, with nothing open there; the section after it ends at the
\* third, if there is one (record.rs, parse_with and next_delimiter).
SpansAreBetweenBars ==
  IsRead =>
    LET bars == {i \in DOMAIN text : text[i] = "|" /\ ~Quoted(text, i)}
    IN /\ bars = {payload.from - 1, payload.to + 1}
                   \union {signature.to + 1 : x \in dev \intersect {"FourthSectionPublicKey"}}
       /\ signature.from = payload.to + 2
       /\ \A i \in bars : Nesting(SubSeq(text, 1, i)) = 0

\* The depth that the limit is compared with is the nesting of the text at
\* that place, however many arrays and objects were opened and closed before
\* (json.rs, enter and every way out).
DepthIsNesting ==
  section \in {"payload", "signature"} /\ mode \in {"next", "complete"} =>
    LET from == IF section = "payload" THEN payload.from ELSE signature.from
        read == SubSeq(text, from, pos - 1)
    IN depth = Nesting(read)

\* Every value in the two sections: nothing nests deeper than the bound.
Inside(S) == S \union UNION {Range(v.items) : v \in S}
Values    == LET upto[n \in 0 .. Bound] ==
                   IF n = 0 THEN {payload.tree, signature.tree} ELSE Inside(upto[n - 1])
             IN upto[Bound]

\* What JSON forbids or leaves open in a record that is read is reported, and
\* only then: a name that an object has twice however it is spelled, a control
\* character in a string, a number with a leading zero (json.rs reports while it
\* scans; from_object looks names up later, decoded).
SyntaxIsReported ==
  IsRead =>
    LET inside == payload.from .. payload.to \union signature.from .. signature.to
        Escaped(i) == Cardinality({k \in 1 .. i - 1 : \A m \in k .. i - 1 : text[m] = BACKSLASH}) % 2 = 1
        Zeros(raw) == Len(raw) > 1 /\ raw[1] = "0" /\ raw[2] \in Digit
    IN /\ "DuplicateKey" \in dev <=>
            \E o \in Values : Cardinality({Decode(name) : name \in Range(o.names)}) < Len(o.names)
       /\ "ControlCharacterInString" \in dev <=>
            \E i \in inside : text[i] \in Control /\ Quoted(text, i) /\ ~Escaped(i)
       /\ "NonCanonicalNumber" \in dev <=>
            \E v \in Values : /\ v.kind = "number"
                              /\ Zeros(IF v.raw[1] = "-" THEN Tail(v.raw) ELSE v.raw)

KeepsItems(written, items) ==
  /\ Len(written) <= Limits.readings => items = written
  /\ \A k \in DOMAIN items, key \in ScalarKeys :
       Has(items[k], key) => TextOf(Get(items[k], key)) # NONE
KeepsLoss(lc) ==
  lc.kind = "object" /\ Has(lc, "LR") /\ Has(lc, "LU") /\ Get(lc, "LU").kind = "string"
KeepsMembers(v, t) ==
  /\ \A key \in TextKeys : v[key] # NONE => t[key] # NONE
  /\ v["IS"] # NONE => v["IS"].kind = "boolean"
  /\ v["IF"] # NONE => /\ v["IF"].kind = "array"
                       /\ \A item \in Range(v["IF"].items) : item.kind = "string"
  /\ v["LC"] # NONE => KeepsLoss(v["LC"])
  /\ KeepsItems(v["RD"].items, Items(v["RD"]))

\* Nothing that a station wrote under a known name is dropped from a record
\* that Strict reads: a field that is there has a value of its type
\* (payload/mod.rs, from_object).  LN is the exception the code makes.
StrictLosesNothing ==
  section = "done" /\ verdict = "Read" /\ profile = "Strict" =>
    KeepsMembers(Members(payload.tree), Texts(payload.tree))

\* A string that JSON allows is not reported as one it does not: "A high
\* surrogate is lawful only when a low one follows it; a lone low surrogate
\* never is" (json.rs).  The position of each escape in raw, first.
Escapes(raw) ==
  LET from[i \in 1 .. Len(raw) + 2] ==
        CASE i > Len(raw)      -> {}
          [] At(raw, i) = BACKSLASH -> {i} \union from[i + 2]
          [] OTHER             -> from[i + 1]
  IN from[1]

IsUnlawful(raw, i) ==
  /\ At(raw, i + 1) \notin DOMAIN Simple
  /\ ~(At(raw, i + 1) = "u" /\ At(raw, i + 2) \in DOMAIN Hex)
  /\ ~(At(raw, i + 1) = "u" /\ (IsPair(raw, i + 2) \/ IsPair(raw, i - 1)))

LawfulEscapesAreQuiet ==
  IsRead /\ "InvalidStringEscape" \in dev =>
    \E raw \in {v.raw : v \in Values} \union (UNION {Range(v.names) : v \in Values}) :
      \E i \in Escapes(raw) : IsUnlawful(raw, i)

=============================================================================
