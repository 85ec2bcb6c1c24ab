------------------------------ MODULE Container ------------------------------
(***************************************************************************)
(* The transparency container (xml.rs): Values::from_records gives each    *)
(* record a transaction and a context, to_xml writes the values, and       *)
(* parse_with reads a document back, event by event, as the XML library    *)
(* hands them out.                                                         *)
(*                                                                         *)
(* An event has a kind, a name, and attributes or a text; a text is a      *)
(* sequence of symbols.  How the library splits a document into events is  *)
(* not modelled, only the events it may hand out.                          *)
(***************************************************************************)
EXTENDS JsonReader, FiniteSets, SequencesExt

CONSTANTS
  Holds,      \* Holds[t]: what the text t is a record of, if it is one
  MaxEntries, \* Limits::entries
  MaxText     \* Limits::record, in symbols

\* read_by: the profiles that read the record; key: the key it verifies under.
ASSUME HoldsAssumption ==
  \A t \in DOMAIN Holds : {"begins", "ends", "read_by", "key"} \subseteq DOMAIN Holds[t]

\* None is neither an id nor a context.
ASSUME NoneAssumption == NONE \notin Nat /\ NONE # "Transaction.End"

VARIABLES
  batch,     \* the records still to be packed, each with a key or NONE
  values,    \* the entries packed
  open,      \* the id of the open transaction, or NONE
  next_id,   \* the id of the next one
  events,    \* the document that is read
  here,      \* the next event of it
  current,   \* the entry of the value that is open, or NONE
  in_signed, \* inside signedData
  in_key,    \* inside publicKey
  chars,     \* the text of the element that is open
  root,      \* whether the first element was seen
  entries,   \* the entries read
  xml_error  \* NONE, or why reading stopped

packed    == <<batch, values, open, next_id>>
document  == <<events, here, current, in_signed, in_key, chars, root, entries, xml_error>>
container == <<packed, document>>

-----------------------------------------------------------------------------
(***************************************************************************)
(* Texts.                                                                  *)
(***************************************************************************)
\* White space around a record is no part of any section.
IsRecord(t) == Trim(t) \in DOMAIN Holds
RecordOf(t) == Holds[Trim(t)]

References == "&amp;" :> "&" @@ "&lt;" :> "<"

\* minimal_escape: & and < become references, and nothing else does.
MinimalEscape(t) ==
  [i \in DOMAIN t |-> CASE t[i] = "&" -> "&amp;" [] t[i] = "<" -> "&lt;" [] OTHER -> t[i]]

\* xml_content: a line ends in one line feed, however it was written.
XmlContent(t) ==
  LET kept == SelectSeq([i \in DOMAIN t |-> <<i, t[i]>>],
                        LAMBDA p : ~(p[2] = "cr" /\ At(t, p[1] + 1) = "nl"))
  IN [i \in DOMAIN kept |-> IF kept[i][2] = "cr" THEN "nl" ELSE kept[i][2]]

IsEscaped(t) == "&" \notin Range(t)
Unescape(t)  == [i \in DOMAIN t |-> IF t[i] \in DOMAIN References THEN References[t[i]] ELSE t[i]]

-----------------------------------------------------------------------------
(***************************************************************************)
(* Entries and events.                                                     *)
(***************************************************************************)
ValueEntry ==
  [transaction_id |-> NONE, context |-> NONE, signed_data |-> <<>>, format |-> "",
   encoding |-> "", public_key |-> NONE, public_key_encoding |-> NONE]

\* is_ocmf: an attribute that is missing is no denial.
IsOcmf(entry) == /\ entry.format \in {"", "OCMF", " ocmf "}
                 /\ entry.encoding \in {"", "plain"}

Event(kind, name, content) == [kind |-> kind, name |-> name, content |-> content]
Start(name, attributes)    == Event("start", name, attributes)
Empty(name, attributes)    == Event("empty", name, attributes)
End(name)                  == Event("end", name, <<>>)
Text(t)                    == Event("text", "", t)
Reference(r)               == Event("reference", "", <<r>>)

\* An escaped text as the XML library hands it out: whole, or with each of its
\* references apart.  The code is written for the first; the version it is
\* built with does the second.
Handed(t, apart) ==
  IF apart /\ Range(t) \intersect DOMAIN References # {}
    THEN [i \in DOMAIN t |-> IF t[i] \in DOMAIN References THEN Reference(t[i]) ELSE Text(<<t[i]>>)]
    ELSE <<Text(t)>>

Attribute(e, name, default) == IF name \in DOMAIN e.content THEN e.content[name] ELSE default

\* The attribute, if it is set.
Attr(name, v) == IF v = NONE THEN [none \in {} |-> NONE] ELSE name :> v

\* to_xml, with the line feeds of its indentation.
ValueElement(entry, apart) ==
  <<Text(<<"nl">>),
    Start("value", Attr("transactionId", entry.transaction_id) @@ Attr("context", entry.context)),
    Text(<<"nl">>),
    Start("signedData", "format" :> entry.format @@ "encoding" :> entry.encoding)>>
  \o Handed(MinimalEscape(entry.signed_data), apart)
  \o <<End("signedData"), Text(<<"nl">>)>>
  \o (IF entry.public_key = NONE THEN <<>>
      ELSE <<Start("publicKey", Attr("encoding", entry.public_key_encoding)),
             Text(MinimalEscape(entry.public_key)), End("publicKey"), Text(<<"nl">>)>>)
  \o <<End("value")>>

ToXml(all, apart) ==
  <<Start("values", Attr("", NONE))>>
    \o FlattenSeq([i \in DOMAIN all |-> ValueElement(all[i], apart)])
    \o <<Text(<<"nl">>), End("values")>>

-----------------------------------------------------------------------------
(***************************************************************************)
(* from_records: one action per case of the table in its documentation.    *)
(***************************************************************************)
Pack(records) == batch' = records /\ values' = <<>> /\ open' = NONE /\ next_id' = 1

Marks(begins, ends) ==
  /\ batch # <<>>
  /\ RecordOf(Head(batch).text).begins = begins /\ RecordOf(Head(batch).text).ends = ends

\* The next record becomes an entry.
Push(id, context) ==
  LET r == Head(batch) IN
  /\ values' = Append(values,
       [ValueEntry EXCEPT
          !.transaction_id = id, !.context = context, !.signed_data = r.text,
          !.format = "OCMF", !.encoding = "plain",
          !.public_key = IF r.key = NONE THEN NONE ELSE <<"hex", r.key>>,
          !.public_key_encoding = IF r.key = NONE THEN NONE ELSE "hex"])
  /\ batch' = Tail(batch)

PackWhole ==
  /\ Marks(TRUE, TRUE)
  /\ Push(NONE, NONE)
  /\ open' = NONE
  /\ UNCHANGED <<next_id, document>>

PackBegin ==
  /\ Marks(TRUE, FALSE)
  /\ Push(next_id, "Transaction.Begin")
  /\ open' = next_id
  /\ next_id' = next_id + 1
  /\ UNCHANGED document

\* Mutant of Closed: the transaction stays open.
StaysOpen(id) == id
\* Option::take, of which this is what is left.
Closed(id) == NONE

PackEnd ==
  /\ Marks(FALSE, TRUE)
  /\ Push(open, "Transaction.End")
  /\ open' = Closed(open)
  /\ UNCHANGED <<next_id, document>>

PackBetween ==
  /\ Marks(FALSE, FALSE)
  /\ Push(open, NONE)
  /\ UNCHANGED <<open, next_id, document>>

FromRecords == PackWhole \/ PackBegin \/ PackEnd \/ PackBetween

-----------------------------------------------------------------------------
(***************************************************************************)
(* parse_with: one action per arm of its match.                            *)
(***************************************************************************)
OpenDocument(evs) ==
  /\ events' = evs /\ here' = 1 /\ current' = NONE /\ in_signed' = FALSE /\ in_key' = FALSE
  /\ chars' = <<>> /\ root' = FALSE /\ entries' = <<>> /\ xml_error' = NONE

InDocument == here \in DOMAIN events /\ xml_error = NONE
This       == events[here]
Is(kinds, names) == InDocument /\ This.kind \in kinds /\ This.name \in names
Begun(names)     == root /\ Is({"start", "empty"}, names)

\* The reader stops with an XmlError.
Abort(why) ==
  /\ xml_error' = why
  /\ UNCHANGED <<events, here, current, in_signed, in_key, chars, root, entries, packed>>

Advance == here' = here + 1 /\ UNCHANGED <<events, xml_error, packed>>

ReadRoot ==
  /\ ~root /\ Is({"start", "empty"}, {"values"})
  /\ root' = TRUE
  /\ Advance
  /\ UNCHANGED <<current, in_signed, in_key, chars, entries>>

WrongRoot == /\ \/ ~root /\ InDocument /\ This.kind \in {"start", "empty"} /\ This.name # "values"
                \/ ~root /\ here = Len(events) + 1 /\ xml_error = NONE
             /\ Abort("WrongRoot")

OpenValue ==
  /\ Begun({"value"})
  /\ current' = [ValueEntry EXCEPT !.transaction_id = Attribute(This, "transactionId", NONE),
                                   !.context = Attribute(This, "context", NONE)]
  /\ Advance
  /\ UNCHANGED <<in_signed, in_key, chars, root, entries>>

OpenSigned ==
  /\ Begun({"signedData", "encodedData"})
  /\ in_signed' = TRUE /\ chars' = <<>>
  /\ current' = IF current = NONE THEN NONE
                ELSE [current EXCEPT !.format = Attribute(This, "format", @),
                                     !.encoding = Attribute(This, "encoding", @)]
  /\ Advance
  /\ UNCHANGED <<in_key, root, entries>>

\* Mutant of Fresh: what was read before is kept.
WhatWas(t) == t
\* What is left of the text when an element opens.
Fresh(t) == <<>>

OpenKey ==
  /\ Begun({"publicKey"})
  /\ in_key' = TRUE /\ chars' = Fresh(chars)
  /\ current' = IF current = NONE THEN NONE
                ELSE [current EXCEPT !.public_key_encoding = Attribute(This, "encoding", @)]
  /\ Advance
  /\ UNCHANGED <<in_signed, root, entries>>

Characters ==
  LET t == IF This.kind = "text" THEN Unescape(XmlContent(This.content)) ELSE This.content IN
  /\ Is({"text", "cdata"}, {""}) /\ (in_signed \/ in_key)
  /\ IF This.kind = "text" /\ ~IsEscaped(This.content) THEN Abort("Malformed")
     ELSE IF Len(chars \o t) > MaxText THEN Abort("LimitExceeded: element text")
     ELSE /\ chars' = chars \o t
          /\ Advance
          /\ UNCHANGED <<current, in_signed, in_key, root, entries>>

CloseSigned ==
  /\ Is({"end"}, {"signedData", "encodedData"})
  /\ in_signed' = FALSE
  /\ current' = IF current = NONE THEN NONE ELSE [current EXCEPT !.signed_data = Trim(chars)]
  /\ Advance
  /\ UNCHANGED <<in_key, chars, root, entries>>

CloseKey ==
  /\ Is({"end"}, {"publicKey"})
  /\ in_key' = FALSE
  /\ current' = IF current = NONE THEN NONE ELSE [current EXCEPT !.public_key = Trim(chars)]
  /\ Advance
  /\ UNCHANGED <<in_signed, chars, root, entries>>

TooMany(n) == n > MaxEntries

\* Mutant of Leaves: the entry stays current.
LeavesIt(entry) == entry
\* Option::take, of which this is what is left.
Leaves(entry) == NONE

CloseValue ==
  /\ Is({"end"}, {"value"})
  /\ IF current # NONE /\ TooMany(Len(entries) + 1) THEN Abort("LimitExceeded: entries")
     ELSE /\ entries' = IF current = NONE THEN entries ELSE Append(entries, current)
          /\ current' = Leaves(current)
          /\ Advance
          /\ UNCHANGED <<in_signed, in_key, chars, root>>

Known == {"value", "signedData", "encodedData", "publicKey"}

\* Whatever else the library hands out: other elements, text outside, comments,
\* and references that come apart from the text around them.
SkipEvent ==
  /\ InDocument
  /\ \/ root /\ This.kind \in {"start", "empty"} /\ This.name \notin Known
     \/ This.kind = "end" /\ This.name \notin Known
     \/ This.kind \in {"text", "cdata"} /\ ~(in_signed \/ in_key)
     \/ This.kind \in {"comment", "reference"}
  /\ Advance
  /\ UNCHANGED <<current, in_signed, in_key, chars, root, entries>>

\* read_event finds that the document is not well-formed.
Malformed == InDocument /\ This.kind = "malformed" /\ Abort("Malformed")

ParseXml ==
  \/ ReadRoot \/ WrongRoot \/ OpenValue \/ OpenSigned \/ OpenKey \/ Characters
  \/ CloseSigned \/ CloseKey \/ CloseValue \/ SkipEvent \/ Malformed

\* The end of the document, or an error before it.
XmlRead == xml_error # NONE \/ (root /\ here = Len(events) + 1)

-----------------------------------------------------------------------------
(***************************************************************************)
(* Properties.                                                             *)
(***************************************************************************)
\* Where the element that begins at s ends: as many ends as starts in between.
EndOf(s) ==
  LET Balance(f) == Cardinality({i \in s .. f : events[i].kind = "start"})
                      - Cardinality({i \in s .. f : events[i].kind = "end"})
      E == {f \in s .. Len(events) : Balance(f) = 0}
  IN IF E = {} THEN NONE ELSE CHOOSE f \in E : \A k \in E : f <= k

Elements(names, from, to) ==
  {s \in from .. to : /\ events[s].kind = "start" /\ events[s].name \in names
                      /\ EndOf(s) # NONE}

\* The text of the last of the elements of that name inside s.
TextIn(s, names) ==
  LET E == Elements(names, s, EndOf(s)) IN
  IF E = {} THEN NONE
  ELSE LET last == CHOOSE q \in E : \A k \in E : k <= q
           texts == SelectSeq(SubSeq(events, last, EndOf(last)),
                              LAMBDA e : e.kind \in {"text", "cdata"})
       IN Trim(FlattenSeq([i \in DOMAIN texts |->
                             IF texts[i].kind = "text" THEN Unescape(XmlContent(texts[i].content))
                                                       ELSE texts[i].content]))

\* The values that are closed and have no value inside, in document order.
ClosedValues ==
  LET all  == Elements({"value"}, 1, Len(events))
      HoldsValue(s) == \E i \in s + 1 .. EndOf(s) : events[i].kind \in {"start", "empty"}
                                              /\ events[i].name = "value"
  IN SetToSortSeq({s \in all : ~HoldsValue(s)}, LAMBDA a, b : a < b)

IsWhole == \A i \in DOMAIN events : events[i].kind # "reference"

\* A document is read as what it says: its entries are its closed values, each
\* with the transaction, the record and the key of its own element, whatever
\* order, self-closing, nesting, comments and sections it is written with; or
\* it is refused, and over the limit it is (xml.rs, the state that parse_with
\* keeps from one event to the next).  Only a reference that the library hands
\* out apart is lost.
DocumentIsRead ==
  /\ Len(entries) <= MaxEntries
  /\ XmlRead /\ events # <<>> /\ xml_error = NONE /\ IsWhole =>
       /\ Len(entries) = Len(ClosedValues)
       /\ \A i \in DOMAIN entries :
            LET s == ClosedValues[i]
                record == TextIn(s, {"signedData", "encodedData"}) IN
            /\ entries[i].transaction_id = Attribute(events[s], "transactionId", NONE)
            /\ entries[i].context = Attribute(events[s], "context", NONE)
            /\ entries[i].signed_data = (IF record = NONE THEN <<>> ELSE record)
            /\ entries[i].public_key = TextIn(s, {"publicKey"})

\* The reference tool groups values by transactionId and wants one begin and
\* one end in a group: the entries of an id are consecutive, the first is its
\* begin and no other is, an end can only be the last, and the entry after one
\* that is no end is in the group unless it begins or is a transaction of its
\* own (xml.rs, from_records).
TransactionsAreWhole ==
  \A i \in DOMAIN values :
    LET v == values[i]
        marks == RecordOf(v.signed_data)
        joins == i > 1 /\ values[i - 1].transaction_id # NONE
                 /\ values[i - 1].context # "Transaction.End"
    IN /\ v.transaction_id # NONE =>
            \/ /\ v.context = "Transaction.Begin"
               /\ \A k \in 1 .. i - 1 : values[k].transaction_id # v.transaction_id
            \/ joins /\ values[i - 1].transaction_id = v.transaction_id
       /\ joins /\ ~marks.begins => v.transaction_id = values[i - 1].transaction_id

=============================================================================
