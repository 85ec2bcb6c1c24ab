----------------------------- MODULE CommandLine -----------------------------
(***************************************************************************)
(* The command line tool (ocmf-cli), as far as it decides something: load, *)
(* and the commands verify, to-xml, to-ocpp and from-ocpp, with the OCPP   *)
(* container (ocpp.rs) between the last two.  What a conversion prints can *)
(* be the input of the next command.                                       *)
(*                                                                         *)
(* A key text is <<form, key>>, of one of the forms that from_text reads,  *)
(* or a text of no such form.                                              *)
(***************************************************************************)
EXTENDS Container

CONSTANT Keys \* the public keys

VARIABLES
  command, \* [name, files, key, profile]: what was asked, and source: what was
           \* converted into its input, if anything was
  step,    \* "idle", "load", "parse", "each", "pack" or "done"
  files,   \* the inputs not loaded yet
  items,   \* what was loaded and is not done: <<[text, key]>>
  failures, \* how many records did not verify
  exit,    \* NONE, "ok" or "failed"
  printed  \* NONE, or the file that a conversion printed

line == <<command, step, files, items, failures, exit, printed>>

-----------------------------------------------------------------------------
(***************************************************************************)
(* Keys as text (key.rs): from_text takes hex, Base64, an OCA string and   *)
(* Base64 of one; to_oca_base64 writes the last.                           *)
(***************************************************************************)
KeyForms == {"hex", "base64", "oca", "base64 oca"}

\* Mutant of FromText: what is inside the Base64 is taken for a bare key.
FromTextBare(t) ==
  IF \E form \in KeyForms \ {"base64 oca"}, k \in Keys : Trim(t) = <<form, k>> THEN Trim(t)[2] ELSE NONE
\* None for a text that is no key.
FromText(t) == IF \E form \in KeyForms, k \in Keys : Trim(t) = <<form, k>> THEN Trim(t)[2] ELSE NONE
OcaBase64Form(key) == <<"base64 oca", key>>

-----------------------------------------------------------------------------
(***************************************************************************)
(* The OCPP container: SignedMeterValue.  Base64 of a text is a pair.      *)
(***************************************************************************)
Base64Form(t) == [base64 |-> TRUE, of |-> t]

\* The default policy includes the key; an empty field is no key.
FromRecord(t, key) ==
  [signed_meter_data |-> Base64Form(t), signing_method |-> "", encoding_method |-> "OCMF",
   public_key |-> IF key = NONE THEN <<>> ELSE OcaBase64Form(key)]

\* record_text: NONE for what is no Base64, or not of a text.
RecordText_(smv) == IF smv.signed_meter_data.base64 THEN smv.signed_meter_data.of ELSE NONE

-----------------------------------------------------------------------------
(***************************************************************************)
(* Files: a container, a text with a record per line, or an OCPP message.  *)
(***************************************************************************)
XmlFile(evs)    == [kind |-> "xml", content |-> evs]
TextFile(lines) == [kind |-> "lines", content |-> lines]
OcppFile(smv)   == [kind |-> "ocpp", content |-> smv]

Item(t, key) == [text |-> t, key |-> key]

\* What is kept of a sequence in one pass over it: the places in I, in their order.
Picked(s, I) ==
  LET upto[i \in 0 .. Len(s)] ==
        IF i = 0 THEN <<>> ELSE IF i \in I THEN Append(upto[i - 1], s[i]) ELSE upto[i - 1]
  IN upto[Len(s)]

\* Lines that are blank or begin with # are not records.
Lines(f) ==
  LET trimmed == [i \in DOMAIN f.content |-> Trim(f.content[i])] IN
  Picked(trimmed, {i \in DOMAIN trimmed : trimmed[i] # <<>> /\ trimmed[i][1] # "#"})

\* The values that claim to be OCMF; the others are skipped with a warning.
Claimed(all) == Picked(all, {i \in DOMAIN all : IsOcmf(all[i])})

Call(c) ==
  /\ command' = c /\ files' = c.files /\ items' = <<>> /\ failures' = 0
  /\ exit' = NONE /\ printed' = NONE
  /\ step' = IF c.name = "from-ocpp" THEN "each" ELSE "load"

\* bail!, or the ? on an error.
Bail ==
  /\ exit' = "failed" /\ step' = "done"
  /\ UNCHANGED <<command, files, items, failures, printed>>

\* What was found in the file, or nothing: then the command fails.
Loaded(found) ==
  IF found = <<>> THEN Bail
  ELSE /\ items' = items \o found
       /\ files' = Tail(files)
       /\ step' = "load"
       /\ UNCHANGED <<command, failures, exit, printed>>

LoadLines ==
  /\ step = "load" /\ files # <<>> /\ Head(files).kind = "lines"
  /\ Loaded([i \in DOMAIN Lines(Head(files)) |-> Item(Lines(Head(files))[i], NONE)])
  /\ UNCHANGED container

OpenXml ==
  /\ step = "load" /\ files # <<>> /\ Head(files).kind = "xml"
  /\ step' = "parse"
  /\ OpenDocument(Head(files).content)
  /\ UNCHANGED <<command, files, items, failures, exit, printed, packed>>

ParseEvent == step = "parse" /\ ~XmlRead /\ ParseXml /\ UNCHANGED line

LoadXml ==
  LET found == Claimed(entries) IN
  /\ step = "parse" /\ XmlRead
  /\ IF xml_error # NONE THEN Bail
     ELSE Loaded([i \in DOMAIN found |-> Item(found[i].signed_data, found[i].public_key)])
  /\ UNCHANGED container

Load == LoadLines \/ OpenXml \/ ParseEvent \/ LoadXml

-----------------------------------------------------------------------------
(***************************************************************************)
(* The commands.                                                           *)
(***************************************************************************)
Ready(name) == step = "load" /\ files = <<>> /\ command.name = name

\* --key wins over the key that came with the record.
KeyFor(item) == IF command.key # NONE THEN command.key ELSE item.key

Readable(t) == IsRecord(t) /\ command.profile \in RecordOf(t).read_by

\* Mutant of Failed: only the last record counts.
FailedLast(n, verified) == IF verified THEN 0 ELSE 1
Failed(n, verified) == IF verified THEN n ELSE n + 1

\* A record that cannot be read, and a key that is missing or is none, end the
\* command; one that does not verify is counted.
VerifyNext ==
  LET item == Head(items)
      key  == KeyFor(item) IN
  /\ Ready("verify") /\ items # <<>>
  /\ IF ~Readable(item.text) THEN Bail
     ELSE IF key = NONE THEN Bail
     ELSE IF FromText(key) = NONE THEN Bail
     ELSE /\ failures' = Failed(failures, RecordOf(item.text).key = FromText(key))
          /\ items' = Tail(items)
          /\ UNCHANGED <<command, step, files, exit, printed>>
  /\ UNCHANGED container

VerifyEnd ==
  /\ Ready("verify") /\ items = <<>>
  /\ IF failures > 0 THEN Bail
     ELSE /\ exit' = "ok" /\ step' = "done"
          /\ UNCHANGED <<command, files, items, failures, printed>>
  /\ UNCHANGED container

\* One key goes with every record.  to-xml has no profile: Interop reads.
GivenKey == IF command.key = NONE THEN NONE ELSE FromText(command.key)
Unusable(chosen) == \/ \E i \in DOMAIN chosen : ~Readable(chosen[i].text)
                    \/ command.key # NONE /\ GivenKey = NONE

ToXmlStart ==
  /\ Ready("to-xml")
  /\ IF Unusable(items) THEN Bail /\ UNCHANGED container
     ELSE /\ Pack([i \in DOMAIN items |-> Item(items[i].text, GivenKey)])
          /\ step' = "pack"
          /\ UNCHANGED <<command, files, items, failures, exit, printed, document>>

ToXmlPack == step = "pack" /\ FromRecords /\ UNCHANGED line

Prints(file) ==
  /\ printed' = file
  /\ exit' = "ok" /\ step' = "done"
  /\ UNCHANGED <<command, files, items, failures>>

ToXmlEnd ==
  /\ step = "pack" /\ batch = <<>>
  /\ \E apart \in BOOLEAN : Prints(XmlFile(ToXml(values, apart)))
  /\ UNCHANGED container

\* Only the first record is packaged.
ToOcpp ==
  /\ Ready("to-ocpp")
  /\ IF Unusable(<<items[1]>>) THEN Bail ELSE Prints(OcppFile(FromRecord(items[1].text, GivenKey)))
  /\ UNCHANGED container

\* A message without a key is read and not verified, which is no failure.
FromOcpp ==
  LET smv == files[1].content
      t   == RecordText_(smv) IN
  /\ step = "each" /\ command.name = "from-ocpp"
  /\ IF \/ t = NONE \/ ~Readable(t)
        \/ smv.public_key # <<>> /\ FromText(smv.public_key) = NONE
        \/ smv.public_key # <<>> /\ FromText(smv.public_key) # RecordOf(t).key
     THEN Bail
     ELSE /\ exit' = "ok" /\ step' = "done"
          /\ UNCHANGED <<command, files, items, failures, printed>>
  /\ UNCHANGED container

Run == \/ Load \/ VerifyNext \/ VerifyEnd \/ ToXmlStart \/ ToXmlPack \/ ToXmlEnd
       \/ ToOcpp \/ FromOcpp

\* ocmf to-xml ... | ocmf verify -, and ocmf to-ocpp ... | ocmf from-ocpp -.
Pipe ==
  /\ step = "done" /\ printed # NONE
  /\ Call([command EXCEPT !.name = IF printed.kind = "xml" THEN "verify" ELSE "from-ocpp",
                          !.files = <<printed>>, !.key = NONE,
                          !.source = [items |-> items, key |-> command.key]])
  /\ UNCHANGED container

-----------------------------------------------------------------------------
(***************************************************************************)
(* Properties.                                                             *)
(***************************************************************************)
Done(name) == step = "done" /\ command.name = name

\* verify succeeds only if there is something to verify, and every value of
\* the container that does not claim another format, or every line, is a record
\* that verifies under the key asked for or its own (main.rs, load, resolve_key
\* and verify_cmd).
SuccessIsVerified ==
  Done("verify") /\ exit = "ok" =>
    LET f == command.files[1]
        read == IF f.kind = "xml"
                  THEN [i \in DOMAIN entries |-> [text |-> entries[i].signed_data,
                                                  key |-> entries[i].public_key,
                                                  other |-> ~IsOcmf(entries[i])]]
                  ELSE [i \in DOMAIN f.content |-> [text |-> f.content[i], key |-> NONE,
                          other |-> Trim(f.content[i]) = <<>> \/ Trim(f.content[i])[1] = "#"]]
        Verified(r) == /\ Readable(r.text)
                       /\ FromText(KeyFor(r)) = RecordOf(r.text).key
    IN /\ \E i \in DOMAIN read : ~read[i].other
       /\ \A i \in DOMAIN read : read[i].other \/ Verified(read[i])

Faithful == IsWhole /\ \A i \in DOMAIN values : "cr" \notin Range(Trim(values[i].signed_data))
IsPiped == /\ step = "parse" /\ command.source # NONE /\ values # <<>>
           /\ \E apart \in BOOLEAN : events = ToXml(values, apart)

\* A record is not changed by the way it travels: a container that to-xml wrote
\* reads back as the entries it was written from, ids, contexts and keys and all
\* (xml.rs, to_xml against parse_with).  What does not come back is a carriage
\* return, and an & or a < if the library hands out its reference apart.
ContainerReadsBack ==
  IsPiped /\ XmlRead /\ Faithful =>
    \/ entries = [i \in DOMAIN values |-> [values[i] EXCEPT !.signed_data = Trim(@)]]
    \/ /\ xml_error = "LimitExceeded: entries" /\ Len(values) > MaxEntries
    \/ /\ xml_error = "LimitExceeded: element text"
       /\ \E i \in DOMAIN values : Len(values[i].signed_data) > MaxText

OverLimit == xml_error \in {"LimitExceeded: entries", "LimitExceeded: element text"}

\* Packaging changes no verdict: what a conversion printed passes exactly if
\* every record in it is authentic under the key it was packaged with, and in
\* both containers (xml.rs, ocpp.rs, key.rs, main.rs).  Without a key a
\* container cannot be verified, and an OCPP message is taken unverified.
PackagingKeepsTheVerdict ==
  step = "done" /\ command.source # NONE /\ ~OverLimit =>
    LET packaged == IF command.name = "verify" THEN command.source.items
                    ELSE <<command.source.items[1]>>
        key == command.source.key
        Authentic(i) == RecordOf(packaged[i].text).key = key[2]
        Survives(t) == /\ "cr" \notin Range(t)
                       /\ command.name = "verify" => IsWhole
    IN (\A i \in DOMAIN packaged : Survives(packaged[i].text)) =>
         (exit = "ok" <=> IF key = NONE THEN command.name = "from-ocpp"
                          ELSE \A i \in DOMAIN packaged : Authentic(i))

=============================================================================
