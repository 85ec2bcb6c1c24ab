# ocmf: verification project

TLA+ models, TLC runs and TLAPS proofs for `ocmf`, a Rust library (and command line tool) that
parses, verifies, writes and judges OCMF records: the signed metering data a charging station
produces for billing. The library is sequential. Nothing in it runs concurrently, persists state
or waits. What makes it hard is order: readings that mean something only through the readings
before them, records that arrive over a way nobody controls and are judged by pairwise rules that
have to add up to a promise about the whole, and error paths that must not let money through.

Sources are under `src/ocmf/src/` unless another path is given.

## The system

| component | state it keeps | operations |
|---|---|---|
| readings (`payload/reading.rs`) | the last resolved reading, the list of readings, the deviations | `parse_readings`, one pass over `RD`; `is_billable` |
| payload (`payload/mod.rs`) | header fields, readings | `Payload::from_object`, `by_register`, `RegisterSeries`, `is_transaction`, `Pagination::is_followed_by` |
| closed value sets (`payload/tables.rs`) | none | the letters of TX, ST, EF, RU, RT, IL and the questions asked of them |
| session (`session.rs`) | findings, begins, ends, clocks, totals, stamps: loop variables of one call | `validate_refs` and its wrappers `validate`, `validate_verified` |
| record (`record.rs`) | byte spans into the input | section scan, `signed_bytes`, `payload_digest`, `RecordBuf` |
| JSON reader (`json.rs`) | position, depth, member counts | `parse`, `get` |
| deviations and profiles (`deviation.rs`) | the list of what departed from the specification | `Profile` decides which kind refuses a record |
| limits (`limits.rs`) | bounds | asked by record, json, payload and xml |
| signature section (`signature.rs`) | SA, SE, SM, SD | `from_object`, defaults |
| verification (`verify.rs`) | none | algorithm, key, encoding, split, hash, high-s, backend, in this order |
| scalars, DER, keys (`scalar.rs`, `der.rs`, `key.rs`) | a reading position | compare, negate, pad; lenient read, strict write; four key shapes |
| builder (`sign.rs`) | the record being built | setters, `validate`, `sign` with a self-check |
| containers (`xml.rs`, `ocpp.rs`) | the open transaction id; the event reader's place | `parse`, `from_records`, `for_record` |
| text forms (`obis.rs`, `time.rs`, `number.rs`, `encoding.rs`) | none | parse and print |
| CLI (`src/ocmf-cli/src/main.rs`) | none | load, explain, verify, session, convert, sign |

How they interact. A record comes in as bytes; `record.rs` finds the sections, `json.rs` reads the
payload, `payload/mod.rs` cuts `RD` to the limit and hands it to `payload/reading.rs`, and every
step adds to one list of deviations, which the profile judges at the end. `verify.rs` takes the
exact payload bytes and a key. `session.rs` takes a sequence of parsed records and asks the payload
what it means (`Source`, `by_register`, markers, clocks) for the report. `sign.rs` goes the other
way and parses its own output back. There is no shared state and no callback but the signer and
the verification backend.

What makes each part correct:

* *readings*: a typed reading means what the array last said; nothing readable is taken from the
  wrong place, an error flag never disappears because a field was omitted, and every gap is
  reported where it is;
* *session*: a clean report implies the rules of the check component about **all** records, and an
  intact transaction is never accused;
* *record*, *json*: the signed span is exactly what the station signed, and limits refuse;
* *verification*: a signature is accepted only for the bytes, key and algorithm it was made with,
  and every refusal has its own reason; the reading of `r` and `s` is lenient in form, not in value;
* *builder*: what it accepts, the reader accepts under the strict profile;
* *containers*: the records of one transaction carry one id;
* *text forms*: reading what was printed gives the value back, and one value has one form.

The hazards are listed in `PROJECT.json`, each at its line and with the properties that cover it.

## Modules

```
readings, sessions, verification

Tables ──┬── CarryForward ──┬── MCCarryForward
         │                  └── CarryForward_proofs
         └── Records ──┬── CheckComponent        (abstract)
                       └── Session ──┬── MCSession     (implements CheckComponent)
                                     ├── Session_proofs ──┐
                                     └── Delivery ────────┼── Delivery_proofs
                                                          └── MCDelivery (Delivery alone)
Verification ──┬── MCVerification
               └── Verification_proofs

texts, records, files, short forms

Catalogue ──┬── JsonReader ──┬── Header ── RecordReader ── RecordBuilder ──┐
            │                └── Container ── CommandLine ─────────────────┼── Library
            ├── DerReader ─────────┐                                       │      │
            │                      ├── PublicKeys ──┐                      │   MCForms
Characters ─┼── Encoding ──────────┘                ├── Forms ─────────────┘      │
            └── CivilTime, Obis ────────────────────┤                          MCLibrary
                Scalar ─────────────────────────────┘

Library ──┬── Tool_proofs ── Reader_proofs
          └── Forms_proofs
```

The upper group takes a record as something parsed and asks what the code concludes from it. The
lower group takes it as text and asks how it is read and written.

**Tables** holds the closed value sets and the predicates over them. A letter no table defines is
`"?"`: the code keeps it as an unknown variant, and what matters is which predicates are false of
it. The pagination counter has `CounterSize` values, `2^64` in the code, and wraps.

**CarryForward** is `parse_readings`. One step takes one item of `RD`: `SkipItem` (not an object),
`ParseItem`, `TruncateItem` (the item is beyond `Limits::readings`). The loop reads from left to
right and never looks ahead, so the state after *n* steps is what the function returns for those
*n* items. A member of a reading is a `Cell`: its JSON shape and what it means if it parses. The
model keeps the code's two questions apart: whether a member *was written* (`Wrote`, the
`explicit` set) and whether it *has a value* (`means`), because carry-forward goes by the second.
`dev` is the set of deviations, each with its kind, place and field.

**Records** is what a check component looks at in a parsed record: its source string, the digest of
its payload, whether it is of a transaction, and `by_register` with `RegisterSeries::begin` and
`::end`. Registers are canonical OBIS codes. The digest is equality of payloads: the hash function
is taken to be injective.

**Session** is `validate_refs`, loop by loop: `pc` names the loop, `i` the record and `j`, in the
totals, the reading at which `by_register` first lists a register. The variables are the code's
local variables. The order of the findings in the report is not kept, and repeated findings of one
record are one: findings are a set.

**CheckComponent** says what a report *is*, in terms of the whole sequence, with no loop, order or
accumulator: the records at which something is wrong, the place of the markers, and for each
register the first record that opens it and the last that closes it from there. `Session`
implements it (`KeepsThePromise`).

**Delivery** puts `Session` to work: stations write transactions with a persistent counter, may
restart within one, and the way to the caller loses (a record need not arrive), repeats, reorders
and mixes records of several stations. Stations and way are not part of the library; they are
modelled from what its documentation and tests expect of a station, and are marked external.

**Verification** is the way from a record and some key material to one verdict, one action per place
where it may end: `Parse` (the signature section with its defaults, and the profile, which is
applied here and never again), `ReadKey` (`PublicKey::from_bytes`), `CheckAlgorithm`, `Split`,
`Normalise` (of a malleable pair the low form goes on) and `AskBackend` (the one in Rust or the one
over OpenSSL, which look at scalars and key in different orders). An algorithm is its curve. The
scalars are integers and a signature is of a text: which points lie on a curve (`Valid`) and which
signatures verify (`Signed`) are constants, with the two facts about ECDSA that the code relies on
as assumptions: what verifies is in range, and so does its twin `n - s`. A `Request` fixes the
record, the key material, the curve it is taken for, the caller's options and the build.

**Catalogue** is `deviation.rs`: every kind of deviation with its departure, whether the reference
verifier refuses it, and `Profile::rejects`.

**JsonReader** is `json.rs`, symbol by symbol. The code recurses from a value into its members; here
the calls that have not returned are `stack`, `mode` is where in the grammar the parser is, and
`depth` is the counter of the code, which is *not* the height of the stack by definition: that the two
agree is a property. `Decode`, `IsDefinedEscape` and `Get` are the lookups, which the code runs later,
on spans it kept.

**Header** is `Payload::from_object`: every field with its type, its table, its form, its bound and the
deviations each of them reports; `LossCompensation`, `Pagination`, the tables of the user assignment and
of the charge point.

**RecordReader** is `Record::parse_with`: size, header, payload, bar, signature section, an optional
fourth section, then `Judge`, where both sections get their types and the profile decides. `section`
is how far the function has come.

**RecordBuilder** is `sign.rs`: setters, `Validate` (rule by rule in the code's order, so that the first
broken one is the answer), `PayloadText` (the canonical rendering), and `sign`: `Render`, `Emit`,
`ReadBack` (which is `RecordReader` on the builder's own output) and `SelfCheck`. A signer is what it
answers.

**Container** is `xml.rs`: `from_records` packs records into transactions, `to_xml` writes events,
`parse_with` reads events with one open entry, one text buffer and two flags. How `quick-xml` splits
a document into events is external; `Handed` says which splits are allowed for.

**CommandLine** is the tool where it decides something: loading files of three kinds, `verify`,
`to-xml`, `to-ocpp`, `from-ocpp` with the OCPP container between, early failures and the exit code.
`Pipe` makes the output of a conversion the input of the next command.

**Forms** is a machine that is asked about one short form, by text or by value, reads what it was given
or writes it, and then does the opposite with the result. The forms themselves are operators:

| module | source | what it computes |
|---|---|---|
| `Scalar` | `scalar.rs` | `IsHigh`, `Negate`, `InRange`, `PadTo`, byte by byte with borrows |
| `DerReader` | `der.rs` | the lenient reader and the writer of signatures and key structures |
| `Encoding` | `encoding.rs` | hexadecimal and Base64 both ways |
| `PublicKeys` | `key.rs` | `from_bytes`, `from_text`, `from_oca`, `to_spki`, `to_oca_base64` |
| `CivilTime` | `time.rs` | the grammar of TM with its deviations, `Display`, days and milliseconds |
| `Obis` | `obis.rs` | `locate`, `canonical`, `is_canonical`, `register` |
| `Characters` | | the alphabets these accept, and `trim` |

**Library** composes the lower group: a program makes one call (`CallRead`, `CallSign`, `CallTool`,
`CallForm`) and the called part runs to its answer. There is no shared state between calls, so one call
per behaviour loses nothing; calls that feed one another (`sign` reads its output back, `Pipe`) are
inside one behaviour.

The modules named `_proofs` hold the theorems, and **NaturalFacts** what several of them use: that a
bounded set of numbers has a least and a greatest element, and that a loop has a value after every step.

## Runs

| run | question | instance |
|---|---|---|
| `carry_forward` | does a typed reading mean what the array last said; do flags stick; are billable readings backed; are gaps reported | 48 items, arrays of up to 4, limit 3: 283,973 states |
| `session` | what a clean report implies about all records at once; is each report the promised one | four families of sequences, up to 4 records: 99,332 states |
| `delivery` | is a report clean exactly for one whole transaction of one station, and what does it bill | 2 stations, 3 records each, 3 arrivals: 750,252 states |
| `verification` | is exactly what was signed accepted; does every error name its cause; is what was forgiven reported | 3 curves, 3 builds, 8 keys, every section with every key: 96,814 states |
| `library` | is a record read, built, packed, unpacked, verified as what it says; do the short forms keep their value | 2,521 texts with a profile, 257 sets of fields with a signer, 1,306 commands and 13,777 short forms: 153,262 states |
| `lawful_escapes` | a sentence of a comment in `json.rs` that the code does not keep | as `library` |
| `unit_of_both`, `clock_of_no_letter`, `both_ends_good`, `limit_truncates`, `malformed_time`, `high_s_out_of_range` | a sentence of the documentation the code does not keep | as the passing run of their module |

### The properties

`ResolvedIsLastStated` compares the accumulator of the code with a definition that looks back over
the whole array. `FlagsStick` is a claim about any two readings, however far apart.
`BillableIsBacked` ties the predicate that decides money to what the station wrote.
`GapsAreReported` ties the typed view to the deviations.

`CleanIsOneRun` turns pairwise checks into a statement about any two records, across a counter that
wraps. `CleanForgivesNothing`, `CleanIsDelimited` and `CleanTotalsSpanTheTransaction` say the same
of faults, markers and totals. `KeepsThePromise` is the refinement. `CleanIsOneWholeTransaction`,
`WholeTransactionIsClean` and `CleanBillsTheTransaction` relate the report to what the stations
*wrote*, which the code never sees.

`AcceptedIsAuthentic` and `AuthenticIsAccepted` are soundness and completeness of verification: they
compare the verdict with the request itself, whatever spelling, encoding, form of signature, half of
the malleable pair or shape of key it came in. `ErrorNamesTheCause` is about the order of the
checks: each early return could hide the cause of a later one, and `NotVerified`, which accuses the
station, must never stand for a broken key or build. `ForgivenIsReported` adds up the deviations of
parsing and of verifying.

Of reading: `SpansAreBetweenBars` finds the signed span with no parser, by counting quotes and
brackets. `DepthIsNesting` compares the counter that the limit is checked against with the nesting of
the text read so far. `SyntaxIsReported` compares what the scan reports with what the finished tree
holds. `StrictLosesNothing` says that a record with a dropped field does not pass `Strict`.
`ReadingEnds` is liveness: every text is read to an end.

Of building: `SignedIsWhatWasGiven` is the round trip of every field through two grammars.
`SelfCheckIsExplained` and `StrictIsBuildable` say from both sides that the builder's rules and the
reader's are the same rules, although they are written twice; `DerivedVersionIsTaken` that the version
the builder derives is one the reference verifier knows.

Of files and commands: `TransactionsAreWhole` is the grouping that a reader of the container relies on.
`DocumentIsRead` says what a document means by its elements, with no open entry, buffer or flag, and
compares. `ContainerReadsBack` is writer against reader. `SuccessIsVerified` is the exit code against
the content of the file, and `PackagingKeepsTheVerdict` relates two commands.

Of short forms: `SignedScalarsAreRead` compares byte strings with integers through signing and
verifying; `CanonicalIsAsWritten` makes the flag "canonical" mean what it says; `KeyReadsBack`,
`TimesAreReadAsSpelled` and `CodesShareAForm` quantify over all spellings of a value, the former with the four
departures that have a deviation of their own, and no claim about those that have none; `DaysAreCounted`
counts the days of the calendar one leap year at a time; `DecodingIsExact` says that no bit is dropped.

### Bounds, and why they are enough

* `CounterSize = 4` stands for `2^64`. Sequences of up to four records start at different values,
  so the counter wraps in the middle of runs, and one whole turn minus one is reached. `Delivery`
  bounds a stream by `CounterSize`, because with a reused counter value a lost whole turn would be
  invisible; `2^64` records outlast a station.
* `Limit = 3`, `MaxItems = 4`: three readings resolve against each other (a statement, an omission
  or an unreadable field in between, and the reader), and one item falls beyond the limit. A
  reading inherits from the one before it only, so longer arrays repeat these steps; the theorems
  hold for every length.
* The items and sequences are families: each varies one group of fields that the code relates in
  every combination and leaves the others as they should be. The groups follow the code: RI, RU
  and RV; EF and ST; TM; TX, RT and CL. For sequences: counters and sources; markers; faults and
  clocks; registers.
* `Base = 2`, `MaxStream = 3`, `MaxInbox = 3`, one register: enough for a transaction of three
  records, one cut short and followed by another, and every loss, repetition and exchange of
  three. Stations are interchangeable, hence the symmetry.
* Verification: group order 7 with `r` and `s` among 0 to 8 has a zero, a low and a high half, the
  order itself and a scalar beyond it. Two curves of one width make bare points and bare signatures
  ambiguous, a third one has another width and no implementation in Rust. A check never looks at
  another request, so one per behaviour loses nothing.
* Texts: a structural character is a symbol, and so is a word nothing looks into; `Size` gives a word
  its bytes where a limit counts them. Three texts in which every rule of the grammar occurs are cut
  everywhere and changed, shortened and lengthened by one symbol everywhere, so that the parser is at
  fault in every mode at every position; the others are one per limit, on it and beyond it
  (`depth = 4`, `readings = 3`, 20 members; the two sizes are those of the code).
* Fields: a fiscal record and one of a transaction with one thing changed at a time, and all
  combinations of what one rule relates (level, kind, data; markers of two readings; name and number
  of the loss compensation). A rule of `Validate` looks at one group of fields, so groups need not be
  combined with each other. What each of them would be written as is read as well, also when `Validate`
  refuses it.
* Commands: sequences of up to three records, each a begin, an end, both or neither, and four with a
  fixed beginning: an open transaction, one that is closed, a stray end and a record of its own follow
  each other in every order. `MaxEntries = 3` and `MaxText = 8` are reached and passed. Documents have
  two values, each in one of eighteen forms, so that whatever one value leaves behind meets the next.
* Scalars: curves of one, two and three bytes, with odd orders as wide as the curve, as all seven
  curves of the table have them; all strings up to two bytes around zero, the half and the order.
  A curve of three bytes has a middle byte, which both receives a borrow and passes one on.
* DER: every way to write a length, integers with every defect, lengths on both sides of 128.
* Dates: years on both sides of every rule (leap year, century, era, epoch, year 0 and 9999), all
  months, the days at their ends. Years beyond four digits are not in the grammar.
* Texts of Base64 and hexadecimal: all up to four symbols over an alphabet with both Base64 spellings,
  padding and white space: one whole group, and every incomplete one.

### Deadlock, liveness and fairness

`CHECK_DEADLOCK FALSE` everywhere: a call returns and then nothing happens. `Session`, `CarryForward`,
`Delivery` and `Verification` assume no fairness: their loops run over a finite slice, and neither a
station nor a way is obliged to do anything.

`Library` assumes `WF_vars(Scan ...)`: `parse_with` is a plain function call with nothing to wait for,
so while a step of it is enabled one is taken. That is all the fairness there is: nothing is assumed of the
caller, of signers, of the typed view or of the tool. `ReadingEnds` (`section = "header" ~> section \in {"typed", "done"}`)
then says that the scan ends for every text. It is not a matter of course: the parser jumps over symbols by computed positions, and the escape `\u` advances
by two and leaves its digits to the next step; a step that does not move (the run's mutant of
`EscapedFrom`) never ends.

## Proofs

`CarryForward_proofs` proves, for every set of items, every limit and every length of the array:

* `TypeCorrect`: `Spec => []TypeOK`;
* `InvariantHolds`: `Spec => []Invariant`, where `Invariant` is `TypeOK`, `FlagsStick`,
  `ResolvedIsLastStated` and `ValuesAreOwn`;
* from it `FlagsAlwaysStick`, `ResolutionIsCorrect` and `BillableIsAlwaysBacked`.

The argument. `ResolvedIsLastStated` is inductive once the types are known, and it is the heart:
the code carries one reading along, the definition looks back over the array. Three lemmas connect
them. `AppendKeepsHistory`: an item does not change what was said up to an earlier place.
`NextStatement`: what was last said at a new object is what it says itself, or else what was last
said before it. `PreviousIsLastStated`: the last reading holds what was last said up to the *end*
of the array, not only up to its own place, because the items behind it became no reading.
`FlagsStick` needs that a readable member counts as written (`MeaningIsWritten`). `ValuesAreOwn`,
that RV is never inherited, is there for `BillableIsBacked`. `NaturalFacts` provides that a
non-empty bounded set of positions has a greatest element. `GapsAreAlwaysReported` is about the
deviations. They carry the place of their item, so what one item reports is never mistaken for what
another does: `NewDeviationsAreOfItem` keeps the items apart, and `NewGapsAreReported` is the argument
about one of them.

`Verification_proofs` proves, for every set of curves, points, texts, signatures and requests and
every build: `VerificationTypeCorrect` (`Spec => []TypeOK`), and `AcceptedIsAlwaysAuthentic`
(`Spec => []AcceptedIsAuthentic`). The invariant says what each step may rely on: the section is the
request's (`SectionRead`), the key is what the material was taken for (`KeyRead`) and on the
record's curve once that was compared (`CurvesAgree`), and the scalars are those in the record, or
those with the other `s` if the caller allows (`SigRead`). The last is needed because the backend
sees `n - s`: `TwinIsSigned` leads from there back to the `s` in the record, also where `s >= n` and
nothing was subtracted.

`AuthenticIsAlwaysAccepted` is the converse of soundness: the invariant says of a request for something
that was signed that it is on its way, with the key and the scalars it should have by then, or was
answered as it may be. `TwinIsLow` is the point at which it could go wrong: of `s` and `n - s` one is
low, and the backend must be handed a signature in both cases. `ForgivenIsAlwaysReported` rests on an
invariant that says which deviations have been collected at which step, and in
`ErrorsAlwaysNameTheirCause` each early return is compared with the request, which does not change.

`Session_proofs` proves, for every set of inputs, every width of the counter and every set of registers,
`SessionTypeCorrect` and the four invariants of a clean report. Each loop gets a "so far" invariant that
says what it has established of the records it is *behind* (`IsRead`, `IsCompared`, `IsSourced`,
`IsScanned`); `LoopsAdvance` says once, for all of them, that a step puts a loop behind the record it
has come to and no other, and that no finding is withdrawn.

* `OneRunSoFar`: not neighbours only, but any two records that were compared are as far apart in their
  counters as in their places. So the pair of neighbours that passes next extends the whole run
  (`PairsAddUp`), and no induction over the distance is needed; `ShiftsAdd` is the arithmetic at the wrap.
* `UnforgivingSoFar`: the weakest clock so far bounds the clocks of all records behind the scan, so that
  the one comparison after the loop is about every one of them.
* `DelimitedSoFar`: `begins` and `ends` are exactly the scanned records with such a marker.
* `SpansSoFar`: needs `DelimitedSoFar`, because only then a begin that opens a register can be nowhere
  but in the first record.

`Delivery_proofs` proves `CleanIsAlwaysAWholeTransaction` and `CleanAlwaysBillsTheTransaction`, for any
number of stations and streams of any length up to `CounterSize`. The steps of the check component are
those of `Session_proofs`, whose lemmas are about calls with *any* sequence of records. `World` says what
stations write (the k-th record has the k-th counter and reading, the first is a begin) and that
nothing arrives that was not written. With one source (`CleanIsOfOneStation`) a counter names a place in the
stream (`CountersNamePlaces`), as places on a ring. That the run does not go round the ring is *not* a
matter of counters: a begin stands at place 1, and a clean report has its only begin in its first record
(`CleanIsWhole`). `EndsWithTheLast` adds that the last reading is the last to touch its total.

`WholeTransactionIsAlwaysClean` is the other direction: nothing is held against a transaction that
arrived whole and in order. Its invariant says that as long as the caller hands over the records of one
transaction, no loop has a finding so far, whichever loop it is and however far it has come.

`Session_proofs` also proves the refinement, `SessionKeepsThePromise`: every initial state of `Session` is
one of `CheckComponent`, and every step is one of its steps or a stutter, for every set of inputs. The abstract
report is a function of the whole sequence; the loops know the part they have read. The invariant
`Reporting` closes the gap loop by loop: the findings so far are those of the records, and of the pairs
of neighbours, that the loop is behind, in both directions, so that none is missing and none is made up;
the weakest clock is the least status among the readings behind the scan; and the total of a register is
opened by the first record so far that can open it and closed by the last one from there that can.

`Tool_proofs` proves two of the properties of the command line tool, for any number of files and records.
`TransactionsAreAlwaysWhole`: of the entries packed so far, the open identifier is the last entry's
exactly if its group can go on, and no entry has the next one (`PackingInvariant`).
`SuccessIsAlwaysVerified`: unless a failure was counted, what is still to be verified is the end of what
was loaded and everything before it passed (`CommandInvariant`). Loading is a loop over data whose length
is not known; `PickedIsChosen` says what such a loop has collected after every step, by the step at which it would fail
first, since there is no induction to cite: `LoopExists` gives the loop its values, and the least
step that contradicts the claim cannot exist.

`Reader_proofs` proves `DepthIsAlwaysNesting`, `SpansAreAlwaysBetweenBars`, `StrictAlwaysLosesNothing` and
`StrictIsAlwaysBuildable`, of every text of any length and of the record that `sign` has written and reads
back. The first two say that the parser, which knows a mode, a stack and
a counter, agrees with a reader who only counts quotes, backslashes and brackets from the left. What makes
it more than counting is that a quote counts only if an even number of backslashes precedes it. The
first half says what passing one symbol does to these counts (`PassOver`, `PassPlain`, `PassEscape`,
`PassBracket`, ...); the second has one lemma per action of the parser (`...Moves`), the third one per step of
`parse_with` (`...KeepsSections`). The invariant `Sections` keeps two accounts at once: from the start of the text, for the bars, and from
the start of the section, for the depth. It says of both that the parser is in a string exactly if
a quote is open, has an escape before it exactly if the number of backslashes is odd, and has as
many calls under way as brackets are open; and that the bars passed outside strings are those that end
sections, with nothing open there. `RecordTextIsText` and `PayloadTextIsText` are needed because the text may be the
builder's own: whatever the fields are, what is written of them is again a sequence of symbols.

`StrictAlwaysLosesNothing` is about the tree that the parser builds. Trees of any depth are typed without
recursion: the values read so far are a set that has, with a value, all of its items (`AllValues`), and
a value is a tree if such a set holds it (`IsTree`). What is still open is typed by what the parser expects
(`Stacked`): everything below the top waits for a value, so an object there has one name more than it
has items; the top does exactly in the modes before a value. Each step of the parser adds at most one value to
the set (`CompleteBuilds`, `ReadJsonGrows`). `DecodeIsText` says that decoding a text with any escapes,
complete or not, gives a text and never `NONE`, since `NONE` is how `from_object` says "dropped": the
last place at which it could fail cannot exist. What remains is the catalogue: a kind that reports a
dropped field is one that `Strict` rejects (`StrictRefuses`).

`StrictIsAlwaysBuildable` compares two lists of rules that the code states twice. A tree that `Strict`
reads is one whose blocks report no departure (`AreTaken`), and each rule of `Validate` follows from the
block about the same fields (`ShapeIsKept`, `UserAssignmentIsKept`, `BoundsAreKept`, `ReadingIsKept`). A reading
needs more than its own item, because what the builder is given is what has been carried forward:
`ResolvedIsMeant` finds the item that states it, and that item is judged too. The rules of all readings are a loop
over data again (`ReadingsAreRuled`), and `FirstBrokenIsTolerated` says that no rule is broken before those that
need not hold.

`SyntaxIsAlwaysReported` is about the same trees, and about what was reported of them while they were read. The
property looks at every value at most `Bound` levels down. In the proof a value is reached by a path of at most
as many steps (`Nests`), so that nothing recurses over the tree. `Noting` says at every symbol that what
was reported in the sections is what the values completed so far exhibit, those waiting in the stack
included; `Telling` says of one step of the parser that it reports exactly what it adds. A name reported twice
while its object was open is one that two decoded names share at the end; `Watched` keeps the account of
control characters, which belong to the text and not to a value; it rests on the account of quotes that
`Sections` keeps.

`Forms_proofs` proves four properties of the short forms, for every question that can be asked.

* `DaysAreAlwaysCounted` (invariant `Placing`). The code counts eras of 400 years from a first of March; the
  property adds up years and months. `LeapsAreCounted` turns the sum into a formula (one leap year at a
  time, by the least year at which it would fail), `ErasAreCounted` and `YearsFromMarch` turn the code's
  quotients into the same one, and `MonthsAreAdded` is the twelve months of the two kinds of years.
* `CanonicalIsAlwaysAsWritten` (`Exchanging`). One half is that what is written is read, and is canonical:
  `WrittenIsRead` for a length and its value, `SignedIsMinimal` and `ScalarsAreWritten` for the two integers.
  The other is that only one text is canonical: a canonical element is the one that would be written
  (`TlvIsRead`, `LengthIsStated`: a length in its fewest octets), and an integer without a redundant octet is
  the one that its magnitude gets (`MinimalIsSigned`), so nothing is left to differ (`CanonicalAnswer`).
* `SignedScalarsAreAlwaysRead` (`Signing`). `scalar.rs` works octet by octet from the right, the property is
  about numbers. An octet string *counts up to* a number if its prefixes do, one place after the other
  (`Counts`, `NumberCounts`). From this, for an order of any length: the first place that differs decides
  (`PlacesDecide`, `LessIsSmaller`); a loop from the right gives every place its carry or borrow, and only one
  sequence of them keeps its rule (`CarryExists`, `CarriesAreOne`); doubling and
  subtracting octet by octet are those of numbers (`DoubledIsTwice`, `MinusIsDifference`), and so
  `IsHigh` is "more than half" and `Negate` is what is left of the order (`HighIsMoreThanHalf`,
  `NegatedIsTheRest`). With the DER lemmas above, what is signed is read (`SignedAreReadBack`).
* `DecodingIsAlwaysExact` (`Decoding`). The decoder carries bits from one character to the next, the encoder cuts
  chunks of three bytes. What the decoder holds after any number of sextets is a formula: how many bits are left
  over, which sextet they belong to and which two sextets each byte so far is made of. With its four cases (no,
  six, four or two bits left over) every byte is a function of two sextets and every sextet one of two bytes, the
  last one padded with zeros exactly if the decoder does not refuse; the two functions are inverse. What white
  space, padding and prefix leave of a text is decided character by character (`SiftsAreOne`), and the alphabets
  are inverse but for case and the two characters of URLs (`HexAlphabet`, `Base64Alphabet`). It needs that
  leftover bits are refused: without it two texts that differ in their last character have the same bytes.

Where these need induction along a string, it is the least place at which the claim would fail that cannot exist
(`Stepwise`).

Assumptions, all named in the modules and evaluated by TLC:

* `CarryForward`, `Session`, `Delivery`: items are reading objects or no objects; the limit and the
  length are naturals; `NONE` is none of the values, letters, registers and stations, and `NoTotal` is no
  total; the counter has at least two values and a stream does not use one twice;
* `Verification`: the two facts about `Signed` above, and no curve is called `"record"`;
* `PresenceAssumption` of `Records`: `NONE` is no counter, time or unit; `NoneAssumption` of `Container`:
  nor a number or an event;
* `SymbolsAssumption`, `NamesAssumption`, `FlagsAssumption`: the characters of the grammar and the names the
  library writes are symbols, and `NONE` is none, nor a truth value or a list of flags; `ErrorsAssumption`: `NONE` is no error;
* `TasksAssumption`, `CommandsAssumption`: what is read and the fields that are signed are texts, a flag
  has one, and a command but `to-xml` is given one file;
* `QuestionsAssumption`, `SignaturesAssumption`, `ScalarsAssumption`: a question about a date gives a valid
  time; one about a signature gives octets, fewer than the `2^24` that the lengths of `DerReader` can state; the order
  of a curve is no wider than its coordinates. `EncodingsAssumption`: a question about an encoding gives a text or
  bytes. `HexAlphabet`, `Base64Alphabet`: facts about the two tables of `Encoding`, which TLC evaluates in full.
  `NoneIsNotRead`, `NoneIsNoPair`: `NONE` is not what was read.

Only model-checked:

* round trips through two grammars: `SignedIsWhatWasGiven`, `DerivedVersionIsTaken` and `SelfCheckIsExplained` (the
  writer of JSON against its reader), `ContainerReadsBack` and `PackagingKeepsTheVerdict` (the writer of XML
  against its reader), `KeyReadsBack`. Nothing but an induction along the text relates what is written
  to what is then read of it, and it would have to be made for every loop of writer and reader at once; the argument of
  `Stepwise` replaces it for one loop with one claim;
* `DocumentIsRead`, which compares with a definition that recurses over a whole document;
* `TimesAreReadAsSpelled` and `CodesShareAForm`, where a spelled text is given together with what it means:
  that a text means what it is said to mean is an input, evaluated case by case;
* liveness (`ReadingEnds`): fairness rests on `ENABLED`, which is out of the prover's reach;
* the properties that the code does *not* have (next section).

## Where documentation and code differ

* `RegisterTotal::unit` is documented as the unit both readings were in; the code takes the
  begin's and never looks at the end's (`UnitIsOfBothReadings`). A begin in kWh and an end in Wh
  give a clean report.
* `SessionReport::clock` is documented as `None` when no reading carried a status letter; the code
  gives `Unknown` as soon as a reading has a time (`ClockOfNoLetterIsNone`).
* The module documentation of `session.rs` lists "`ST == G` on both" ends among the rules a clean
  report means; an end that states no `ST` is not looked at (`BothEndsAreGood`).
* `limits.rs` says a limit is never a truncation; `Limits::readings` is one, reported as a
  deviation (`LimitIsNeverATruncation`).
* `TimeMalformed` is documented as "so the reading has no time"; the reading inherits the time of
  the one before it (`MalformedTimeIsNoTime`).
* `SignatureScalars` is documented as distinct from `HighSSignature`, "where the scalars are in
  range"; with `RejectHighS` the code answers `HighSSignature` for scalars out of range too, because
  it looks at the half before any backend looks at the range (`HighSIsInRange`).

* A comment in `json.rs` says that a lone low surrogate is never lawful and a high one only before a low
  one; the scan reports the second half of a *lawful* pair as an invalid escape
  (`LawfulEscapesAreQuiet`), so `Strict` refuses an emoji written as a pair of escapes.

Smaller ones, without a run: a scalar out of range together with a key off the curve gets a
different error from each backend, where a comment in `verify.rs` says "refused identically"; a
record parsed under `Strict` or `Reference` may still be verified with a bare `r‖s` or non-canonical
DER, because these are found after the profile was applied; `algorithm_was_written` is documented
as whether `SA` was present, and is false for an `SA` of another JSON kind, which then means the
default.

Found while modelling texts, and stated here only:

* `sign.rs` says that everything that would deviate on the reading side is refused by `validate`, and
  that `SelfCheck` would be a bug of the crate. Four things pass `validate` and end in `SelfCheck`: more
  than four IF flags, a flag that claims a group its text is not of, a year outside 0 to 9999, and a payload
  or record above the default limits; so does a curve without a backend in this build.
  `SelfCheckIsExplained` names them.
* With more readings than `Limits::readings` the builder returns a record that reads back truncated: the
  deviation is a note, which no profile refuses.
* `deviation.rs` says departures are "reported rather than swallowed". An `LN` of another type is dropped
  without a report, and so are unknown members of `LC`. A lenient DER in a *key* is never reported, although
  `der.rs` says every leniency is. `deviation.rs` counts six types where `tables.rs` counts five.
* `time.rs:188` says parsing a `TM` records "any deviation in spelling", and `deviation.rs:10` that every
  departure becomes a deviation. `z`, a lower-case `t`, a missing fraction and surplus blanks before the status
  have no deviation and are passed over. `TimesAreReadAsSpelled` does not take that silence for right: of such
  spellings it claims the time and the four deviations there are, and that nothing else is reported only of the
  others.
* A reading that names no register is in no series, so a clean report may leave its value out of every total
  (`payload/mod.rs:536`). No document promises otherwise, so there is no claim to check.
* `xml.rs` reads references as part of a text. In the locked version of `quick-xml` they are events of
  their own, which the loop ignores: an `&` or a `<` in a record does not survive the container. The test
  of the round trip has neither. A carriage return does not survive either, by the rules of XML.
* After a `values` root an element counts at any depth; a nested or self-closed `value` replaces the open
  entry, whose content is lost; nested text elements share one buffer.
* `hex_decode_lossy` strips `0x` only at the very start; after a blank its `0` is a digit. A text that is
  both hexadecimal and Base64 is hexadecimal.
* In the conformance command a case without `parses` passes without its other expectations being looked
  at if its record does not parse, and `verifies` without `key` is ignored.

## What is abstracted

The upper group has no text: a member is readable or not, and means a member of a small set. Values are
integers (the code's `Decimal` has 96 bits and panics on overflow). Deviations of the syntax of TM are
left out of `CarryForward` and are in `CivilTime`. In `Verification` the reading of DER, hexadecimal and
Base64 is an input, and is in `DerReader` and `Encoding`; a bare signature that happens to read as DER is
excluded (`RequestsAssumption`): the code would take it for DER and answer `NotVerified`. That OpenSSL
cannot allocate, which the code maps to `NotVerified`, is left out. `RegisterSeries::delta`, which
refuses a pair of different units and is not used by the session, is left out.

The lower group reads symbols. A word is one symbol, and what it spells is given by constants
(`Counters`, `Versions`, `Instants`, `Codes`, `HexWords`); the texts of times, codes and keys are
read character by character in `Forms` instead. Signature sections that `RecordReader` reads have table
names and an `SD` that decodes, because `Verification` has the others. A signer is its answer, and a
record verifies under the key it is said to be signed with. A deviation is its kind; place and wording
are left out but for the index of a reading. `unix_millis` is a pair of days and milliseconds of a day,
because TLC's integers have 32 bits. Windows line ends, encodings of files, colours and `--json` are
left out.

## Plan

Everything in the picture above is done, with proofs of every invariant of `CarryForward`, `Verification`,
`Session` and `Delivery`, of the refinement, and of the invariants of the tool, the reader, the builder and the
short forms that no round trip through a grammar is in the way of.

What would come next is such a round trip, beginning with the shortest: a key that is written and read back
(`KeyReadsBack`), for which `DecodingIsAlwaysExact` and the lemmas about DER are two of the parts.

## Not modelled, and why

* `summary.rs` copies what the record answers; `lib.rs` has no behaviour. Of `error.rs` there are the
  variants; their wording and places are left out.
* Elliptic-curve arithmetic, SHA-256, `quick-xml` and `rust_decimal` are other crates, and are taken with
  their promised properties.
* `number.rs`: which members are numbers is modelled, the width and scale of `Decimal` are not. The hazard
  at `session.rs:606` (a subtraction of 96-bit decimals that panics) therefore has no property.
* `MeterValueContext::for_record` and `PublicKeyPolicy` of `ocpp.rs`: the first chooses a word from two
  booleans, with nothing that depends on it, the second leaves a field out.
* The source of a record is compared as one string (`session.rs:465`); how it is put together is a
  formatting of two serial numbers, and `Records` has its result only.
* Of the tool: `explain`, `session`, `sign`, `curves` and `conformance` print what the library answers.
* The site, examples, benches, fuzz targets, `xtask` and the conformance suite are tooling.
