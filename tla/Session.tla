------------------------------ MODULE Session ------------------------------
(***************************************************************************)
(* The check component: session::validate_refs.  One call, one pass of its *)
(* loops per action: pc names the loop and i the record it has come to;    *)
(* the loop over the registers of a record goes by j.  Findings are kept   *)
(* as a set; the order in which the checks run is pc's.                    *)
(***************************************************************************)
EXTENDS Records

CONSTANT Inputs   \* the record sequences the function is called with

ASSUME InputsAssumption == Inputs \subseteq Seq(Record)

VARIABLES
  pc, i, j,
  records,             \* the argument
  kind,                \* SessionReport::kind
  findings,            \* SessionReport::findings: <<finding, record or register>>
  begins, ends,        \* the records that carry a begin, an end
  worst, best,         \* the weakest and the strongest clock seen
  totals,              \* SessionReport::totals, by register
  unpaired,            \* registers with an end reading and no total to put it in
  beginTime, endTime   \* the stamps the totals begin and end with

scanned  == <<begins, ends, worst, best>>
ledger == <<totals, unpaired, beginTime, endTime>>
vars   == <<pc, i, j, records, kind, findings, scanned, ledger>>

Phase == {"idle", "readable", "pairs", "source", "repeats", "scan", "markers",
          "totals", "conclude", "done"}

Total == [begin : Int, end : Int, delta : Int, unit : Unit]

\* No total is not a total.
ASSUME NoTotalAssumption == NONE \notin Total

-----------------------------------------------------------------------------
Init ==
  /\ pc = "idle" /\ i = 1 /\ j = 1
  /\ records = <<>>
  /\ kind = "Transaction"
  /\ findings = {}
  /\ begins = {} /\ ends = {} /\ worst = NONE /\ best = NONE
  /\ totals = [o \in Registers |-> NONE] /\ unpaired = {}
  /\ beginTime = NONE /\ endTime = NONE

\* validate_refs(rs) is called.  No records at all is a finding and the end.
Validate(rs) ==
  /\ pc = "idle"
  /\ records' = rs
  /\ IF rs = <<>>
       THEN pc' = "done" /\ findings' = {<<"Empty", NONE>>} /\ UNCHANGED kind
       ELSE /\ pc' = "readable"
            /\ kind' = IF \E k \in DOMAIN rs : IsTransaction(rs[k])
                         THEN "Transaction" ELSE "Fiscal"
            /\ UNCHANGED findings
  /\ UNCHANGED <<i, j, scanned, ledger>>

\* Mutant of Pass: the index runs over the end of a loop into the next.
PassOver(phase, next, new) ==
  /\ pc = phase
  /\ findings' = findings \union new
  /\ i' = i + 1
  /\ pc' = IF i < Len(records) THEN pc ELSE next
  /\ UNCHANGED <<j, records, kind>>

\* One pass of a loop over the records, which goes on to phase next after the
\* last of them, and the findings it adds.
Pass(phase, next, new) ==
  /\ pc = phase
  /\ findings' = findings \union new
  /\ IF i < Len(records) THEN i' = i + 1 /\ pc' = pc ELSE i' = 1 /\ pc' = next
  /\ UNCHANGED <<j, records, kind>>

Found(finding, condition) == IF condition THEN {<<finding, i>>} ELSE {}

CheckReadable ==
  /\ Pass("readable", "pairs", Found("PaginationUnreadable", records[i].pg = NONE))
  /\ UNCHANGED <<scanned, ledger>>

\* windows(2): a pair with an unreadable counter has nothing to compare.
CheckPair ==
  LET a == records[i - 1].pg
      b == records[i].pg
      Both == i > 1 /\ a # NONE /\ b # NONE
      Changed == Both /\ a.context # b.context
  IN /\ Pass("pairs", "source",
             Found("PaginationContextChanged", Changed)
               \union Found("PaginationBroken", Both /\ ~Changed /\ ~IsFollowedBy(a, b)))
     /\ UNCHANGED <<scanned, ledger>>

CheckSource ==
  /\ Pass("source", "repeats",
          Found("SourceChanged", Source(records[i]) # Source(records[1])))
  /\ UNCHANGED <<scanned, ledger>>

\* Mutant of CheckRepeat: a record is compared with the one before it only.
CheckAdjacentRepeat ==
  /\ Pass("repeats", "scan",
          Found("DuplicateRecord",
                i > 1 /\ PayloadDigest(records[i - 1]) = PayloadDigest(records[i])))
  /\ UNCHANGED <<scanned, ledger>>

CheckRepeat ==
  /\ Pass("repeats", "scan",
          Found("DuplicateRecord",
                \E k \in 1 .. i - 1 : PayloadDigest(records[k]) = PayloadDigest(records[i])))
  /\ UNCHANGED <<scanned, ledger>>

\* Mutant of Clocks: a stamp without a letter says nothing.
ClocksStated(r) ==
  {r.readings[k].time.status :
     k \in {m \in DOMAIN r.readings : r.readings[m].time # NONE}} \ {NONE}

\* The clock states of a record's readings; a stamp without a letter counts as U.
Clocks(r) ==
  {IF r.readings[k].time.status = NONE THEN "U" ELSE r.readings[k].time.status :
     k \in {m \in DOMAIN r.readings : r.readings[m].time # NONE}}

SomeReading(r, P(_)) == \E k \in DOMAIN r.readings : P(r.readings[k])

\* User assignment, and the loop over the readings of one record.
ScanRecord ==
  LET r    == records[i]
      Has(Is(_)) == SomeReading(r, LAMBDA x : x.tx # NONE /\ Is(x.tx))
      seen(w) == Clocks(r) \union ({w} \ {NONE})
  IN /\ Pass("scan", "markers",
             Found("IdentificationError", r.il # NONE /\ IsLevelError(r.il))
               \union Found("MeterNotOk",
                            SomeReading(r, LAMBDA x : x.state # NONE /\ ~IsOk(x.state)))
               \union Found("ErrorFlagged", SomeReading(r, LAMBDA x : AnyFlag(x.ef)))
               \union Found("TransactionFaulted", Has(IsFault)))
     /\ begins' = begins \union {k \in {i} : Has(IsBegin)}
     /\ ends' = ends \union {k \in {i} : Has(IsEnd)}
     /\ worst' = IF seen(worst) = {} THEN NONE ELSE Weakest(seen(worst))
     /\ best' = IF seen(best) = {} THEN NONE ELSE Strongest(seen(best))
     /\ UNCHANGED ledger

\* Mutant of MarkerFindings: the marker may be in any record.
MarkersCounted(marked, place, none, many) ==
  IF marked = {} THEN {<<none, NONE>>}
  ELSE IF \E only \in marked : marked = {only} THEN {} ELSE {<<many, NONE>>}

\* One of the two halves of check_markers: the record the marker belongs in.
MarkerFindings(marked, place, none, many) ==
  CASE marked = {} -> {<<none, NONE>>}
    [] \E only \in marked : marked = {only} ->
         {<<"MarkerOutOfPlace", only>> : only \in marked \ {place}}
    [] OTHER -> {<<many, NONE>>}

CheckMarkers ==
  /\ pc = "markers"
  /\ pc' = "totals"
  /\ findings' = findings
       \union (IF kind = "Transaction"
                 THEN MarkerFindings(begins, 1, "NoBegin", "MultipleBegins")
                        \union MarkerFindings(ends, Len(records), "NoEnd", "MultipleEnds")
                 ELSE {})
       \union (IF worst = NONE \/ ~DurationIsBillable(worst)
                 THEN {<<"ClockNotSynchronised", NONE>>} ELSE {})
  /\ UNCHANGED <<i, j, records, kind, scanned, ledger>>

-----------------------------------------------------------------------------
(***************************************************************************)
(* Per-register ends.  (i, j) goes through every position of every record; *)
(* a register is handled where by_register first lists it.                 *)
(***************************************************************************)
AtReading == pc = "totals" /\ i <= Len(records) /\ j <= Len(records[i].readings)

\* Mutant of Closed: the difference is not brought up to date.
ClosedAt(t, v) == [t EXCEPT !.end = v]

Closed(t, v) == [t EXCEPT !.end = v, !.delta = v - t.begin]

TotalRegister ==
  LET r == records[i].readings
      o == r[j].obis
      b == Opens(records[i], o, kind)
      e == Closes(records[i], o, kind)
      Opening == b # 0 /\ r[b].value # NONE /\ r[b].unit # NONE /\ totals[o] = NONE
      opened == IF Opening
                  THEN [totals EXCEPT ![o] = [begin |-> r[b].value, end |-> r[b].value,
                                              delta |-> 0, unit |-> r[b].unit]]
                  ELSE totals
      Closing == e # 0 /\ r[e].value # NONE
      Paired  == Closing /\ opened[o] # NONE
  IN /\ AtReading
     /\ j \in Heads(records[i])
     /\ j' = j + 1
     /\ totals' = IF Paired
                    THEN [opened EXCEPT ![o] = Closed(@, r[e].value)]
                    ELSE opened
     /\ beginTime' = IF Opening /\ beginTime = NONE /\ r[b].time # NONE
                       THEN r[b].time.ms ELSE beginTime
     /\ endTime' = IF Paired /\ r[e].time # NONE THEN r[e].time.ms ELSE endTime
     /\ unpaired' = IF Closing /\ ~Paired THEN unpaired \union {o} ELSE unpaired
     /\ UNCHANGED <<pc, i, records, kind, findings, scanned>>

\* The reading names no register, or one that was handled further up.
PassReading ==
  /\ AtReading
  /\ j \notin Heads(records[i])
  /\ j' = j + 1
  /\ UNCHANGED <<pc, i, records, kind, findings, scanned, ledger>>

NextRecord ==
  /\ pc = "totals"
  /\ i <= Len(records) /\ j > Len(records[i].readings)
  /\ j' = 1
  /\ IF i < Len(records) THEN i' = i + 1 /\ pc' = pc ELSE i' = 1 /\ pc' = "conclude"
  /\ UNCHANGED <<records, kind, findings, scanned, ledger>>

Conclude ==
  /\ pc = "conclude"
  /\ pc' = "done"
  /\ findings' = findings
       \union {<<"MeterWentBackwards", o>> :
                 o \in {q \in Registers : totals[q] # NONE /\ totals[q].delta < 0}}
       \union {<<"RegisterEndWithoutBegin", o>> : o \in unpaired}
       \union (IF beginTime # NONE /\ endTime # NONE /\ endTime < beginTime
                 THEN {<<"TimeWentBackwards", NONE>>} ELSE {})
  /\ UNCHANGED <<i, j, records, kind, scanned, ledger>>

Check == CheckReadable \/ CheckPair \/ CheckSource \/ CheckRepeat \/ ScanRecord
           \/ CheckMarkers \/ TotalRegister \/ PassReading \/ NextRecord \/ Conclude

Next == (\E rs \in Inputs : Validate(rs)) \/ Check

Spec == Init /\ [][Next]_vars

-----------------------------------------------------------------------------
(***************************************************************************)
(* Properties.                                                             *)
(***************************************************************************)

\* The variables hold what the code's types allow, and the loop counters stay
\* inside the loops they count.
TypeOK ==
  /\ pc \in Phase
  /\ records \in Seq(Record)
  /\ i \in Nat \ {0} /\ j \in Nat \ {0}
  /\ pc \notin {"idle", "done"} => i \in DOMAIN records
  /\ kind \in {"Transaction", "Fiscal"}
  /\ begins \subseteq DOMAIN records /\ ends \subseteq DOMAIN records
  /\ worst \in Option(TimeStatus) /\ best \in Option(TimeStatus)
  /\ totals \in [Registers -> Option(Total)]
  /\ unpaired \subseteq Registers
  /\ beginTime \in Option(Int) /\ endTime \in Option(Int)

Answered == pc = "done"
Clean    == Answered /\ findings = {}     \* SessionReport::is_clean

\* The pagination counter d records further on.
Shift(n, d) == IF n + d < CounterSize THEN n + d ELSE n + d - CounterSize

\* "Continuous pagination ... no data records may have been removed or added ...
\* all data records must come from the same source": a clean report means that
\* every record is readable, of one context and one source, and that the
\* counters of any two of them are exactly as far apart as their places in the
\* sequence, however far that is: nothing lost, repeated or reordered.
CleanIsOneRun ==
  Clean =>
    \A k, m \in DOMAIN records :
      /\ records[k].pg # NONE /\ records[m].pg # NONE
      /\ records[k].pg.context = records[m].pg.context
      /\ Source(records[k]) = Source(records[m])
      /\ k < m /\ m - k < CounterSize
           => records[m].pg.number = Shift(records[k].pg.number, m - k)

\* "Intermediate error conditions and the detection of unusable variables must
\* lead to an error": no fault in any reading of any record, and no failed user
\* assignment, survives into a clean report, whatever comes after it.
CleanForgivesNothing ==
  Clean =>
    \A k \in DOMAIN records :
      /\ records[k].il # NONE => ~IsLevelError(records[k].il)
      /\ \A m \in DOMAIN records[k].readings :
           LET x == records[k].readings[m]
           IN /\ x.state # NONE => IsOk(x.state)
              /\ ~AnyFlag(x.ef)
              /\ x.tx # NONE => ~IsFault(x.tx)
              /\ x.time # NONE => x.time.status # NONE /\ DurationIsBillable(x.time.status)

\* "The first record must be marked as the start of a charging process, the last
\* as the end": in a clean transaction the first record, and no other, holds a
\* begin, and the last, and no other, holds an end.  A clean fiscal sequence
\* holds no marker at all.
CleanIsDelimited ==
  Clean =>
    \A k \in DOMAIN records :
      LET Holds(Is(_)) == SomeReading(records[k], LAMBDA x : x.tx # NONE /\ Is(x.tx))
      IN IF kind = "Transaction"
           THEN (Holds(IsBegin) <=> k = 1) /\ (Holds(IsEnd) <=> k = Len(records))
           ELSE ~SomeReading(records[k], LAMBDA x : x.tx # NONE)

\* The totals of a clean transaction span it: what a register is billed for
\* begins with a value the first record marked as the begin of that register,
\* ends with one the last record marked as its end (or has moved nothing), and
\* never runs backwards.
CleanTotalsSpanTheTransaction ==
  Clean /\ kind = "Transaction" =>
    \A o \in Registers :
      totals[o] # NONE =>
        LET At(k, v, Is(_)) ==
              \E m \in Marked(records[k], o, Is) : records[k].readings[m].value = v
        IN /\ At(1, totals[o].begin, IsBegin)
           /\ At(Len(records), totals[o].end, IsEnd) \/ totals[o].end = totals[o].begin
           /\ totals[o].delta = totals[o].end - totals[o].begin
           /\ totals[o].delta >= 0

\* The report is the one the check component promises: every finding it should
\* make and no other, and the right total for every register.
Promise == INSTANCE CheckComponent
             WITH answer <- IF Answered
                              THEN [answered |-> TRUE, findings |-> findings, totals |-> totals]
                              ELSE [answered |-> FALSE]

KeepsThePromise == Promise!Spec

(***************************************************************************)
(* What the documentation says and the code does not do.                   *)
(***************************************************************************)

\* session.rs, RegisterTotal: "The unit both readings were in."
UnitIsOfBothReadings ==
  Clean =>
    \A o \in Registers :
      totals[o] # NONE =>
        \A k \in DOMAIN records :
          LET e == Closes(records[k], o, kind)
          IN e # 0 => records[k].readings[e].unit = totals[o].unit

\* session.rs, SessionReport::clock: "`None` when no reading carried a status
\* letter at all, which is not the same as "unknown": it means the record never
\* said."  The code folds a stamp without a letter into U.
ClockOfNoLetterIsNone ==
  Answered /\ (\A k \in DOMAIN records :
                 ~SomeReading(records[k], LAMBDA x : x.time # NONE /\ x.time.status # NONE))
    => worst = NONE

\* session.rs, of the rules that held when a report is clean: "`ST == G` on both",
\* the begin and the end.  The code does not look at an end that states no ST.
BothEndsAreGood ==
  Clean /\ kind = "Transaction" =>
    \A k \in DOMAIN records :
      \A m \in DOMAIN records[k].readings :
        LET x == records[k].readings[m]
        IN x.tx # NONE /\ (IsBegin(x.tx) \/ IsEnd(x.tx)) => x.state = "G"

=============================================================================
