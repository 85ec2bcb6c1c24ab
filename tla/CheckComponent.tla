--------------------------- MODULE CheckComponent ---------------------------
(***************************************************************************)
(* What a check component promises about a sequence of records: the        *)
(* findings and the register totals it reports, stated over the whole      *)
(* sequence at once, with no order of evaluation.  Session implements it.  *)
(***************************************************************************)
EXTENDS Records

VARIABLES
  records,   \* the sequence being judged
  answer     \* Pending, then the report

Pending == [answered |-> FALSE]

KindOf(rs) == IF rs = <<>> \/ (\E k \in DOMAIN rs : IsTransaction(rs[k]))
                THEN "Transaction" ELSE "Fiscal"

-----------------------------------------------------------------------------
\* The records at which something is wrong, by finding.
RecordFindings(rs) ==
  LET N == DOMAIN rs
      Reads(k, P(_)) == \E m \in DOMAIN rs[k].readings : P(rs[k].readings[m])
      Unreadable == {k \in N : rs[k].pg = NONE}
      Pairs == {k \in N \ {1} : k \notin Unreadable /\ k - 1 \notin Unreadable}
      Changed == {k \in Pairs : rs[k].pg.context # rs[k - 1].pg.context}
      Broken == {k \in Pairs \ Changed :
                   rs[k].pg.number # (rs[k - 1].pg.number + 1) % CounterSize}
      At(finding, S) == {<<finding, k>> : k \in S}
  IN UNION {
       At("PaginationUnreadable", Unreadable),
       At("PaginationContextChanged", Changed),
       At("PaginationBroken", Broken),
       At("SourceChanged", {k \in N : Source(rs[k]) # Source(rs[1])}),
       At("DuplicateRecord",
          {k \in N : \E m \in N : m < k /\ PayloadDigest(rs[m]) = PayloadDigest(rs[k])}),
       At("IdentificationError", {k \in N : rs[k].il # NONE /\ IsLevelError(rs[k].il)}),
       At("MeterNotOk", {k \in N : Reads(k, LAMBDA x : x.state \notin {NONE, "G"})}),
       At("ErrorFlagged", {k \in N : Reads(k, LAMBDA x : x.ef # {})}),
       At("TransactionFaulted", {k \in N : Reads(k, LAMBDA x : x.tx \in {"A", "P", "X"})})}

\* The records that hold a reading marked with one of the letters.
Marking(rs, letters) ==
  {k \in DOMAIN rs : \E m \in DOMAIN rs[k].readings : rs[k].readings[m].tx \in letters}

MarkerVerdict(rs, letters, place, none, many) ==
  LET M == Marking(rs, letters)
  IN {<<none, NONE>> : x \in {y \in {M} : y = {}}}
       \union {<<many, NONE>> : x \in {k \in M : \E m \in M : m # k}}
       \union {<<"MarkerOutOfPlace", k>> : k \in {m \in M : M = {m} /\ m # place}}

\* Clean only if some reading is stamped and every stamp says S or R.
ClockVerdict(rs) ==
  LET Stamped == {r \in UNION {{rs[k].readings[m] : m \in DOMAIN rs[k].readings} :
                                 k \in DOMAIN rs} : r.time # NONE}
  IN IF Stamped # {} /\ \A r \in Stamped : r.time.status \in {"S", "R"}
       THEN {} ELSE {<<"ClockNotSynchronised", NONE>>}

-----------------------------------------------------------------------------
(***************************************************************************)
(* Registers across the sequence.  A register's total begins where it      *)
(* first opens with a value and a unit, and ends with the last value it    *)
(* closes with from there on.                                              *)
(***************************************************************************)
OpeningOf(rs, k, o) == rs[k].readings[Opens(rs[k], o, KindOf(rs))]
ClosingOf(rs, k, o) == rs[k].readings[Closes(rs[k], o, KindOf(rs))]

Start(rs, o) ==
  FirstOf({k \in DOMAIN rs : /\ Opens(rs[k], o, KindOf(rs)) # 0
                             /\ OpeningOf(rs, k, o).value # NONE
                             /\ OpeningOf(rs, k, o).unit # NONE})

Closings(rs, o) ==
  {k \in DOMAIN rs : Closes(rs[k], o, KindOf(rs)) # 0 /\ ClosingOf(rs, k, o).value # NONE}

Paired(rs, o) == {k \in Closings(rs, o) : Start(rs, o) # 0 /\ Start(rs, o) <= k}

TotalOf(rs, o) ==
  LET b == OpeningOf(rs, Start(rs, o), o)
      end == IF Paired(rs, o) = {} THEN b.value
             ELSE ClosingOf(rs, LastOf(Paired(rs, o)), o).value
  IN IF Start(rs, o) = 0 THEN NONE
     ELSE [begin |-> b.value, end |-> end, delta |-> end - b.value, unit |-> b.unit]

Ledger(rs) == [o \in Registers |-> TotalOf(rs, o)]

\* Where o is first seen in record k: the order the registers are taken in.
HeadOf(rs, k, o) == FirstOf(Series(rs[k], o))

Before(p, q) == p[1] < q[1] \/ (p[1] = q[1] /\ p[2] <= q[2])

\* The stamp of the first register that opens, and of the last that closes.
BeginStamp(rs) ==
  LET P == {<<q[1], HeadOf(rs, q[1], q[2]), OpeningOf(rs, q[1], q[2]).time>> :
              q \in {p \in (DOMAIN rs) \X Registers :
                              p[1] = Start(rs, p[2]) /\ OpeningOf(rs, p[1], p[2]).time # NONE}}
  IN IF P = {} THEN NONE ELSE (CHOOSE p \in P : \A q \in P : Before(p, q))[3].ms

EndStamp(rs) ==
  LET P == {<<q[1], HeadOf(rs, q[1], q[2]), ClosingOf(rs, q[1], q[2]).time>> :
              q \in {p \in (DOMAIN rs) \X Registers :
                              p[1] \in Paired(rs, p[2]) /\ ClosingOf(rs, p[1], p[2]).time # NONE}}
  IN IF P = {} THEN NONE ELSE (CHOOSE p \in P : \A q \in P : Before(q, p))[3].ms

RegisterFindings(rs) ==
  LET Totalled == {o \in Registers : Start(rs, o) # 0}
      backwards == BeginStamp(rs) # NONE /\ EndStamp(rs) # NONE /\ EndStamp(rs) < BeginStamp(rs)
  IN {<<"MeterWentBackwards", o>> : o \in {q \in Totalled : Ledger(rs)[q].delta < 0}}
       \union {<<"RegisterEndWithoutBegin", o>> :
                 o \in {q \in Registers : Closings(rs, q) # Paired(rs, q)}}
       \union (IF backwards THEN {<<"TimeWentBackwards", NONE>>} ELSE {})

-----------------------------------------------------------------------------
Report(rs) ==
  IF rs = <<>>
    THEN [answered |-> TRUE, findings |-> {<<"Empty", NONE>>}, totals |-> Ledger(rs)]
    ELSE [answered |-> TRUE,
          findings |->
            RecordFindings(rs) \union ClockVerdict(rs) \union RegisterFindings(rs)
              \union (IF KindOf(rs) = "Transaction"
                        THEN MarkerVerdict(rs, {"B"}, 1, "NoBegin", "MultipleBegins")
                               \union MarkerVerdict(rs, {"E", "L", "R", "A", "P"}, Len(rs),
                                                    "NoEnd", "MultipleEnds")
                        ELSE {}),
          totals |-> Ledger(rs)]

Init == records = <<>> /\ answer = Pending

\* The question is put, and answered, at once or later, by its one right answer.
Ask == /\ answer = Pending /\ records = <<>>
       /\ records' \in Seq(Record)
       /\ answer' = Pending \/ answer' = Report(records')

Answer == /\ answer = Pending /\ answer' # Pending
          /\ UNCHANGED records
          /\ answer' = Report(records)

Next == Ask \/ Answer

Spec == Init /\ [][Next]_<<records, answer>>

=============================================================================
