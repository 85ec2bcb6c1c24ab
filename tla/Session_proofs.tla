--------------------------- MODULE Session_proofs ---------------------------
(***************************************************************************)
(* Theorems of the check component, for every set of record sequences it   *)
(* is called with, every counter width and every set of registers.         *)
(***************************************************************************)
EXTENDS Session, NaturalFacts, TLAPS

-----------------------------------------------------------------------------
(***************************************************************************)
(* Ranks of the clock letters.                                             *)
(***************************************************************************)

\* U < I < R < S.
LEMMA Ranks == Rank("U") = 0 /\ Rank("I") = 1 /\ Rank("R") = 2 /\ Rank("S") = 3
  BY DEF Rank

\* Of some letters one permits least and one most.
LEMMA WeakestOfSome ==
  ASSUME NEW S \in SUBSET TimeStatus, S # {}
  PROVE  /\ Weakest(S) \in S /\ \A t \in S : Rank(Weakest(S)) <= Rank(t)
         /\ Strongest(S) \in S
<1>0. \A t \in S : \/ t = "U" /\ Rank(t) = 0
                   \/ t = "I" /\ Rank(t) = 1
                   \/ t = "R" /\ Rank(t) = 2
                   \/ t = "S" /\ Rank(t) = 3
  <2> SUFFICES ASSUME NEW t \in S
               PROVE  \/ t = "U" /\ Rank(t) = 0
                      \/ t = "I" /\ Rank(t) = 1
                      \/ t = "R" /\ Rank(t) = 2
                      \/ t = "S" /\ Rank(t) = 3
    OBVIOUS
  <2>1. t \in {"U", "I", "R", "S"}
    BY DEF TimeStatus
  <2> QED BY <2>1, Ranks
<1>1. \E s \in S : \A t \in S : Rank(s) <= Rank(t)
  <2>1. CASE "U" \in S
    BY <1>0, <2>1, Ranks
  <2>2. CASE "U" \notin S /\ "I" \in S
    BY <1>0, <2>2, Ranks
  <2>3. CASE "U" \notin S /\ "I" \notin S /\ "R" \in S
    BY <1>0, <2>3, Ranks
  <2>4. CASE S = {"S"}
    BY <2>4, Ranks
  <2> QED BY <1>0, <2>1, <2>2, <2>3, <2>4
<1>2. \E s \in S : \A t \in S : Rank(t) <= Rank(s)
  <2>1. CASE "S" \in S
    BY <1>0, <2>1, Ranks
  <2>2. CASE "S" \notin S /\ "R" \in S
    BY <1>0, <2>2, Ranks
  <2>3. CASE "S" \notin S /\ "R" \notin S /\ "I" \in S
    BY <1>0, <2>3, Ranks
  <2>4. CASE S = {"U"}
    BY <2>4, Ranks
  <2> QED BY <1>0, <2>1, <2>2, <2>3, <2>4
<1> QED BY <1>1, <1>2 DEF Weakest, Strongest

\* The first and the last of some positions are among them.
LEMMA FirstAndLastAreOf ==
  ASSUME NEW n \in Nat, NEW K \in SUBSET (1 .. n)
  PROVE  /\ FirstOf(K) # 0 => FirstOf(K) \in K /\ \A m \in K : FirstOf(K) <= m
         /\ LastOf(K) # 0 => LastOf(K) \in K /\ \A m \in K : m <= LastOf(K)
         /\ K # {} => FirstOf(K) # 0 /\ LastOf(K) # 0
<1>1. CASE K = {}
  BY <1>1 DEF FirstOf, LastOf
<1>2. CASE K # {}
  <2>1. \E x \in K : \A y \in K : x <= y
    BY <1>2, LeastExists
  <2>2. \E x \in K : \A y \in K : y <= x
    BY <1>2, GreatestExists
  <2>3. FirstOf(K) \in K /\ \A m \in K : FirstOf(K) <= m
    BY <1>2, <2>1 DEF FirstOf
  <2>4. LastOf(K) \in K /\ \A m \in K : m <= LastOf(K)
    BY <1>2, <2>2 DEF LastOf
  <2> QED BY <2>3, <2>4
<1> QED BY <1>1, <1>2

\* What opens and closes a register in a record is a reading of that register.
LEMMA EndsAreReadings ==
  ASSUME NEW r \in Record, NEW o \in Registers, NEW k
  PROVE  /\ Opens(r, o, k) # 0 => Opens(r, o, k) \in DOMAIN r.readings
         /\ Closes(r, o, k) # 0 => Closes(r, o, k) \in DOMAIN r.readings
<1>1. Len(r.readings) \in Nat /\ DOMAIN r.readings = 1 .. Len(r.readings)
  BY DEF Record
<1>2. Series(r, o) \in SUBSET (1 .. Len(r.readings))
  BY <1>1 DEF Series
<1>3. Marked(r, o, IsBegin) \in SUBSET (1 .. Len(r.readings))
  BY <1>2 DEF Marked
<1>4. Marked(r, o, IsEnd) \in SUBSET (1 .. Len(r.readings))
  BY <1>2 DEF Marked
<1> QED BY <1>1, <1>2, <1>3, <1>4, FirstAndLastAreOf DEF Opens, Closes

-----------------------------------------------------------------------------
(***************************************************************************)
(* The types.                                                              *)
(***************************************************************************)

\* Before the call the loops stand at their start and nothing has been seen.
Untouched ==
  pc = "idle" => /\ i = 1 /\ j = 1 /\ findings = {}
                 /\ begins = {} /\ ends = {} /\ worst = NONE /\ best = NONE
                 /\ totals = [o \in Registers |-> NONE] /\ unpaired = {}

Typed == TypeOK /\ Untouched

\* A step of the check component, called with any sequence of records.
Step == (\E rs \in Seq(Record) : Validate(rs)) \/ Check \/ UNCHANGED vars

\* The sequences of Inputs are sequences of records.
LEMMA StepsAreSteps == [Next]_vars => Step
  BY InputsAssumption DEF Next, Step

\* What a pass of a loop does to pc and i.
LEMMA PassIsTyped ==
  ASSUME TypeOK, NEW phase \in Phase \ {"idle", "done"}, NEW next \in Phase \ {"idle", "done"},
         NEW new, Pass(phase, next, new)
  PROVE  /\ pc' \in Phase /\ records' = records /\ i' \in Nat \ {0} /\ j' = j
         /\ i' \in DOMAIN records /\ kind' = kind
<1>1. Len(records) \in Nat /\ DOMAIN records = 1 .. Len(records)
  BY DEF TypeOK
<1>2. i \in 1 .. Len(records)
  BY <1>1 DEF TypeOK, Pass
<1> QED BY <1>1, <1>2 DEF TypeOK, Pass

\* The clock states of a record are letters.
LEMMA ClocksAreLetters ==
  ASSUME NEW r \in Record
  PROVE  Clocks(r) \subseteq TimeStatus
<1>1. \A k \in DOMAIN r.readings : r.readings[k] \in CheckedReading
  BY DEF Record
<1>2. \A k \in DOMAIN r.readings :
        r.readings[k].time # NONE /\ r.readings[k].time.status # NONE
          => r.readings[k].time.status \in TimeStatus
  BY <1>1 DEF CheckedReading, Time, Option
<1>3. "U" \in TimeStatus
  BY DEF TimeStatus
<1> QED BY <1>2, <1>3 DEF Clocks

\* Scanning a record keeps its sets and the two clocks what they are.
LEMMA ScanIsTyped ==
  ASSUME TypeOK, ScanRecord
  PROVE  TypeOK'
<1>1. i \in DOMAIN records /\ records[i] \in Record
  BY DEF TypeOK, ScanRecord, Pass
<1> DEFINE seen(w) == Clocks(records[i]) \union ({w} \ {NONE})
<1>2. \A w \in Option(TimeStatus) : seen(w) \in SUBSET TimeStatus
  BY <1>1, ClocksAreLetters DEF Option
<1>3. /\ worst' = IF seen(worst) = {} THEN NONE ELSE Weakest(seen(worst))
      /\ best' = IF seen(best) = {} THEN NONE ELSE Strongest(seen(best))
  BY DEF ScanRecord
<1>4. /\ begins' \subseteq begins \union {i}
      /\ ends' \subseteq ends \union {i}
      /\ UNCHANGED ledger
  BY DEF ScanRecord
<1>5. PICK new : Pass("scan", "markers", new)
  BY DEF ScanRecord
<1>6. worst' \in Option(TimeStatus) /\ best' \in Option(TimeStatus)
  <2> HIDE DEF seen
  <2>1. seen(worst) \in SUBSET TimeStatus /\ seen(best) \in SUBSET TimeStatus
    BY <1>2 DEF TypeOK
  <2>2. seen(worst) # {} => Weakest(seen(worst)) \in TimeStatus
    BY <2>1, WeakestOfSome
  <2>3. seen(best) # {} => Strongest(seen(best)) \in TimeStatus
    BY <2>1, WeakestOfSome
  <2> QED BY <1>3, <2>2, <2>3 DEF Option
<1>7. /\ pc' \in Phase /\ records' = records /\ i' \in Nat \ {0} /\ j' = j
      /\ i' \in DOMAIN records /\ kind' = kind
  BY <1>5, PassIsTyped DEF Phase
<1> QED BY <1>1, <1>4, <1>6, <1>7 DEF TypeOK, ledger

\* Handling a register keeps totals, stamps and the index what they are.
LEMMA TotalIsTyped ==
  ASSUME TypeOK, TotalRegister
  PROVE  TypeOK'
<1> DEFINE r == records[i].readings
           o == r[j].obis
           b == Opens(records[i], o, kind)
           e == Closes(records[i], o, kind)
           Opening == b # 0 /\ r[b].value # NONE /\ r[b].unit # NONE /\ totals[o] = NONE
           opened == IF Opening
                       THEN [totals EXCEPT ![o] = [begin |-> r[b].value, end |-> r[b].value,
                                                   delta |-> 0, unit |-> r[b].unit]]
                       ELSE totals
           Closing == e # 0 /\ r[e].value # NONE
           Paired  == Closing /\ opened[o] # NONE
<1>1. i \in DOMAIN records /\ records[i] \in Record /\ j \in DOMAIN r
  <2>1. AtReading
    BY DEF TotalRegister
  <2>2. i \in DOMAIN records
    BY <2>1 DEF TypeOK, AtReading
  <2>3. records[i] \in Record
    BY <2>2 DEF TypeOK
  <2>4. Len(r) \in Nat /\ DOMAIN r = 1 .. Len(r)
    BY <2>3 DEF Record
  <2>5. j \in Nat \ {0} /\ j <= Len(r)
    BY <2>1 DEF TypeOK, AtReading
  <2> QED BY <2>2, <2>3, <2>4, <2>5
<1>2. \A k \in DOMAIN r : r[k] \in CheckedReading
  BY <1>1 DEF Record
<1>3. o \in Registers
  BY <1>1, <1>2 DEF TotalRegister, Heads, CheckedReading, Option
<1>4. (b # 0 => b \in DOMAIN r) /\ (e # 0 => e \in DOMAIN r)
  BY <1>1, <1>3, EndsAreReadings
<1>5. \A k \in DOMAIN r : /\ r[k].value # NONE => r[k].value \in Int
                          /\ r[k].unit # NONE => r[k].unit \in Unit
                          /\ r[k].time # NONE => r[k].time.ms \in Int
  BY <1>2 DEF CheckedReading, Option, Time
<1>6. /\ totals' = IF Paired THEN [opened EXCEPT ![o] = Closed(@, r[e].value)] ELSE opened
      /\ beginTime' = IF Opening /\ beginTime = NONE /\ r[b].time # NONE
                        THEN r[b].time.ms ELSE beginTime
      /\ endTime' = IF Paired /\ r[e].time # NONE THEN r[e].time.ms ELSE endTime
      /\ unpaired' = IF Closing /\ ~Paired THEN unpaired \union {o} ELSE unpaired
      /\ j' = j + 1
      /\ UNCHANGED <<pc, i, records, kind, findings, scanned>>
  BY DEF TotalRegister
<1> HIDE DEF o, b, e, r
<1>7. opened \in [Registers -> Option(Total)]
  BY <1>3, <1>4, <1>5 DEF TypeOK, Total, Option
<1>8. totals' \in [Registers -> Option(Total)]
  <2>1. CASE ~Paired
    BY <1>6, <1>7, <2>1
  <2>2. CASE Paired
    <3>1. opened[o] \in Total /\ r[e].value \in Int
      BY <1>3, <1>4, <1>5, <1>7, <2>2 DEF Option
    <3>2. Closed(opened[o], r[e].value) \in Total
      <4>1. ASSUME NEW t \in Total, NEW v \in Int PROVE Closed(t, v) \in Total
        <5>1. t.begin \in Int /\ v - t.begin \in Int
          BY DEF Total
        <5>2. [t EXCEPT !.end = v] \in Total
          BY DEF Total
        <5>3. ASSUME NEW w \in Total, NEW d \in Int PROVE [w EXCEPT !.delta = d] \in Total
          BY DEF Total
        <5>4. Closed(t, v) = [[t EXCEPT !.end = v] EXCEPT !.delta = v - t.begin]
          BY DEF Closed
        <5> QED BY <5>1, <5>2, <5>3, <5>4
      <4> QED BY <3>1, <4>1
    <3>3. totals' = [opened EXCEPT ![o] = Closed(opened[o], r[e].value)]
      BY <1>6, <2>2
    <3> QED BY <1>3, <1>7, <3>2, <3>3 DEF Option
  <2> QED BY <2>1, <2>2
<1>9. beginTime' \in Option(Int) /\ endTime' \in Option(Int) /\ unpaired' \subseteq Registers
  BY <1>3, <1>4, <1>5, <1>6 DEF TypeOK, Option
<1> HIDE DEF opened, Closing, Opening, Paired
<1> QED BY <1>6, <1>8, <1>9 DEF TypeOK, scanned

\* The types are inductive: they need nothing but themselves.
LEMMA TypeStep ==
  ASSUME Typed, Step
  PROVE  TypeOK'
<1> USE DEF Typed
<1>0. Len(records) \in Nat /\ DOMAIN records = 1 .. Len(records)
  BY DEF TypeOK
<1>1. ASSUME NEW rs \in Seq(Record), Validate(rs) PROVE TypeOK'
  <2>1. rs # <<>> => 1 \in DOMAIN rs
    OBVIOUS
  <2>2. i = 1 /\ begins = {} /\ ends = {}
    BY <1>1 DEF Validate, Untouched
  <2> QED BY <1>1, <2>1, <2>2 DEF TypeOK, Validate, scanned, ledger, Phase
<1>2. CASE CheckReadable \/ CheckPair \/ CheckSource \/ CheckRepeat
  <2>1. \E phase, next \in Phase \ {"idle", "done"} : \E new : Pass(phase, next, new)
    BY <1>2 DEF CheckReadable, CheckPair, CheckSource, CheckRepeat, Phase
  <2>2. UNCHANGED <<scanned, ledger>>
    BY <1>2 DEF CheckReadable, CheckPair, CheckSource, CheckRepeat
  <2>3. /\ pc' \in Phase /\ records' = records /\ i' \in Nat \ {0} /\ j' = j
        /\ i' \in DOMAIN records /\ kind' = kind
    BY <2>1, PassIsTyped
  <2> QED BY <2>2, <2>3 DEF TypeOK, scanned, ledger
<1>3. CASE ScanRecord
  BY <1>3, ScanIsTyped
<1>4. CASE CheckMarkers
  BY <1>4 DEF CheckMarkers, TypeOK, scanned, ledger, Phase
<1>5. CASE TotalRegister
  BY <1>5, TotalIsTyped
<1>6. CASE PassReading
  BY <1>6 DEF PassReading, TypeOK, scanned, ledger, Phase
<1>7. CASE NextRecord
  BY <1>0, <1>7 DEF NextRecord, TypeOK, scanned, ledger, Phase
<1>8. CASE Conclude
  BY <1>8 DEF Conclude, TypeOK, scanned, ledger, Phase
<1>9. CASE UNCHANGED vars
  BY <1>9 DEF vars, TypeOK, scanned, ledger
<1> QED BY <1>1, <1>2, <1>3, <1>4, <1>5, <1>6, <1>7, <1>8, <1>9 DEF Step, Check

\* A call is made once, and only the call ends what Untouched says.
LEMMA UntouchedStep ==
  ASSUME Typed, Step
  PROVE  Untouched'
<1>1. CASE UNCHANGED vars
  BY <1>1 DEF Typed, Untouched, vars, scanned, ledger
<1>2. CASE ~UNCHANGED vars
  <2>1. pc' # "idle"
    <3>1. CASE \E rs \in Seq(Record) : Validate(rs)
      BY <3>1 DEF Validate
    <3>2. CASE \E phase, next \in Phase \ {"idle"} : \E new : Pass(phase, next, new)
      BY <3>2 DEF Pass, Phase
    <3>3. CASE CheckReadable \/ CheckPair \/ CheckSource \/ CheckRepeat \/ ScanRecord
      BY <3>2, <3>3
         DEF CheckReadable, CheckPair, CheckSource, CheckRepeat, ScanRecord, Phase
    <3>4. CASE CheckMarkers \/ NextRecord \/ Conclude
      BY <3>4 DEF CheckMarkers, NextRecord, Conclude
    <3>5. CASE TotalRegister \/ PassReading
      BY <3>5 DEF TotalRegister, PassReading, AtReading
    <3> QED BY <1>2, <3>1, <3>3, <3>4, <3>5 DEF Step, Check
  <2> QED BY <2>1 DEF Untouched
<1> QED BY <1>1, <1>2

\* Every state is typed.
LEMMA TypedAlways == Spec => []Typed
<1>1. Init => Typed
  BY DEF Init, Typed, TypeOK, Untouched, Phase, Option
<1>2. Typed /\ Step => Typed'
  BY TypeStep, UntouchedStep DEF Typed
<1> QED BY <1>1, <1>2, StepsAreSteps, PTL DEF Spec

\* The types hold: every register total is a record of numbers, every clock a
\* letter, and no loop of validate_refs runs past the records it was given.
THEOREM SessionTypeCorrect == Spec => []TypeOK
<1> QED BY TypedAlways, PTL DEF Typed

-----------------------------------------------------------------------------
(***************************************************************************)
(* How far the loops are: the records each has passed.                     *)
(***************************************************************************)
Behind(k, phase, later) == pc \in later \/ (pc = phase /\ k < i)

AfterScan    == {"markers", "totals", "conclude", "done"}
AfterSource  == {"repeats", "scan"} \union AfterScan
AfterPairs   == {"source"} \union AfterSource
AfterReading == {"pairs"} \union AfterPairs

IsRead(k)     == Behind(k, "readable", AfterReading)
IsCompared(k) == Behind(k, "pairs", AfterPairs)
IsSourced(k)  == Behind(k, "source", AfterSource)
IsScanned(k)  == Behind(k, "scan", AfterScan)

\* One pass takes a loop past the record it has come to, and past no other.
LEMMA PassAdvances ==
  ASSUME Typed, NEW phase, NEW next, NEW new, Pass(phase, next, new),
         NEW k \in DOMAIN records
  PROVE  /\ pc = phase /\ records' = records /\ kind' = kind /\ findings' = findings \union new
         /\ pc' \in {phase, next}
         /\ pc' = phase => (k < i' => k < i \/ k = i)
         /\ pc' = next /\ next # phase => ~(k < i') /\ (k < i \/ k = i)
<1>1. Len(records) \in Nat /\ DOMAIN records = 1 .. Len(records) /\ i \in Nat
  BY DEF Typed, TypeOK
<1>2. k \in 1 .. Len(records)
  BY <1>1
<1> QED BY <1>1, <1>2 DEF Pass

\* A record one of the loops has passed after a step was passed before, or is
\* the one that loop has come to.  Nothing found is forgotten.
LEMMA LoopsAdvance ==
  ASSUME Typed, Check, NEW k \in DOMAIN records
  PROVE  /\ records' = records /\ kind' = kind /\ findings \subseteq findings'
         /\ IsRead(k)' => IsRead(k) \/ (CheckReadable /\ k = i)
         /\ IsCompared(k)' => IsCompared(k) \/ (CheckPair /\ k = i)
         /\ IsSourced(k)' => IsSourced(k) \/ (CheckSource /\ k = i)
         /\ IsScanned(k)' => IsScanned(k) \/ (ScanRecord /\ k = i)
<1> USE DEF IsRead, IsCompared, IsSourced, IsScanned, Behind,
            AfterReading, AfterPairs, AfterSource, AfterScan
<1>0. i \in Int /\ i' \in Int /\ k \in Int
  <2>1. Typed'
    BY TypeStep, UntouchedStep DEF Typed, Step
  <2> QED BY <2>1 DEF Typed, TypeOK
<1>1. CASE CheckReadable
  <2>1. PICK new : Pass("readable", "pairs", new)
    BY <1>1 DEF CheckReadable
  <2>2. /\ pc = "readable" /\ records' = records /\ kind' = kind
        /\ findings \subseteq findings' /\ pc' \in {"readable", "pairs"}
        /\ pc' = "readable" => (k < i' => k < i \/ k = i)
        /\ pc' = "pairs" => ~(k < i') /\ (k < i \/ k = i)
    BY <2>1, PassAdvances
  <2> QED BY <1>0, <1>1, <2>2
<1>2. CASE CheckPair
  <2>1. PICK new : Pass("pairs", "source", new)
    BY <1>2 DEF CheckPair
  <2>2. /\ pc = "pairs" /\ records' = records /\ kind' = kind
        /\ findings \subseteq findings' /\ pc' \in {"pairs", "source"}
        /\ pc' = "pairs" => (k < i' => k < i \/ k = i)
        /\ pc' = "source" => ~(k < i') /\ (k < i \/ k = i)
    BY <2>1, PassAdvances
  <2> QED BY <1>0, <1>2, <2>2
<1>3. CASE CheckSource
  <2>1. PICK new : Pass("source", "repeats", new)
    BY <1>3 DEF CheckSource
  <2>2. /\ pc = "source" /\ records' = records /\ kind' = kind
        /\ findings \subseteq findings' /\ pc' \in {"source", "repeats"}
        /\ pc' = "source" => (k < i' => k < i \/ k = i)
        /\ pc' = "repeats" => ~(k < i') /\ (k < i \/ k = i)
    BY <2>1, PassAdvances
  <2> QED BY <1>0, <1>3, <2>2
<1>4. CASE CheckRepeat
  <2>1. PICK new : Pass("repeats", "scan", new)
    BY <1>4 DEF CheckRepeat
  <2>2. /\ pc = "repeats" /\ records' = records /\ kind' = kind
        /\ findings \subseteq findings' /\ pc' \in {"repeats", "scan"}
        /\ pc' = "repeats" => (k < i' => k < i \/ k = i)
        /\ pc' = "scan" => ~(k < i') /\ (k < i \/ k = i)
    BY <2>1, PassAdvances
  <2> QED BY <1>0, <1>4, <2>2
<1>5. CASE ScanRecord
  <2>1. PICK new : Pass("scan", "markers", new)
    BY <1>5 DEF ScanRecord
  <2>2. /\ pc = "scan" /\ records' = records /\ kind' = kind
        /\ findings \subseteq findings' /\ pc' \in {"scan", "markers"}
        /\ pc' = "scan" => (k < i' => k < i \/ k = i)
        /\ pc' = "markers" => ~(k < i') /\ (k < i \/ k = i)
    BY <2>1, PassAdvances
  <2> QED BY <1>0, <1>5, <2>2
<1>6. CASE CheckMarkers
  BY <1>6 DEF CheckMarkers
<1>7. CASE TotalRegister \/ PassReading
  BY <1>7 DEF TotalRegister, PassReading, AtReading
<1>8. CASE NextRecord
  BY <1>8 DEF NextRecord
<1>9. CASE Conclude
  BY <1>9 DEF Conclude
<1> QED BY <1>1, <1>2, <1>3, <1>4, <1>5, <1>6, <1>7, <1>8, <1>9 DEF Check

\* The call finds no record passed, or a sequence that is empty.
LEMMA CallStartsTheLoops ==
  ASSUME Typed, NEW rs \in Seq(Record), Validate(rs)
  PROVE  /\ records' = rs
         /\ findings' # {} \/ (pc' = "readable" /\ i' = 1 /\ j' = 1)
         /\ findings' = {} => \A k \in DOMAIN rs : /\ ~IsRead(k)' /\ ~IsCompared(k)'
                                                   /\ ~IsSourced(k)' /\ ~IsScanned(k)'
<1>2. /\ records' = rs
      /\ findings' # {} \/ (pc' = "readable" /\ i' = 1 /\ j' = 1)
  BY DEF Validate, Typed, Untouched
<1>3. \A k \in DOMAIN rs : ~(k < 1)
  OBVIOUS
<1> QED BY <1>2, <1>3
        DEF IsRead, IsCompared, IsSourced, IsScanned, Behind,
            AfterReading, AfterPairs, AfterSource, AfterScan

-----------------------------------------------------------------------------
(***************************************************************************)
(* One run of one source.                                                  *)
(***************************************************************************)

\* Every pair of records the loop over pairs is behind, however far apart, is
\* as far apart in its counters: what the next pair is added to.
OneRunSoFar ==
  findings = {} =>
    \A k \in DOMAIN records :
      /\ IsRead(k) => records[k].pg # NONE
      /\ IsSourced(k) => Source(records[k]) = Source(records[1])
      /\ \A m \in DOMAIN records :
           IsCompared(k) /\ IsCompared(m) /\ k < m =>
             /\ records[k].pg.context = records[m].pg.context
             /\ m - k < CounterSize
                  => records[m].pg.number = Shift(records[k].pg.number, m - k)

\* Counters wrap as Shift says.
LEMMA FollowsIsShift ==
  ASSUME NEW a \in Pagination, NEW b \in Pagination, IsFollowedBy(a, b)
  PROVE  b.context = a.context /\ b.number = Shift(a.number, 1)
<1>1. a.number \in 0 .. CounterSize - 1 /\ CounterSize \in Nat /\ CounterSize > 1
  BY CounterAssumption DEF Pagination
<1>2. \A n \in 0 .. CounterSize - 1 :
        (n + 1) % CounterSize = IF n + 1 < CounterSize THEN n + 1 ELSE n + 1 - CounterSize
  BY <1>1
<1> QED BY <1>1, <1>2 DEF IsFollowedBy, Shift

\* One record further is one more on the counter, across the wrap.
LEMMA ShiftsAdd ==
  ASSUME NEW n \in 0 .. CounterSize - 1, NEW d \in Nat, d + 1 < CounterSize
  PROVE  Shift(Shift(n, d), 1) = Shift(n, d + 1)
  BY CounterAssumption DEF Shift

\* A pair that passes joins the last record compared to every one before it,
\* not to its neighbour only.
LEMMA PairsAddUp ==
  ASSUME Typed, OneRunSoFar, CheckPair, findings' = {}, findings = {},
         NEW k \in DOMAIN records, IsCompared(k), k < i
  PROVE  /\ records[k].pg.context = records[i].pg.context
         /\ i - k < CounterSize
              => records[i].pg.number = Shift(records[k].pg.number, i - k)
<1>1. pc = "pairs"
  BY DEF CheckPair, Pass
<1>2. /\ Len(records) \in Nat /\ DOMAIN records = 1 .. Len(records) /\ i \in DOMAIN records
      /\ \A m \in DOMAIN records : records[m] \in Record
  BY <1>1 DEF Typed, TypeOK
<1>3. i - 1 \in DOMAIN records /\ i > 1 /\ k <= i - 1 /\ k \in Nat /\ i \in Nat
  BY <1>2
<1>4. records[i - 1].pg # NONE /\ records[i].pg # NONE /\ records[k].pg # NONE
  BY <1>1, <1>2, <1>3 DEF OneRunSoFar, IsRead, Behind, AfterReading
<1>5. \A m \in DOMAIN records : records[m].pg # NONE => records[m].pg \in Pagination
  BY <1>2 DEF Record, Option
<1>6. IsFollowedBy(records[i - 1].pg, records[i].pg)
  BY <1>3, <1>4 DEF CheckPair, Pass, Found
<1>7. /\ records[i].pg.context = records[i - 1].pg.context
      /\ records[i].pg.number = Shift(records[i - 1].pg.number, 1)
  BY <1>2, <1>3, <1>4, <1>5, <1>6, FollowsIsShift
<1>8. CASE k = i - 1
  BY <1>3, <1>7, <1>8
<1>9. CASE k < i - 1
  <2>1. IsCompared(i - 1)
    BY <1>1, <1>3 DEF IsCompared, Behind
  <2>2. /\ records[k].pg.context = records[i - 1].pg.context
        /\ i - 1 - k < CounterSize
             => records[i - 1].pg.number = Shift(records[k].pg.number, i - 1 - k)
    BY <1>3, <1>9, <2>1 DEF OneRunSoFar
  <2>3. ASSUME i - k < CounterSize
        PROVE  records[i].pg.number = Shift(records[k].pg.number, i - k)
    <3>1. records[k].pg.number \in 0 .. CounterSize - 1
      BY <1>4, <1>5 DEF Pagination
    <3>2. i - 1 - k \in Nat /\ (i - 1 - k) + 1 = i - k /\ i - 1 - k < CounterSize
      BY <1>3, <1>9, <2>3, CounterAssumption
    <3> QED BY <1>7, <2>2, <2>3, <3>1, <3>2, ShiftsAdd
  <2> QED BY <1>7, <2>2, <2>3
<1> QED BY <1>3, <1>8, <1>9

\* The run is kept by every step.
LEMMA OneRunStep ==
  ASSUME Typed, OneRunSoFar, Step
  PROVE  OneRunSoFar'
<1>1. CASE UNCHANGED vars
  BY <1>1 DEF OneRunSoFar, vars, IsRead, IsCompared, IsSourced, Behind,
              AfterReading, AfterPairs, AfterSource, AfterScan
<1>2. ASSUME NEW rs \in Seq(Record), Validate(rs) PROVE OneRunSoFar'
  BY <1>2, CallStartsTheLoops DEF OneRunSoFar
<1>3. CASE Check
  <2> SUFFICES ASSUME findings' = {}, NEW k \in DOMAIN records
      PROVE  /\ IsRead(k)' => records[k].pg # NONE
             /\ IsSourced(k)' => Source(records[k]) = Source(records[1])
             /\ \A m \in DOMAIN records :
                  IsCompared(k)' /\ IsCompared(m)' /\ k < m =>
                    /\ records[k].pg.context = records[m].pg.context
                    /\ m - k < CounterSize
                         => records[m].pg.number = Shift(records[k].pg.number, m - k)
    <3>1. records' = records
      BY <1>3, LoopsAdvance DEF Check, CheckReadable, CheckPair, CheckSource, CheckRepeat,
         ScanRecord, CheckMarkers, TotalRegister, PassReading, NextRecord, Conclude, Pass
    <3> QED BY <3>1 DEF OneRunSoFar
  <2>1. findings = {}
    BY <1>3, LoopsAdvance
  <2>2. IsRead(k)' => records[k].pg # NONE
    <3>1. CASE CheckReadable /\ k = i
      BY <3>1 DEF CheckReadable, Pass, Found
    <3>2. CASE IsRead(k)
      BY <2>1, <3>2 DEF OneRunSoFar
    <3> QED BY <1>3, <3>1, <3>2, LoopsAdvance
  <2>3. IsSourced(k)' => Source(records[k]) = Source(records[1])
    <3>1. CASE CheckSource /\ k = i
      BY <3>1 DEF CheckSource, Pass, Found
    <3>2. CASE IsSourced(k)
      BY <2>1, <3>2 DEF OneRunSoFar
    <3> QED BY <1>3, <3>1, <3>2, LoopsAdvance
  <2>4. ASSUME NEW m \in DOMAIN records, IsCompared(k)', IsCompared(m)', k < m
        PROVE  /\ records[k].pg.context = records[m].pg.context
               /\ m - k < CounterSize
                    => records[m].pg.number = Shift(records[k].pg.number, m - k)
    <3>1. /\ IsCompared(k) \/ (CheckPair /\ k = i)
          /\ IsCompared(m) \/ (CheckPair /\ m = i)
      BY <1>3, <2>4, LoopsAdvance
    <3>2. k \in Nat /\ m \in Nat /\ i \in Nat
      BY DEF Typed, TypeOK
    <3>3. CheckPair /\ IsCompared(m) => m < i
      BY DEF CheckPair, Pass, IsCompared, Behind, AfterPairs, AfterSource, AfterScan
    <3>4. CheckPair /\ k = i => FALSE
      BY <2>4, <3>1, <3>2, <3>3
    <3>5. CASE IsCompared(k) /\ IsCompared(m)
      BY <2>1, <2>4, <3>5 DEF OneRunSoFar
    <3>6. CASE IsCompared(k) /\ CheckPair /\ m = i
      BY <2>1, <2>4, <3>6, PairsAddUp
    <3> QED BY <3>1, <3>4, <3>5, <3>6
  <2> QED BY <2>2, <2>3, <2>4
<1> QED BY <1>1, <1>2, <1>3 DEF Step

\* With every loop behind every record, the run so far is the whole run.
LEMMA CleanRuns ==
  ASSUME Typed, OneRunSoFar
  PROVE  CleanIsOneRun
<1> SUFFICES ASSUME Clean, NEW k \in DOMAIN records, NEW m \in DOMAIN records
    PROVE  /\ records[k].pg # NONE /\ records[m].pg # NONE
           /\ records[k].pg.context = records[m].pg.context
           /\ Source(records[k]) = Source(records[m])
           /\ k < m /\ m - k < CounterSize
                => records[m].pg.number = Shift(records[k].pg.number, m - k)
  BY DEF CleanIsOneRun
<1>1. \A n \in DOMAIN records : IsRead(n) /\ IsSourced(n) /\ IsCompared(n)
  BY DEF Clean, Answered, IsRead, IsSourced, IsCompared, Behind,
         AfterReading, AfterPairs, AfterSource, AfterScan
<1>2. k \in Nat /\ m \in Nat
  BY DEF Typed, TypeOK
<1>3. k < m \/ m < k \/ k = m
  BY <1>2
<1> QED BY <1>1, <1>3 DEF OneRunSoFar, Clean

\* A clean report means that nothing was lost, repeated or reordered: any two
\* records are of one context and one source and as far apart in their counters
\* as in the sequence.
THEOREM CleanIsAlwaysOneRun == Spec => []CleanIsOneRun
<1>1. Init => OneRunSoFar
  BY DEF Init, OneRunSoFar
<1>2. Typed /\ OneRunSoFar => CleanIsOneRun
  BY CleanRuns
<1> QED BY <1>1, <1>2, TypedAlways, StepsAreSteps, OneRunStep, PTL DEF Spec

-----------------------------------------------------------------------------
(***************************************************************************)
(* Nothing is forgiven.                                                    *)
(***************************************************************************)
Concluding == {"totals", "conclude", "done"}

Letter(time) == IF time.status = NONE THEN "U" ELSE time.status

\* A reading that is not held against the record, and whose clock worst bounds.
Passes(x, clock) ==
  /\ x.state # NONE => IsOk(x.state)
  /\ ~AnyFlag(x.ef)
  /\ x.tx # NONE => ~IsFault(x.tx)
  /\ x.time # NONE => clock \in TimeStatus /\ Rank(clock) <= Rank(Letter(x.time))

\* As long as nothing was found, every record that was scanned passes, and the
\* weakest clock so far is at most as strong as any of theirs.
UnforgivingSoFar ==
  findings = {} =>
    /\ \A k \in DOMAIN records : IsScanned(k) =>
         /\ records[k].il # NONE => ~IsLevelError(records[k].il)
         /\ \A m \in DOMAIN records[k].readings : Passes(records[k].readings[m], worst)
    /\ pc \in Concluding => worst # NONE /\ DurationIsBillable(worst)

\* A stamp has a letter, or none.
LEMMA StampsAreTyped ==
  ASSUME Typed, NEW k \in DOMAIN records, NEW m \in DOMAIN records[k].readings
  PROVE  records[k].readings[m].time # NONE
           => records[k].readings[m].time.status \in TimeStatus \union {NONE}
<1>1. records[k] \in Record
  BY DEF Typed, TypeOK
<1>2. records[k].readings[m] \in CheckedReading
  BY <1>1 DEF Record
<1> QED BY <1>2 DEF CheckedReading, Option, Time

\* The weakest clock only gets weaker, and bounds those of the record scanned.
LEMMA WeakestBoundsTheScan ==
  ASSUME Typed, ScanRecord
  PROVE  /\ worst # NONE => worst' \in TimeStatus /\ Rank(worst') <= Rank(worst)
         /\ \A m \in DOMAIN records[i].readings :
              LET x == records[i].readings[m]
              IN x.time # NONE => worst' \in TimeStatus /\ Rank(worst') <= Rank(Letter(x.time))
<1>1. i \in DOMAIN records /\ records[i] \in Record
  BY DEF Typed, TypeOK, ScanRecord, Pass
<1> DEFINE seen == Clocks(records[i]) \union ({worst} \ {NONE})
<1>2. seen \in SUBSET TimeStatus
  BY <1>1, ClocksAreLetters DEF Typed, TypeOK, Option
<1>3. worst' = IF seen = {} THEN NONE ELSE Weakest(seen)
  BY DEF ScanRecord
<1>4. \A t \in seen : worst' \in TimeStatus /\ Rank(worst') <= Rank(t)
  <2> HIDE DEF seen
  <2> QED BY <1>2, <1>3, WeakestOfSome
<1>5. worst # NONE => worst \in seen
  OBVIOUS
<1>6. ASSUME NEW m \in DOMAIN records[i].readings, records[i].readings[m].time # NONE
      PROVE  Letter(records[i].readings[m].time) \in seen
  BY <1>6 DEF Clocks, Letter
<1> HIDE DEF seen
<1> QED BY <1>4, <1>5, <1>6

\* A record whose scan found nothing passes, by the clock it leaves.
LEMMA ScannedRecordPasses ==
  ASSUME Typed, ScanRecord, findings' = {}
  PROVE  /\ records[i].il # NONE => ~IsLevelError(records[i].il)
         /\ \A m \in DOMAIN records[i].readings : Passes(records[i].readings[m], worst')
<1>1. /\ ~(records[i].il # NONE /\ IsLevelError(records[i].il))
      /\ ~SomeReading(records[i], LAMBDA x : x.state # NONE /\ ~IsOk(x.state))
      /\ ~SomeReading(records[i], LAMBDA x : AnyFlag(x.ef))
      /\ ~SomeReading(records[i], LAMBDA x : x.tx # NONE /\ IsFault(x.tx))
  BY DEF ScanRecord, Pass, Found
<1>2. \A m \in DOMAIN records[i].readings :
        /\ ~(records[i].readings[m].state # NONE /\ ~IsOk(records[i].readings[m].state))
        /\ ~AnyFlag(records[i].readings[m].ef)
        /\ ~(records[i].readings[m].tx # NONE /\ IsFault(records[i].readings[m].tx))
  BY <1>1 DEF SomeReading
<1> QED BY <1>1, <1>2, WeakestBoundsTheScan DEF Passes

\* No step forgives what another found.
LEMMA UnforgivingStep ==
  ASSUME Typed, UnforgivingSoFar, Step
  PROVE  UnforgivingSoFar'
<1>1. CASE UNCHANGED vars
  BY <1>1 DEF UnforgivingSoFar, vars, scanned, IsScanned, Behind, AfterScan, Passes
<1>2. ASSUME NEW rs \in Seq(Record), Validate(rs) PROVE UnforgivingSoFar'
  BY <1>2, CallStartsTheLoops DEF UnforgivingSoFar, Concluding
<1>3. CASE ScanRecord
  <2>1. records' = records /\ findings \subseteq findings' /\ pc' \notin Concluding
    BY <1>3 DEF ScanRecord, Pass, Concluding
  <2> SUFFICES ASSUME findings' = {}, NEW k \in DOMAIN records, IsScanned(k)'
      PROVE  /\ records[k].il # NONE => ~IsLevelError(records[k].il)
             /\ \A m \in DOMAIN records[k].readings : Passes(records[k].readings[m], worst')
    BY <2>1 DEF UnforgivingSoFar, Passes
  <2>2. CASE k = i
    BY <1>3, <2>2, ScannedRecordPasses
  <2>3. CASE IsScanned(k)
    <3>1. findings = {}
      BY <2>1
    <3>2. ASSUME NEW m \in DOMAIN records[k].readings
          PROVE  Passes(records[k].readings[m], worst')
      <4>1. Passes(records[k].readings[m], worst)
        BY <2>3, <3>1 DEF UnforgivingSoFar
      <4> DEFINE time == records[k].readings[m].time
      <4>2. ASSUME time # NONE
            PROVE  worst' \in TimeStatus /\ Rank(worst') <= Rank(Letter(time))
        <5>1. worst \in TimeStatus /\ Rank(worst) <= Rank(Letter(time))
          BY <4>1, <4>2 DEF Passes
        <5>2. worst' \in TimeStatus /\ Rank(worst') <= Rank(worst)
          BY <1>3, <5>1, WeakestBoundsTheScan, AbsenceAssumption
        <5>3. \A s \in TimeStatus : Rank(s) \in Int
          BY Ranks DEF TimeStatus
        <5>4. Letter(time) \in TimeStatus
          BY <4>2, StampsAreTyped DEF Letter, TimeStatus
        <5> HIDE DEF time
        <5> QED BY <5>1, <5>2, <5>3, <5>4
      <4> QED BY <4>1, <4>2 DEF Passes
    <3> QED BY <2>3, <3>1, <3>2 DEF UnforgivingSoFar
  <2> QED BY <1>3, <2>2, <2>3, LoopsAdvance DEF Check
<1>4. CASE Check /\ ~ScanRecord
  <2>1. worst' = worst
    BY <1>4 DEF Check, CheckReadable, CheckPair, CheckSource, CheckRepeat, CheckMarkers,
       TotalRegister, PassReading, NextRecord, Conclude, scanned
  <2>2. records' = records /\ findings \subseteq findings'
    BY <1>4 DEF Check, CheckReadable, CheckPair, CheckSource, CheckRepeat, CheckMarkers,
       TotalRegister, PassReading, NextRecord, Conclude, scanned, Pass
  <2>3. \A k \in DOMAIN records : IsScanned(k)' => IsScanned(k)
    BY <1>4, LoopsAdvance
  <2>4. pc' \in Concluding => pc \in Concluding \/ CheckMarkers
    BY <1>4 DEF Check, CheckReadable, CheckPair, CheckSource, CheckRepeat,
       TotalRegister, PassReading, AtReading, NextRecord, Conclude, Pass, Concluding
  <2>5. CheckMarkers /\ findings' = {} => worst # NONE /\ DurationIsBillable(worst)
    BY DEF CheckMarkers
  <2> QED BY <2>1, <2>2, <2>3, <2>4, <2>5 DEF UnforgivingSoFar, Passes
<1> QED BY <1>1, <1>2, <1>3, <1>4 DEF Step

\* A clean report means that no reading of any record was faulty, whatever came
\* after it: every state good, no flag, no marker of a failure, every stamp of a
\* clock a duration may be billed by, and no user assignment that failed.
THEOREM CleanNeverForgives == Spec => []CleanForgivesNothing
<1>1. Init => UnforgivingSoFar
  BY DEF Init, UnforgivingSoFar, Concluding
<1>2. Typed /\ UnforgivingSoFar => CleanForgivesNothing
  <2> SUFFICES ASSUME Typed, UnforgivingSoFar, Clean, NEW k \in DOMAIN records
      PROVE  /\ records[k].il # NONE => ~IsLevelError(records[k].il)
             /\ \A m \in DOMAIN records[k].readings :
                  LET x == records[k].readings[m]
                  IN /\ x.state # NONE => IsOk(x.state)
                     /\ ~AnyFlag(x.ef)
                     /\ x.tx # NONE => ~IsFault(x.tx)
                     /\ x.time # NONE => /\ x.time.status # NONE
                                         /\ DurationIsBillable(x.time.status)
    BY DEF CleanForgivesNothing
  <2>1. IsScanned(k) /\ pc \in Concluding /\ findings = {}
    BY DEF Clean, Answered, IsScanned, Behind, AfterScan, Concluding
  <2>2. /\ records[k].il # NONE => ~IsLevelError(records[k].il)
        /\ \A m \in DOMAIN records[k].readings : Passes(records[k].readings[m], worst)
        /\ worst # NONE /\ DurationIsBillable(worst)
    BY <2>1 DEF UnforgivingSoFar
  <2>3. ASSUME NEW m \in DOMAIN records[k].readings, records[k].readings[m].time # NONE
        PROVE  /\ records[k].readings[m].time.status # NONE
               /\ DurationIsBillable(records[k].readings[m].time.status)
    <3> DEFINE time == records[k].readings[m].time
    <3>1. Rank(worst) <= Rank(Letter(time)) /\ worst \in {"R", "S"}
      BY <2>2, <2>3 DEF Passes, DurationIsBillable
    <3>2. time.status \in TimeStatus \union {NONE}
      BY <2>3, StampsAreTyped
    <3>3. Letter(time) # "U" /\ Letter(time) # "I"
      <4> HIDE DEF time
      <4> QED BY <3>1, Ranks
    <3>4. time.status # NONE /\ time.status \in {"R", "S"}
      <4> HIDE DEF time
      <4> QED BY <3>2, <3>3 DEF Letter, TimeStatus
    <3> QED BY <3>4 DEF DurationIsBillable
  <2> QED BY <2>2, <2>3 DEF Passes
<1> QED BY <1>1, <1>2, TypedAlways, StepsAreSteps, UnforgivingStep, PTL DEF Spec

-----------------------------------------------------------------------------
(***************************************************************************)
(* Delimited.                                                              *)
(***************************************************************************)
BeginsIn(k) == \E m \in DOMAIN records[k].readings :
                 records[k].readings[m].tx # NONE /\ IsBegin(records[k].readings[m].tx)
EndsIn(k)   == \E m \in DOMAIN records[k].readings :
                 records[k].readings[m].tx # NONE /\ IsEnd(records[k].readings[m].tx)

\* begins and ends are the records scanned that hold a marker; the sequence is
\* fiscal exactly if no record belongs to a transaction; and once the markers
\* were checked a transaction has its begin in the first record and its end in
\* the last.
DelimitedSoFar ==
  findings = {} =>
    /\ \A k \in DOMAIN records : /\ k \in begins => BeginsIn(k)
                                 /\ k \in ends => EndsIn(k)
                                 /\ IsScanned(k) /\ BeginsIn(k) => k \in begins
                                 /\ IsScanned(k) /\ EndsIn(k) => k \in ends
                                 /\ kind = "Fiscal" => ~IsTransaction(records[k])
    /\ pc \in Concluding /\ kind = "Transaction" => begins = {1} /\ ends = {Len(records)}

\* No finding about markers means one record that holds them, in its place.
LEMMA MarkersInPlace ==
  ASSUME NEW marked, NEW place, NEW none, NEW many,
         MarkerFindings(marked, place, none, many) = {}
  PROVE  marked = {place}
<1>1. marked # {}
  BY DEF MarkerFindings
<1>2. \E only \in marked : marked = {only}
  BY <1>1 DEF MarkerFindings
<1>3. PICK only \in marked : marked = {only}
  BY <1>2
<1>4. {<<"MarkerOutOfPlace", k>> : k \in marked \ {place}} = {}
  BY <1>1, <1>2 DEF MarkerFindings
<1> QED BY <1>3, <1>4

\* The markers are kept by every step.
LEMMA DelimitedStep ==
  ASSUME Typed, DelimitedSoFar, Step
  PROVE  DelimitedSoFar'
<1>1. CASE UNCHANGED vars
  BY <1>1 DEF DelimitedSoFar, vars, scanned, IsScanned, Behind, AfterScan, BeginsIn, EndsIn
<1>2. ASSUME NEW rs \in Seq(Record), Validate(rs) PROVE DelimitedSoFar'
  <2>1. begins' = {} /\ ends' = {} /\ records' = rs
    BY <1>2 DEF Validate, Typed, Untouched, scanned
  <2>2. findings' = {} => /\ pc' \notin Concluding
                          /\ \A k \in DOMAIN rs : ~IsScanned(k)'
    BY <1>2, CallStartsTheLoops DEF Concluding
  <2>3. findings' = {} /\ kind' = "Fiscal" => \A k \in DOMAIN rs : ~IsTransaction(rs[k])
    BY <1>2 DEF Validate
  <2> QED BY <2>1, <2>2, <2>3 DEF DelimitedSoFar
<1>3. CASE ScanRecord
  <2>1. /\ records' = records /\ kind' = kind /\ findings \subseteq findings'
        /\ pc' \notin Concluding
    BY <1>3 DEF ScanRecord, Pass, Concluding
  <2>2. /\ begins' = begins \union {k \in {i} : BeginsIn(k)}
        /\ ends' = ends \union {k \in {i} : EndsIn(k)}
    BY <1>3 DEF ScanRecord, SomeReading, BeginsIn, EndsIn
  <2>3. \A k \in DOMAIN records : IsScanned(k)' => IsScanned(k) \/ k = i
    BY <1>3, LoopsAdvance DEF Check
  <2>4. \A k : (BeginsIn(k)' <=> BeginsIn(k)) /\ (EndsIn(k)' <=> EndsIn(k))
    BY <2>1 DEF BeginsIn, EndsIn
  <2> QED BY <2>1, <2>2, <2>3, <2>4 DEF DelimitedSoFar
<1>4. CASE Check /\ ~ScanRecord
  <2>1. begins' = begins /\ ends' = ends
    BY <1>4 DEF Check, CheckReadable, CheckPair, CheckSource, CheckRepeat, CheckMarkers,
       TotalRegister, PassReading, NextRecord, Conclude, scanned
  <2>2. records' = records /\ kind' = kind /\ findings \subseteq findings'
    BY <1>4 DEF Check, CheckReadable, CheckPair, CheckSource, CheckRepeat, CheckMarkers,
       TotalRegister, PassReading, NextRecord, Conclude, scanned, Pass
  <2>3. \A k \in DOMAIN records : IsScanned(k)' => IsScanned(k)
    BY <1>4, LoopsAdvance
  <2>4. pc' \in Concluding => pc \in Concluding \/ CheckMarkers
    BY <1>4 DEF Check, CheckReadable, CheckPair, CheckSource, CheckRepeat,
       TotalRegister, PassReading, AtReading, NextRecord, Conclude, Pass, Concluding
  <2>5. ASSUME CheckMarkers, findings' = {}, kind = "Transaction"
        PROVE  begins = {1} /\ ends = {Len(records)}
    <3>1. /\ MarkerFindings(begins, 1, "NoBegin", "MultipleBegins") = {}
          /\ MarkerFindings(ends, Len(records), "NoEnd", "MultipleEnds") = {}
      BY <2>5 DEF CheckMarkers
    <3> QED BY <3>1, MarkersInPlace
  <2>6. \A k : (BeginsIn(k)' <=> BeginsIn(k)) /\ (EndsIn(k)' <=> EndsIn(k))
    BY <2>2 DEF BeginsIn, EndsIn
  <2> QED BY <2>1, <2>2, <2>3, <2>4, <2>5, <2>6 DEF DelimitedSoFar
<1> QED BY <1>1, <1>2, <1>3, <1>4 DEF Step

\* With the scan behind every record, its markers are where they belong.
LEMMA CleanDelimits ==
  ASSUME Typed, DelimitedSoFar, Clean, NEW k \in DOMAIN records
  PROVE  IF kind = "Transaction"
           THEN (BeginsIn(k) <=> k = 1) /\ (EndsIn(k) <=> k = Len(records))
           ELSE ~IsTransaction(records[k])
<1>1. IsScanned(k) /\ pc \in Concluding /\ findings = {}
  BY DEF Clean, Answered, IsScanned, Behind, AfterScan, Concluding
<1> QED BY <1>1 DEF DelimitedSoFar, Typed, TypeOK

\* A clean transaction begins in its first record and nowhere else, and ends in
\* its last and nowhere else; a clean fiscal sequence holds no marker.
THEOREM CleanIsAlwaysDelimited == Spec => []CleanIsDelimited
<1>1. Init => DelimitedSoFar
  BY DEF Init, DelimitedSoFar, Concluding
<1>2. Typed /\ DelimitedSoFar => CleanIsDelimited
  <2> SUFFICES ASSUME Typed, DelimitedSoFar, Clean, NEW k \in DOMAIN records
      PROVE  IF kind = "Transaction"
               THEN (BeginsIn(k) <=> k = 1) /\ (EndsIn(k) <=> k = Len(records))
               ELSE ~SomeReading(records[k], LAMBDA x : x.tx # NONE)
    BY DEF CleanIsDelimited, SomeReading, BeginsIn, EndsIn
  <2>1. ~IsTransaction(records[k]) => ~SomeReading(records[k], LAMBDA x : x.tx # NONE)
    BY DEF IsTransaction, SomeReading
  <2> QED BY <2>1, CleanDelimits
<1> QED BY <1>1, <1>2, TypedAlways, StepsAreSteps, DelimitedStep, PTL DEF Spec

-----------------------------------------------------------------------------
(***************************************************************************)
(* The totals.                                                             *)
(***************************************************************************)

\* t begins with a value marked as the begin of o in the first record, and ends
\* where it began or with a value marked as the end of o in the last.
Spans(t, o) ==
  /\ \E m \in Marked(records[1], o, IsBegin) : records[1].readings[m].value = t.begin
  /\ \/ \E m \in Marked(records[Len(records)], o, IsEnd) :
           records[Len(records)].readings[m].value = t.end
     \/ t.end = t.begin
  /\ t.delta = t.end - t.begin

SpansSoFar ==
  /\ pc \notin Concluding => \A o \in Registers : totals[o] = NONE
  /\ findings = {} /\ kind = "Transaction" =>
       \A o \in Registers : totals[o] # NONE =>
         Spans(totals[o], o) /\ (pc = "done" => totals[o].delta >= 0)

\* The reading that opens or closes a register in a transaction is marked so.
LEMMA EndsAreMarked ==
  ASSUME NEW r \in Record, NEW o \in Registers
  PROVE  /\ Opens(r, o, "Transaction") # 0
              => Opens(r, o, "Transaction") \in Marked(r, o, IsBegin)
         /\ Closes(r, o, "Transaction") # 0
              => Closes(r, o, "Transaction") \in Marked(r, o, IsEnd)
<1>1. Len(r.readings) \in Nat /\ DOMAIN r.readings = 1 .. Len(r.readings)
  BY DEF Record
<1>2. Series(r, o) \in SUBSET (1 .. Len(r.readings))
  BY <1>1 DEF Series
<1>3. Marked(r, o, IsBegin) \in SUBSET (1 .. Len(r.readings))
  BY <1>2 DEF Marked
<1>4. Marked(r, o, IsEnd) \in SUBSET (1 .. Len(r.readings))
  BY <1>2 DEF Marked
<1> QED BY <1>1, <1>3, <1>4, FirstAndLastAreOf DEF Opens, Closes

\* A total that a register is given or that is closed spans the transaction.
LEMMA TotalSpans ==
  ASSUME Typed, DelimitedSoFar, SpansSoFar, TotalRegister,
         findings = {}, kind = "Transaction",
         NEW p \in Registers, totals'[p] # NONE
  PROVE  Spans(totals'[p], p)
<1> DEFINE r == records[i].readings
           o == r[j].obis
           b == Opens(records[i], o, kind)
           e == Closes(records[i], o, kind)
           Opening == b # 0 /\ r[b].value # NONE /\ r[b].unit # NONE /\ totals[o] = NONE
           fresh == [begin |-> r[b].value, end |-> r[b].value, delta |-> 0, unit |-> r[b].unit]
           opened == IF Opening THEN [totals EXCEPT ![o] = fresh] ELSE totals
           Paired == e # 0 /\ r[e].value # NONE /\ opened[o] # NONE
<1>1. pc = "totals" /\ i \in DOMAIN records /\ records[i] \in Record
  <2>1. pc = "totals" /\ i \in DOMAIN records
    BY DEF Typed, TypeOK, TotalRegister, AtReading
  <2> QED BY <2>1 DEF Typed, TypeOK
<1>2. j \in DOMAIN r /\ o \in Registers
  <2>1. j \in DOMAIN r /\ o # NONE
    BY DEF TotalRegister, Heads
  <2>2. r[j] \in CheckedReading
    BY <1>1, <2>1 DEF Record
  <2> QED BY <2>1, <2>2 DEF CheckedReading, Option
<1>3. totals' = IF Paired THEN [opened EXCEPT ![o] = Closed(@, r[e].value)] ELSE opened
  BY DEF TotalRegister
<1>4. begins = {1} /\ ends = {Len(records)} /\ IsScanned(i)
  BY <1>1 DEF DelimitedSoFar, Concluding, IsScanned, Behind, AfterScan
<1>5. b # 0 => /\ b \in DOMAIN r
               /\ \E m \in Marked(records[1], o, IsBegin) :
                    records[1].readings[m].value = r[b].value
  <2>1. ASSUME b # 0 PROVE b \in Marked(records[i], o, IsBegin) /\ BeginsIn(i)
    <3>1. b \in Marked(records[i], o, IsBegin)
      BY <1>1, <1>2, <2>1, EndsAreMarked
    <3>2. b \in DOMAIN records[i].readings /\ r[b].tx # NONE /\ IsBegin(r[b].tx)
      BY <3>1 DEF Marked, Series
    <3> QED BY <3>1, <3>2 DEF BeginsIn
  <2>2. BeginsIn(i) => i = 1
    BY <1>1, <1>4 DEF DelimitedSoFar
  <2> QED BY <2>1, <2>2 DEF Marked, Series
<1>6. e # 0 => /\ e \in DOMAIN r
               /\ \E m \in Marked(records[Len(records)], o, IsEnd) :
                    records[Len(records)].readings[m].value = r[e].value
  <2>1. ASSUME e # 0 PROVE e \in Marked(records[i], o, IsEnd) /\ EndsIn(i)
    <3>1. e \in Marked(records[i], o, IsEnd)
      BY <1>1, <1>2, <2>1, EndsAreMarked
    <3>2. e \in DOMAIN records[i].readings /\ r[e].tx # NONE /\ IsEnd(r[e].tx)
      BY <3>1 DEF Marked, Series
    <3> QED BY <3>1, <3>2 DEF EndsIn
  <2>2. EndsIn(i) => i = Len(records)
    BY <1>1, <1>4 DEF DelimitedSoFar
  <2> QED BY <2>1, <2>2 DEF Marked, Series
<1>7. totals \in [Registers -> Option(Total)]
  BY DEF Typed, TypeOK
<1>8. \A k \in DOMAIN r : /\ r[k].value # NONE => r[k].value \in Int
                          /\ r[k].unit # NONE => r[k].unit \in Unit
  <2>1. \A k \in DOMAIN r : r[k] \in CheckedReading
    BY <1>1 DEF Record
  <2> QED BY <2>1 DEF CheckedReading, Option
<1>9. \A q \in Registers : totals[q] # NONE => Spans(totals[q], q)
  BY DEF SpansSoFar
<1> HIDE DEF r, o, b, e
<1>10. opened[o] # NONE => Spans(opened[o], o) /\ opened[o] \in Total
  <2>1. CASE Opening
    <3>1. opened[o] = fresh
      BY <1>2, <1>7, <2>1
    <3>2. r[b].value \in Int /\ r[b].unit \in Unit
      BY <1>5, <1>8, <2>1
    <3>3. /\ fresh.begin = r[b].value /\ fresh.end = fresh.begin
          /\ fresh.delta = fresh.end - fresh.begin /\ fresh \in Total
      BY <3>2 DEF Total
    <3> HIDE DEF opened, fresh
    <3> QED BY <1>5, <2>1, <3>1, <3>3 DEF Spans
  <2>2. CASE ~Opening
    BY <1>2, <1>7, <1>9, <2>2 DEF Option
  <2> QED BY <2>1, <2>2
<1>11. /\ opened \in [Registers -> Option(Total) \union {fresh}]
       /\ p # o => opened[p] = totals[p]
  BY <1>2, <1>7
<1> HIDE DEF opened, fresh, Opening
<1>12. CASE p # o
  <2>1. totals'[p] = opened[p]
    BY <1>2, <1>3, <1>11, <1>12
  <2> QED BY <1>9, <1>11, <1>12, <2>1
<1>13. CASE p = o /\ ~Paired
  BY <1>3, <1>10, <1>13
<1>14. CASE p = o /\ Paired
  <2>1. totals'[o] = Closed(opened[o], r[e].value)
    BY <1>2, <1>3, <1>11, <1>14
  <2>2. opened[o] \in Total /\ Spans(opened[o], o) /\ r[e].value \in Int
    BY <1>6, <1>8, <1>10, <1>14
  <2>3. ASSUME NEW t \in Total, NEW v \in Int
        PROVE  /\ Closed(t, v).begin = t.begin /\ Closed(t, v).end = v
               /\ Closed(t, v).delta = v - t.begin
    BY DEF Closed, Total
  <2>4. /\ totals'[o].begin = opened[o].begin /\ totals'[o].end = r[e].value
        /\ totals'[o].delta = totals'[o].end - totals'[o].begin
    BY <2>1, <2>2, <2>3
  <2> QED BY <1>6, <1>14, <2>2, <2>4 DEF Spans
<1> QED BY <1>12, <1>13, <1>14

\* The totals are kept by every step, and the last one checks their sign.
LEMMA SpansStep ==
  ASSUME Typed, DelimitedSoFar, SpansSoFar, Step
  PROVE  SpansSoFar'
<1>1. CASE UNCHANGED vars
  BY <1>1 DEF SpansSoFar, Spans, vars, ledger
<1>2. ASSUME NEW rs \in Seq(Record), Validate(rs) PROVE SpansSoFar'
  BY <1>2 DEF Validate, Typed, Untouched, SpansSoFar, ledger
<1>3. CASE TotalRegister
  <2>1. /\ pc' = pc /\ pc = "totals" /\ records' = records /\ kind' = kind /\ findings' = findings
    BY <1>3 DEF TotalRegister, AtReading
  <2>2. ASSUME findings = {}, kind = "Transaction", NEW p \in Registers, totals'[p] # NONE
        PROVE  Spans(totals'[p], p)
    BY <1>3, <2>2, TotalSpans
  <2> QED BY <2>1, <2>2 DEF SpansSoFar, Spans, Concluding
<1>4. CASE Conclude
  <2>1. /\ pc' = "done" /\ pc = "conclude" /\ records' = records /\ kind' = kind
        /\ findings \subseteq findings' /\ totals' = totals
    BY <1>4 DEF Conclude, ledger
  <2>2. ASSUME findings' = {}, NEW o \in Registers, totals[o] # NONE
        PROVE  totals[o].delta >= 0
    <3>1. {<<"MeterWentBackwards", p>> :
             p \in {q \in Registers : totals[q] # NONE /\ totals[q].delta < 0}} = {}
      BY <1>4, <2>2 DEF Conclude
    <3>2. ~(totals[o].delta < 0)
      BY <2>2, <3>1
    <3>3. totals[o].delta \in Int
      BY <2>2 DEF Typed, TypeOK, Option, Total
    <3> QED BY <3>2, <3>3
  <2> QED BY <2>1, <2>2 DEF SpansSoFar, Spans, Concluding
<1>5. CASE Check /\ ~TotalRegister /\ ~Conclude
  <2>1. /\ totals' = totals /\ records' = records /\ kind' = kind /\ findings \subseteq findings'
        /\ pc' # "done" /\ (pc \in Concluding => pc' \in Concluding)
    BY <1>5 DEF Check, CheckReadable, CheckPair, CheckSource, CheckRepeat, ScanRecord,
       CheckMarkers, PassReading, AtReading, NextRecord, Pass, ledger, Concluding
  <2> QED BY <2>1 DEF SpansSoFar, Spans
<1> QED BY <1>1, <1>2, <1>3, <1>4, <1>5 DEF Step

\* What a clean transaction is billed for begins with a value the first record
\* marked as the begin of its register, ends with one the last record marked as
\* its end, or moved nothing, and never runs backwards.
THEOREM CleanTotalsAlwaysSpan == Spec => []CleanTotalsSpanTheTransaction
<1>1. Init => SpansSoFar /\ DelimitedSoFar
  BY DEF Init, SpansSoFar, DelimitedSoFar, Concluding
<1>2. SpansSoFar => CleanTotalsSpanTheTransaction
  BY DEF SpansSoFar, Spans, CleanTotalsSpanTheTransaction, Clean, Answered
<1> QED BY <1>1, <1>2, TypedAlways, StepsAreSteps, DelimitedStep, SpansStep, PTL DEF Spec

-----------------------------------------------------------------------------
(***************************************************************************)
(* The check component implements its abstract specification: the report   *)
(* it ends with is Report of CheckComponent, for every record sequence,    *)
(* counter width and set of registers.  Unlike the properties of a clean   *)
(* report this says what every report holds, however much is wrong with    *)
(* the records.                                                            *)
(***************************************************************************)

-----------------------------------------------------------------------------
(***************************************************************************)
(* What is wrong with record k, by the loop that finds it.                 *)
(***************************************************************************)
When(finding, k, condition) == IF condition THEN {<<finding, k>>} ELSE {}

Unreadable(k) == records[k].pg = NONE
PagedPair(k)  == k > 1 /\ records[k - 1].pg # NONE /\ records[k].pg # NONE
Changed(k)    == PagedPair(k) /\ records[k - 1].pg.context # records[k].pg.context
Broken(k)     == PagedPair(k) /\ ~Changed(k) /\ ~IsFollowedBy(records[k - 1].pg, records[k].pg)
Foreign(k)    == Source(records[k]) # Source(records[1])
Repeated(k)   == \E m \in 1 .. k - 1 : PayloadDigest(records[m]) = PayloadDigest(records[k])
Unassigned(k) == records[k].il # NONE /\ IsLevelError(records[k].il)
NotGood(k)    == \E m \in DOMAIN records[k].readings :
                   LET st == records[k].readings[m].state IN st # NONE /\ ~IsOk(st)
Flagged(k)    == \E m \in DOMAIN records[k].readings : AnyFlag(records[k].readings[m].ef)
Faulted(k)    == \E m \in DOMAIN records[k].readings :
                   LET tx == records[k].readings[m].tx IN tx # NONE /\ IsFault(tx)

OfReading(k)    == When("PaginationUnreadable", k, Unreadable(k))
OfPair(k)       == When("PaginationContextChanged", k, Changed(k))
                     \union When("PaginationBroken", k, Broken(k))
OfSource(k)     == When("SourceChanged", k, Foreign(k))
OfRepeat(k)     == When("DuplicateRecord", k, Repeated(k))
OfScan(k)       == When("IdentificationError", k, Unassigned(k))
                     \union When("MeterNotOk", k, NotGood(k))
                     \union When("ErrorFlagged", k, Flagged(k))
                     \union When("TransactionFaulted", k, Faulted(k))

IsUnique(k) == Behind(k, "repeats", {"scan"} \union AfterScan)

\* What the loops have found at record k by now.
FoundAt(k) ==
  UNION {IF IsRead(k) THEN OfReading(k) ELSE {},
         IF IsCompared(k) THEN OfPair(k) ELSE {},
         IF IsSourced(k) THEN OfSource(k) ELSE {},
         IF IsUnique(k) THEN OfRepeat(k) ELSE {},
         IF IsScanned(k) THEN OfScan(k) ELSE {}}

\* What the markers and the clocks of all records say.
OfMarkers ==
  (IF kind = "Transaction"
     THEN MarkerFindings(begins, 1, "NoBegin", "MultipleBegins")
            \union MarkerFindings(ends, Len(records), "NoEnd", "MultipleEnds")
     ELSE {})
  \union (IF worst = NONE \/ ~DurationIsBillable(worst)
            THEN {<<"ClockNotSynchronised", NONE>>} ELSE {})

\* What the totals say.
OfTotals ==
  {<<"MeterWentBackwards", o>> : o \in {q \in Registers : totals[q] # NONE /\ totals[q].delta < 0}}
  \union {<<"RegisterEndWithoutBegin", o>> : o \in unpaired}
  \union (IF beginTime # NONE /\ endTime # NONE /\ endTime < beginTime
            THEN {<<"TimeWentBackwards", NONE>>} ELSE {})

\* The findings are those of the passes made, and no other.
FindingsSoFar ==
  IF records = <<>>
    THEN /\ pc \in {"idle", "done"}
         /\ findings = IF pc = "done" THEN {<<"Empty", NONE>>} ELSE {}
         /\ kind = "Transaction" /\ totals = [o \in Registers |-> NONE]
    ELSE /\ pc # "idle"
         /\ findings = (UNION {FoundAt(k) : k \in DOMAIN records})
                         \union (IF pc \in Concluding THEN OfMarkers ELSE {})
                         \union (IF pc = "done" THEN OfTotals ELSE {})
         /\ kind = IF \E k \in DOMAIN records : IsTransaction(records[k])
                     THEN "Transaction" ELSE "Fiscal"

\* A pass makes an end of one more record in its loop, and of none in another.
LEMMA LoopsPass ==
  ASSUME Typed, Check, NEW k \in DOMAIN records
  PROVE  /\ IsRead(k)' <=> IsRead(k) \/ (CheckReadable /\ k = i)
         /\ IsCompared(k)' <=> IsCompared(k) \/ (CheckPair /\ k = i)
         /\ IsSourced(k)' <=> IsSourced(k) \/ (CheckSource /\ k = i)
         /\ IsUnique(k)' <=> IsUnique(k) \/ (CheckRepeat /\ k = i)
         /\ IsScanned(k)' <=> IsScanned(k) \/ (ScanRecord /\ k = i)
<1> USE DEF IsRead, IsCompared, IsSourced, IsUnique, IsScanned, Behind,
            AfterReading, AfterPairs, AfterSource, AfterScan
<1>0. /\ i \in Int /\ k \in Int /\ Len(records) \in Nat /\ 1 <= k /\ k <= Len(records)
  BY DEF Typed, TypeOK
<1>1. ASSUME NEW phase, NEW next, NEW new, Pass(phase, next, new)
      PROVE  /\ pc = phase
             /\ pc' \in {phase, next}
             /\ pc' = phase /\ phase # next => (k < i' <=> k < i \/ k = i)
             /\ pc' = next /\ phase # next => ~(k < i') /\ (k < i \/ k = i)
  <2>1. pc = phase /\ (IF i < Len(records) THEN i' = i + 1 /\ pc' = pc ELSE i' = 1 /\ pc' = next)
    BY <1>1 DEF Pass
  <2>2. CASE i < Len(records)
    BY <1>0, <2>1, <2>2
  <2>3. CASE ~(i < Len(records))
    BY <1>0, <2>1, <2>3
  <2> QED BY <2>2, <2>3
<1>2. CASE CheckReadable
  <2>1. PICK new : Pass("readable", "pairs", new)
    BY <1>2 DEF CheckReadable
  <2>2. /\ pc = "readable" /\ pc' \in {"readable", "pairs"}
        /\ pc' = "readable" => (k < i' <=> k < i \/ k = i)
        /\ pc' = "pairs" => ~(k < i') /\ (k < i \/ k = i)
    BY <1>1, <2>1
  <2>3. ~CheckPair /\ ~CheckSource /\ ~CheckRepeat /\ ~ScanRecord
    BY <2>2 DEF CheckPair, CheckSource, CheckRepeat, ScanRecord, Pass
  <2> QED BY <1>2, <2>2, <2>3
<1>3. CASE CheckPair
  <2>1. PICK new : Pass("pairs", "source", new)
    BY <1>3 DEF CheckPair
  <2>2. /\ pc = "pairs" /\ pc' \in {"pairs", "source"}
        /\ pc' = "pairs" => (k < i' <=> k < i \/ k = i)
        /\ pc' = "source" => ~(k < i') /\ (k < i \/ k = i)
    BY <1>1, <2>1
  <2>3. ~CheckReadable /\ ~CheckSource /\ ~CheckRepeat /\ ~ScanRecord
    BY <2>2 DEF CheckReadable, CheckSource, CheckRepeat, ScanRecord, Pass
  <2> QED BY <1>3, <2>2, <2>3
<1>4. CASE CheckSource
  <2>1. PICK new : Pass("source", "repeats", new)
    BY <1>4 DEF CheckSource
  <2>2. /\ pc = "source" /\ pc' \in {"source", "repeats"}
        /\ pc' = "source" => (k < i' <=> k < i \/ k = i)
        /\ pc' = "repeats" => ~(k < i') /\ (k < i \/ k = i)
    BY <1>1, <2>1
  <2>3. ~CheckReadable /\ ~CheckPair /\ ~CheckRepeat /\ ~ScanRecord
    BY <2>2 DEF CheckReadable, CheckPair, CheckRepeat, ScanRecord, Pass
  <2> QED BY <1>4, <2>2, <2>3
<1>5. CASE CheckRepeat
  <2>1. PICK new : Pass("repeats", "scan", new)
    BY <1>5 DEF CheckRepeat
  <2>2. /\ pc = "repeats" /\ pc' \in {"repeats", "scan"}
        /\ pc' = "repeats" => (k < i' <=> k < i \/ k = i)
        /\ pc' = "scan" => ~(k < i') /\ (k < i \/ k = i)
    BY <1>1, <2>1
  <2>3. ~CheckReadable /\ ~CheckPair /\ ~CheckSource /\ ~ScanRecord
    BY <2>2 DEF CheckReadable, CheckPair, CheckSource, ScanRecord, Pass
  <2> QED BY <1>5, <2>2, <2>3
<1>6. CASE ScanRecord
  <2>1. PICK new : Pass("scan", "markers", new)
    BY <1>6 DEF ScanRecord
  <2>2. /\ pc = "scan" /\ pc' \in {"scan", "markers"}
        /\ pc' = "scan" => (k < i' <=> k < i \/ k = i)
        /\ pc' = "markers" => ~(k < i') /\ (k < i \/ k = i)
    BY <1>1, <2>1
  <2>3. ~CheckReadable /\ ~CheckPair /\ ~CheckSource /\ ~CheckRepeat
    BY <2>2 DEF CheckReadable, CheckPair, CheckSource, CheckRepeat, Pass
  <2> QED BY <1>6, <2>2, <2>3
<1>7. CASE CheckMarkers \/ TotalRegister \/ PassReading \/ NextRecord \/ Conclude
  <2>1. pc \in AfterScan /\ pc' \in AfterScan
    BY <1>7 DEF CheckMarkers, TotalRegister, PassReading, AtReading, NextRecord, Conclude
  <2> QED BY <2>1
<1> QED BY <1>2, <1>3, <1>4, <1>5, <1>6, <1>7 DEF Check

\* A loop adds what it finds at its record; the rest of what was found stays.
LEMMA FoundAdds ==
  ASSUME Typed, Check, NEW k \in DOMAIN records
  PROVE  FoundAt(k)' = FoundAt(k)
           \union UNION {IF CheckReadable /\ k = i THEN OfReading(k) ELSE {},
                         IF CheckPair /\ k = i THEN OfPair(k) ELSE {},
                         IF CheckSource /\ k = i THEN OfSource(k) ELSE {},
                         IF CheckRepeat /\ k = i THEN OfRepeat(k) ELSE {},
                         IF ScanRecord /\ k = i THEN OfScan(k) ELSE {}}
<1>1. records' = records
  BY LoopsAdvance
<1>2. /\ OfReading(k)' = OfReading(k) /\ OfPair(k)' = OfPair(k) /\ OfSource(k)' = OfSource(k)
      /\ OfRepeat(k)' = OfRepeat(k) /\ OfScan(k)' = OfScan(k)
  BY <1>1 DEF OfReading, OfPair, OfSource, OfRepeat, OfScan, Unreadable, Changed, Broken,
              PagedPair, Foreign, Repeated, Unassigned, NotGood, Flagged, Faulted
<1>3. FoundAt(k)' =
        UNION {IF IsRead(k)' THEN OfReading(k) ELSE {},
               IF IsCompared(k)' THEN OfPair(k) ELSE {},
               IF IsSourced(k)' THEN OfSource(k) ELSE {},
               IF IsUnique(k)' THEN OfRepeat(k) ELSE {},
               IF IsScanned(k)' THEN OfScan(k) ELSE {}}
  BY <1>2 DEF FoundAt
<1>4. \A A, B, C, D, E : UNION {A, B, C, D, E} = A \union B \union C \union D \union E
  OBVIOUS
<1>5. ASSUME NEW S, NEW P \in BOOLEAN, NEW Q \in BOOLEAN
      PROVE  (IF P \/ Q THEN S ELSE {}) = (IF P THEN S ELSE {}) \union (IF Q THEN S ELSE {})
  OBVIOUS
<1> DEFINE was(P, S) == IF P THEN S ELSE {}
<1>6. /\ was(IsRead(k)', OfReading(k))
           = was(IsRead(k), OfReading(k)) \union was(CheckReadable /\ k = i, OfReading(k))
      /\ was(IsCompared(k)', OfPair(k))
           = was(IsCompared(k), OfPair(k)) \union was(CheckPair /\ k = i, OfPair(k))
      /\ was(IsSourced(k)', OfSource(k))
           = was(IsSourced(k), OfSource(k)) \union was(CheckSource /\ k = i, OfSource(k))
      /\ was(IsUnique(k)', OfRepeat(k))
           = was(IsUnique(k), OfRepeat(k)) \union was(CheckRepeat /\ k = i, OfRepeat(k))
      /\ was(IsScanned(k)', OfScan(k))
           = was(IsScanned(k), OfScan(k)) \union was(ScanRecord /\ k = i, OfScan(k))
  BY LoopsPass
<1> QED BY <1>3, <1>4, <1>6 DEF FoundAt

\* What a loop adds to the findings is what it finds at its record.
LEMMA PassFinds ==
  ASSUME Typed
  PROVE  /\ CheckReadable => findings' = findings \union OfReading(i)
         /\ CheckPair => findings' = findings \union OfPair(i)
         /\ CheckSource => findings' = findings \union OfSource(i)
         /\ CheckRepeat => findings' = findings \union OfRepeat(i)
         /\ ScanRecord => findings' = findings \union OfScan(i)
<1>1. CheckReadable => findings' = findings \union OfReading(i)
  BY DEF CheckReadable, Pass, Found, OfReading, When, Unreadable
<1>2. CheckPair => findings' = findings \union OfPair(i)
  BY DEF CheckPair, Pass, Found, OfPair, When, Changed, Broken, PagedPair
<1>3. CheckSource => findings' = findings \union OfSource(i)
  BY DEF CheckSource, Pass, Found, OfSource, When, Foreign
<1>4. CheckRepeat => findings' = findings \union OfRepeat(i)
  BY DEF CheckRepeat, Pass, Found, OfRepeat, When, Repeated
<1>5. ScanRecord => findings' = findings \union OfScan(i)
  <2>1. /\ SomeReading(records[i], LAMBDA x : x.state # NONE /\ ~IsOk(x.state)) <=> NotGood(i)
        /\ SomeReading(records[i], LAMBDA x : AnyFlag(x.ef)) <=> Flagged(i)
        /\ SomeReading(records[i], LAMBDA x : x.tx # NONE /\ IsFault(x.tx)) <=> Faulted(i)
    BY DEF SomeReading, NotGood, Flagged, Faulted
  <2> QED BY <2>1 DEF ScanRecord, Pass, Found, OfScan, When, Unassigned
<1> QED BY <1>1, <1>2, <1>3, <1>4, <1>5

\* After the loops only the markers and the end of the call add a finding.
LEMMA OthersFind ==
  ASSUME Typed, CheckMarkers \/ TotalRegister \/ PassReading \/ NextRecord \/ Conclude
  PROVE  /\ records' = records /\ kind' = kind /\ UNCHANGED scanned
         /\ CheckMarkers => findings' = findings \union OfMarkers /\ pc' = "totals"
                            /\ pc \notin Concluding
         /\ Conclude => findings' = findings \union OfTotals /\ pc' = "done" /\ UNCHANGED ledger
                        /\ pc = "conclude"
         /\ TotalRegister \/ PassReading \/ NextRecord =>
              findings' = findings /\ pc \in Concluding \ {"done"} /\ pc' \in Concluding \ {"done"}
<1>1. CASE CheckMarkers
  BY <1>1 DEF CheckMarkers, OfMarkers, Concluding, Conclude, TotalRegister, PassReading,
              NextRecord, AtReading
<1>2. CASE Conclude
  BY <1>2 DEF CheckMarkers, OfTotals, Concluding, Conclude, TotalRegister, PassReading,
              NextRecord, AtReading
<1>3. CASE TotalRegister \/ PassReading \/ NextRecord
  BY <1>3 DEF CheckMarkers, OfTotals, Concluding, Conclude, TotalRegister, PassReading,
              NextRecord, AtReading
<1> QED BY <1>1, <1>2, <1>3

\* The five loops leave the rest of the state to the others.
LEMMA LoopsLeave ==
  ASSUME CheckReadable \/ CheckPair \/ CheckSource \/ CheckRepeat \/ ScanRecord
  PROVE  /\ pc \notin Concluding /\ pc' \notin Concluding /\ pc' # "idle"
         /\ UNCHANGED ledger /\ kind' = kind /\ records' = records /\ j' = j
         /\ ScanRecord \/ UNCHANGED scanned
<1>1. CASE CheckReadable
  BY <1>1 DEF CheckReadable, Pass, Concluding
<1>2. CASE CheckPair
  BY <1>2 DEF CheckPair, Pass, Concluding
<1>3. CASE CheckSource
  BY <1>3 DEF CheckSource, Pass, Concluding
<1>4. CASE CheckRepeat
  BY <1>4 DEF CheckRepeat, Pass, Concluding
<1>5. CASE ScanRecord
  BY <1>5 DEF ScanRecord, Pass, Concluding
<1> QED BY <1>1, <1>2, <1>3, <1>4, <1>5

\* Every step adds to the findings what it finds, and nothing else.
LEMMA FindingsStep ==
  ASSUME Typed, FindingsSoFar, Step
  PROVE  FindingsSoFar'
<1>1. CASE UNCHANGED vars
  <2>1. \A k : FoundAt(k)' = FoundAt(k)
    BY <1>1 DEF FoundAt, vars, IsRead, IsCompared, IsSourced, IsUnique, IsScanned, Behind,
       AfterReading, AfterPairs, AfterSource, AfterScan, OfReading, OfPair, OfSource, OfRepeat,
       OfScan, Unreadable, Changed, Broken, PagedPair, Foreign, Repeated, Unassigned, NotGood,
       Flagged, Faulted
  <2>2. OfMarkers' = OfMarkers /\ OfTotals' = OfTotals
    BY <1>1 DEF OfMarkers, OfTotals, vars, scanned, ledger
  <2> QED BY <1>1, <2>1, <2>2 DEF FindingsSoFar, vars, ledger
<1>2. ASSUME NEW rs \in Seq(Record), Validate(rs) PROVE FindingsSoFar'
  <2>1. records' = rs /\ pc = "idle" /\ findings = {} /\ totals = [o \in Registers |-> NONE]
        /\ totals' = totals /\ kind = "Transaction"
    <3>1. records = <<>>
      BY <1>2 DEF FindingsSoFar, Validate
    <3> QED BY <1>2, <3>1 DEF Validate, Typed, Untouched, FindingsSoFar, ledger
  <2>2. CASE rs = <<>>
    BY <1>2, <2>1, <2>2 DEF Validate, FindingsSoFar
  <2>3. CASE rs # <<>>
    <3>1. pc' = "readable" /\ findings' = {}
          /\ kind' = IF \E k \in DOMAIN rs : IsTransaction(rs[k]) THEN "Transaction" ELSE "Fiscal"
      BY <1>2, <2>1, <2>3 DEF Validate
    <3>2. \A k \in DOMAIN rs : FoundAt(k)' = {}
      <4>1. \A k \in DOMAIN rs : ~IsRead(k)' /\ ~IsCompared(k)' /\ ~IsSourced(k)' /\ ~IsScanned(k)'
        BY <1>2, <3>1, CallStartsTheLoops
      <4>2. \A k \in DOMAIN rs : ~IsUnique(k)'
        BY <3>1 DEF IsUnique, Behind, AfterScan
      <4> QED BY <4>1, <4>2 DEF FoundAt
    <3> QED BY <2>1, <2>3, <3>1, <3>2 DEF FindingsSoFar, Concluding
  <2> QED BY <2>2, <2>3
<1>3. CASE Check
  <2>1. records' = records /\ records # <<>>
    BY <1>3, LoopsAdvance, LoopsLeave, OthersFind
       DEF Check, Typed, TypeOK, FindingsSoFar, CheckReadable, CheckPair, CheckSource, CheckRepeat,
           ScanRecord, Pass, CheckMarkers, TotalRegister, PassReading, NextRecord, Conclude, AtReading
  <2>2. findings = (UNION {FoundAt(k) : k \in DOMAIN records})
                     \union (IF pc \in Concluding THEN OfMarkers ELSE {})
                     \union (IF pc = "done" THEN OfTotals ELSE {})
    BY <2>1 DEF FindingsSoFar
  <2>3. CASE CheckReadable \/ CheckPair \/ CheckSource \/ CheckRepeat \/ ScanRecord
    <3>1. pc \notin Concluding /\ pc' \notin Concluding /\ pc' # "idle" /\ kind' = kind
      BY <2>3, LoopsLeave
    <3>2. PICK new : /\ findings' = findings \union new
                     /\ \A k \in DOMAIN records :
                          FoundAt(k)' = FoundAt(k) \union (IF k = i THEN new ELSE {})
      <4>1. CASE CheckReadable
        <5>1. ~CheckPair /\ ~CheckSource /\ ~CheckRepeat /\ ~ScanRecord
          BY <4>1 DEF CheckReadable, CheckPair, CheckSource, CheckRepeat, ScanRecord, Pass
        <5>2. \A k \in DOMAIN records :
                FoundAt(k)' = FoundAt(k) \union (IF k = i THEN OfReading(i) ELSE {})
          BY <1>3, <4>1, <5>1, FoundAdds
        <5> QED BY <4>1, <5>2, PassFinds
      <4>2. CASE CheckPair
        <5>1. ~CheckReadable /\ ~CheckSource /\ ~CheckRepeat /\ ~ScanRecord
          BY <4>2 DEF CheckReadable, CheckPair, CheckSource, CheckRepeat, ScanRecord, Pass
        <5>2. \A k \in DOMAIN records :
                FoundAt(k)' = FoundAt(k) \union (IF k = i THEN OfPair(i) ELSE {})
          BY <1>3, <4>2, <5>1, FoundAdds
        <5> QED BY <4>2, <5>2, PassFinds
      <4>3. CASE CheckSource
        <5>1. ~CheckReadable /\ ~CheckPair /\ ~CheckRepeat /\ ~ScanRecord
          BY <4>3 DEF CheckReadable, CheckPair, CheckSource, CheckRepeat, ScanRecord, Pass
        <5>2. \A k \in DOMAIN records :
                FoundAt(k)' = FoundAt(k) \union (IF k = i THEN OfSource(i) ELSE {})
          BY <1>3, <4>3, <5>1, FoundAdds
        <5> QED BY <4>3, <5>2, PassFinds
      <4>4. CASE CheckRepeat
        <5>1. ~CheckReadable /\ ~CheckPair /\ ~CheckSource /\ ~ScanRecord
          BY <4>4 DEF CheckReadable, CheckPair, CheckSource, CheckRepeat, ScanRecord, Pass
        <5>2. \A k \in DOMAIN records :
                FoundAt(k)' = FoundAt(k) \union (IF k = i THEN OfRepeat(i) ELSE {})
          BY <1>3, <4>4, <5>1, FoundAdds
        <5> QED BY <4>4, <5>2, PassFinds
      <4>5. CASE ScanRecord
        <5>1. ~CheckReadable /\ ~CheckPair /\ ~CheckSource /\ ~CheckRepeat
          BY <4>5 DEF CheckReadable, CheckPair, CheckSource, CheckRepeat, ScanRecord, Pass
        <5>2. \A k \in DOMAIN records :
                FoundAt(k)' = FoundAt(k) \union (IF k = i THEN OfScan(i) ELSE {})
          BY <1>3, <4>5, <5>1, FoundAdds
        <5> QED BY <4>5, <5>2, PassFinds
      <4> QED BY <2>3, <4>1, <4>2, <4>3, <4>4, <4>5
    <3>3. i \in DOMAIN records
      BY <2>3 DEF Typed, TypeOK, CheckReadable, CheckPair, CheckSource, CheckRepeat, ScanRecord, Pass
    <3>4. findings' = (UNION {FoundAt(k)' : k \in DOMAIN records})
      <4>1. findings = (UNION {FoundAt(k) : k \in DOMAIN records})
        BY <2>2, <3>1 DEF Concluding
      <4> QED BY <3>2, <3>3, <4>1
    <3> QED BY <2>1, <3>1, <3>4 DEF FindingsSoFar, Concluding
  <2>4. CASE CheckMarkers \/ TotalRegister \/ PassReading \/ NextRecord \/ Conclude
    <3>1. ~CheckReadable /\ ~CheckPair /\ ~CheckSource /\ ~CheckRepeat /\ ~ScanRecord
      BY <2>4 DEF CheckReadable, CheckPair, CheckSource, CheckRepeat, ScanRecord, Pass,
                  CheckMarkers, TotalRegister, PassReading, NextRecord, Conclude, AtReading
    <3>2. \A k \in DOMAIN records : FoundAt(k)' = FoundAt(k)
      BY <1>3, <3>1, FoundAdds
    <3>3. OfMarkers' = OfMarkers /\ kind' = kind
      BY <2>1, <2>4, OthersFind DEF OfMarkers, scanned
    <3>4. pc' # "idle"
      BY <2>4, OthersFind DEF Concluding
    <3>5. (UNION {FoundAt(k)' : k \in DOMAIN records}) = (UNION {FoundAt(k) : k \in DOMAIN records})
      BY <3>2
    <3>6. CASE CheckMarkers
      <4>1. findings' = findings \union OfMarkers /\ pc' = "totals" /\ pc \notin Concluding
        BY <2>4, <3>6, OthersFind
      <4>2. findings' = (UNION {FoundAt(k) : k \in DOMAIN records}) \union OfMarkers
        BY <2>2, <4>1 DEF Concluding
      <4> QED BY <2>1, <3>3, <3>4, <3>5, <4>1, <4>2 DEF FindingsSoFar, Concluding
    <3>7. CASE Conclude
      <4>1. findings' = findings \union OfTotals /\ pc' = "done" /\ pc = "conclude" /\ UNCHANGED ledger
        BY <2>4, <3>7, OthersFind
      <4>2. OfTotals' = OfTotals
        BY <4>1 DEF OfTotals, ledger
      <4>3. findings' = (UNION {FoundAt(k) : k \in DOMAIN records}) \union OfMarkers \union OfTotals
        BY <2>2, <4>1 DEF Concluding
      <4> QED BY <2>1, <3>3, <3>4, <3>5, <4>1, <4>2, <4>3 DEF FindingsSoFar, Concluding
    <3>8. CASE TotalRegister \/ PassReading \/ NextRecord
      <4>1. findings' = findings /\ pc \in Concluding \ {"done"} /\ pc' \in Concluding \ {"done"}
        BY <2>4, <3>8, OthersFind
      <4>2. findings' = (UNION {FoundAt(k) : k \in DOMAIN records}) \union OfMarkers
        BY <2>2, <4>1 DEF Concluding
      <4> QED BY <2>1, <3>3, <3>4, <3>5, <4>1, <4>2 DEF FindingsSoFar, Concluding
    <3> QED BY <2>4, <3>6, <3>7, <3>8
  <2> QED BY <1>3, <2>3, <2>4 DEF Check
<1> QED BY <1>1, <1>2, <1>3 DEF Step

-----------------------------------------------------------------------------
(***************************************************************************)
(* Markers and clocks.                                                     *)
(***************************************************************************)

\* begins, ends and worst are those of the records scanned, whatever was found.
ScannedSoFar ==
  /\ begins = {k \in DOMAIN records : IsScanned(k) /\ BeginsIn(k)}
  /\ ends = {k \in DOMAIN records : IsScanned(k) /\ EndsIn(k)}
  /\ \A k \in DOMAIN records : IsScanned(k) =>
       \A c \in Clocks(records[k]) : worst # NONE /\ Rank(worst) <= Rank(c)
  /\ worst # NONE => \E k \in DOMAIN records : IsScanned(k) /\ worst \in Clocks(records[k])

\* Scanning a record brings in its markers and its clocks.
LEMMA ScanAdds ==
  ASSUME Typed, ScannedSoFar, ScanRecord
  PROVE  ScannedSoFar'
<1>1. records' = records /\ i \in DOMAIN records /\ Check
  BY DEF ScanRecord, Pass, Typed, TypeOK, Check
<1>2. \A k \in DOMAIN records : IsScanned(k)' <=> IsScanned(k) \/ k = i
  BY <1>1, LoopsPass
<1>3. \A k : (BeginsIn(k)' <=> BeginsIn(k)) /\ (EndsIn(k)' <=> EndsIn(k))
  BY <1>1 DEF BeginsIn, EndsIn
<1>4. /\ begins' = begins \union {k \in {i} : BeginsIn(k)}
      /\ ends' = ends \union {k \in {i} : EndsIn(k)}
  BY DEF ScanRecord, SomeReading, BeginsIn, EndsIn
<1>5. /\ begins' = {k \in DOMAIN records' : IsScanned(k)' /\ BeginsIn(k)'}
      /\ ends' = {k \in DOMAIN records' : IsScanned(k)' /\ EndsIn(k)'}
  BY <1>1, <1>2, <1>3, <1>4 DEF ScannedSoFar
<1> DEFINE seen == Clocks(records[i]) \union ({worst} \ {NONE})
<1>6. worst' = IF seen = {} THEN NONE ELSE Weakest(seen)
  BY DEF ScanRecord
<1>7. seen \in SUBSET TimeStatus /\ worst \in TimeStatus \union {NONE}
  <2>1. records[i] \in Record
    BY <1>1 DEF Typed, TypeOK
  <2> QED BY <2>1, ClocksAreLetters DEF Typed, TypeOK, Option
<1>8. /\ seen # {} => worst' \in seen /\ \A t \in seen : Rank(worst') <= Rank(t)
      /\ seen = {} => worst' = NONE
  <2> HIDE DEF seen
  <2> QED BY <1>6, <1>7, WeakestOfSome
<1>9. worst' # NONE => worst' \in seen
  BY <1>8
<1>10. \A t \in TimeStatus : Rank(t) \in Int /\ t # NONE
  BY Ranks, AbsenceAssumption DEF TimeStatus
<1>11. \A k \in DOMAIN records : Clocks(records[k]) \subseteq TimeStatus
  BY ClocksAreLetters DEF Typed, TypeOK
<1>12. ASSUME NEW k \in DOMAIN records, IsScanned(k) \/ k = i, NEW c \in Clocks(records[k])
       PROVE  worst' # NONE /\ Rank(worst') <= Rank(c)
  <2>1. CASE k = i
    BY <1>7, <1>8, <1>10, <1>12, <2>1
  <2>2. CASE IsScanned(k)
    <3>1. worst # NONE /\ Rank(worst) <= Rank(c)
      BY <1>12, <2>2 DEF ScannedSoFar
    <3>2. worst \in seen /\ worst' \in seen /\ Rank(worst') <= Rank(worst)
      BY <1>8, <3>1
    <3>3. c \in TimeStatus /\ worst \in TimeStatus /\ worst' \in TimeStatus
      BY <1>7, <1>11, <1>12, <3>2
    <3> QED BY <1>10, <3>1, <3>2, <3>3
  <2> QED BY <1>12, <2>1, <2>2
<1>13. ASSUME worst' # NONE
       PROVE  \E k \in DOMAIN records : (IsScanned(k) \/ k = i) /\ worst' \in Clocks(records[k])
  <2>1. CASE worst' \in Clocks(records[i])
    BY <1>1, <2>1
  <2>2. CASE worst' = worst
    BY <1>13, <2>2 DEF ScannedSoFar
  <2> QED BY <1>9, <1>13, <2>1, <2>2
<1>14. \A k \in DOMAIN records' : IsScanned(k)' =>
         \A c \in Clocks(records'[k]) : worst' # NONE /\ Rank(worst') <= Rank(c)
  BY <1>1, <1>2, <1>12
<1>15. worst' # NONE =>
         \E k \in DOMAIN records' : IsScanned(k)' /\ worst' \in Clocks(records'[k])
  BY <1>1, <1>2, <1>13
<1> QED BY <1>5, <1>14, <1>15 DEF ScannedSoFar, Clocks

\* No other step has a say in them.
LEMMA ScannedStep ==
  ASSUME Typed, ScannedSoFar, Step
  PROVE  ScannedSoFar'
<1>1. CASE UNCHANGED vars
  BY <1>1 DEF ScannedSoFar, vars, scanned, IsScanned, Behind, AfterScan, BeginsIn, EndsIn
<1>2. ASSUME NEW rs \in Seq(Record), Validate(rs) PROVE ScannedSoFar'
  <2>1. begins' = {} /\ ends' = {} /\ worst' = NONE /\ records' = rs
    BY <1>2 DEF Validate, Typed, Untouched, scanned
  <2>2. \A k \in DOMAIN rs : ~IsScanned(k)'
    <3>1. rs # <<>> => pc' = "readable"
      BY <1>2 DEF Validate
    <3>2. rs = <<>> => DOMAIN rs = {}
      OBVIOUS
    <3> QED BY <3>1, <3>2 DEF IsScanned, Behind, AfterScan
  <2> QED BY <2>1, <2>2 DEF ScannedSoFar
<1>3. CASE ScanRecord
  BY <1>3, ScanAdds
<1>4. CASE Check /\ ~ScanRecord
  <2>1. begins' = begins /\ ends' = ends /\ worst' = worst /\ records' = records
    BY <1>4, LoopsLeave, OthersFind DEF Check, scanned
  <2>2. \A k \in DOMAIN records : IsScanned(k)' <=> IsScanned(k)
    BY <1>4, LoopsPass
  <2>3. \A k : (BeginsIn(k)' <=> BeginsIn(k)) /\ (EndsIn(k)' <=> EndsIn(k))
    BY <2>1 DEF BeginsIn, EndsIn
  <2> QED BY <2>1, <2>2, <2>3 DEF ScannedSoFar, Clocks
<1> QED BY <1>1, <1>2, <1>3, <1>4 DEF Step

-----------------------------------------------------------------------------
(***************************************************************************)
(* Registers.  Each is handled once in every record that reads it, where   *)
(* the record first names it.                                              *)
(***************************************************************************)
HeadAt(k, o)    == FirstOf(Series(records[k], o))
OpeningAt(k, o) == records[k].readings[Opens(records[k], o, kind)]
ClosingAt(k, o) == records[k].readings[Closes(records[k], o, kind)]

\* Record k could begin a total of o, or end one.
OpensAt(k, o) ==
  Opens(records[k], o, kind) # 0 /\ OpeningAt(k, o).value # NONE /\ OpeningAt(k, o).unit # NONE
ClosesAt(k, o) == Closes(records[k], o, kind) # 0 /\ ClosingAt(k, o).value # NONE

\* Record k does begin the total of o, or does end one that was begun.
Begun(k, o)   == OpensAt(k, o) /\ \A m \in 1 .. k - 1 : ~OpensAt(m, o)
PairsAt(k, o) == ClosesAt(k, o) /\ \E m \in 1 .. k : OpensAt(m, o)

Handled(k, o) ==
  /\ HeadAt(k, o) # 0
  /\ \/ pc \in {"conclude", "done"}
     \/ pc = "totals" /\ (k < i \/ (k = i /\ HeadAt(k, o) < j))

\* A total begins with the first opening handled and ends with the last closing
\* after it.
TotalSoFar(o) ==
  IF totals[o] = NONE
    THEN \A k \in DOMAIN records : Handled(k, o) => ~OpensAt(k, o)
    ELSE /\ \E s \in DOMAIN records :
              /\ Handled(s, o) /\ Begun(s, o)
              /\ totals[o].begin = OpeningAt(s, o).value
              /\ totals[o].unit = OpeningAt(s, o).unit
         /\ \/ /\ totals[o].end = totals[o].begin
               /\ \A c \in DOMAIN records : Handled(c, o) => ~PairsAt(c, o)
            \/ \E c \in DOMAIN records :
                 /\ Handled(c, o) /\ PairsAt(c, o)
                 /\ totals[o].end = ClosingAt(c, o).value
                 /\ \A d \in DOMAIN records : Handled(d, o) /\ PairsAt(d, o) => d <= c
         /\ totals[o].delta = totals[o].end - totals[o].begin

TotalsSoFar ==
  /\ pc \notin Concluding => j = 1
  /\ pc = "markers" => i = 1
  /\ \A o \in Registers : TotalSoFar(o)
  /\ unpaired = {o \in Registers : \E k \in DOMAIN records :
                                     Handled(k, o) /\ ClosesAt(k, o) /\ ~PairsAt(k, o)}

\* A register that has no reading in a record neither opens nor closes there.
LEMMA HeadsAreReadings ==
  ASSUME NEW r \in Record, NEW o \in Registers
  PROVE  /\ FirstOf(Series(r, o)) \in 0 .. Len(r.readings)
         /\ FirstOf(Series(r, o)) # 0 =>
              /\ r.readings[FirstOf(Series(r, o))].obis = o
              /\ FirstOf(Series(r, o)) \in Heads(r)
         /\ FirstOf(Series(r, o)) = 0 => Opens(r, o, kind) = 0 /\ Closes(r, o, kind) = 0
<1>1. Len(r.readings) \in Nat /\ DOMAIN r.readings = 1 .. Len(r.readings)
  BY DEF Record
<1>2. Series(r, o) \in SUBSET (1 .. Len(r.readings))
  BY <1>1 DEF Series
<1>3. /\ FirstOf(Series(r, o)) # 0 => FirstOf(Series(r, o)) \in Series(r, o)
      /\ Series(r, o) # {} => FirstOf(Series(r, o)) # 0
  BY <1>1, <1>2, FirstAndLastAreOf
<1>4. o # NONE
  BY AbsenceAssumption
<1>5. FirstOf(Series(r, o)) # 0 =>
        /\ r.readings[FirstOf(Series(r, o))].obis = o
        /\ FirstOf(Series(r, o)) \in DOMAIN r.readings
  BY <1>3 DEF Series
<1>6. FirstOf(Series(r, o)) # 0 => FirstOf(Series(r, o)) \in Heads(r)
  BY <1>4, <1>5 DEF Heads
<1>7. ASSUME FirstOf(Series(r, o)) = 0 PROVE Opens(r, o, kind) = 0 /\ Closes(r, o, kind) = 0
  <2>1. Series(r, o) = {}
    BY <1>3, <1>7
  <2>2. Marked(r, o, IsBegin) = {} /\ Marked(r, o, IsEnd) = {}
    BY <2>1 DEF Marked
  <2> QED BY <2>1, <2>2 DEF Opens, Closes, FirstOf, LastOf
<1> QED BY <1>1, <1>5, <1>6, <1>7

\* The only step that handles a register is TotalRegister, and it handles one.
LEMMA HandledAdds ==
  ASSUME Typed, TotalsSoFar, Check, NEW k \in DOMAIN records, NEW o \in Registers
  PROVE  Handled(k, o)' <=> Handled(k, o)
                              \/ (TotalRegister /\ k = i /\ o = records[i].readings[j].obis)
<1>1. records' = records
  BY LoopsAdvance
<1>2. HeadAt(k, o)' = HeadAt(k, o)
  BY <1>1 DEF HeadAt
<1>3. records[k] \in Record /\ k \in Nat /\ k >= 1 /\ k <= Len(records)
      /\ Len(records) \in Nat /\ i \in Nat /\ j \in Nat /\ j >= 1 /\ i >= 1
  BY DEF Typed, TypeOK
<1>4. /\ HeadAt(k, o) \in 0 .. Len(records[k].readings) /\ Len(records[k].readings) \in Nat
      /\ HeadAt(k, o) # 0 => /\ records[k].readings[HeadAt(k, o)].obis = o
                             /\ HeadAt(k, o) \in Heads(records[k])
  BY <1>3, HeadsAreReadings DEF HeadAt, Record
<1>5. CASE CheckReadable \/ CheckPair \/ CheckSource \/ CheckRepeat \/ ScanRecord
  <2>1. ~TotalRegister
    BY <1>5, LoopsLeave DEF TotalRegister, AtReading, Concluding
  <2> QED BY <1>5, <2>1, LoopsLeave DEF Handled, Concluding
<1>6. CASE CheckMarkers
  <2>1. pc = "markers" /\ pc' = "totals" /\ i' = 1 /\ j' = 1 /\ ~TotalRegister
    BY <1>6 DEF CheckMarkers, TotalRegister, AtReading, TotalsSoFar, Concluding
  <2>2. ~Handled(k, o)
    BY <2>1 DEF Handled
  <2>3. HeadAt(k, o) # 0 => ~(k < 1) /\ ~(HeadAt(k, o) < 1)
    BY <1>3, <1>4
  <2>4. ~Handled(k, o)'
    BY <1>2, <2>1, <2>3 DEF Handled
  <2> QED BY <2>1, <2>2, <2>4
<1>7. CASE TotalRegister
  <2>1. pc = "totals" /\ pc' = pc /\ i' = i /\ j' = j + 1 /\ j \in Heads(records[i])
    BY <1>7 DEF TotalRegister, AtReading
  <2>2. HeadAt(k, o) < j + 1 <=> HeadAt(k, o) < j \/ HeadAt(k, o) = j
    BY <1>3, <1>4
  <2>3. ASSUME k = i, HeadAt(k, o) = j PROVE o = records[i].readings[j].obis
    BY <1>3, <1>4, <2>3
  <2>4. ASSUME k = i, o = records[i].readings[j].obis PROVE HeadAt(k, o) = j /\ HeadAt(k, o) # 0
    BY <1>3, <2>1, <2>4 DEF Heads, HeadAt
  <2> QED BY <1>2, <1>7, <2>1, <2>2, <2>3, <2>4 DEF Handled
<1>8. CASE PassReading
  <2>1. pc = "totals" /\ pc' = pc /\ i' = i /\ j' = j + 1 /\ j \notin Heads(records[i])
    BY <1>8 DEF PassReading, AtReading
  <2>2. ~TotalRegister
    BY <2>1 DEF TotalRegister
  <2>3. HeadAt(k, o) < j + 1 <=> HeadAt(k, o) < j \/ HeadAt(k, o) = j
    BY <1>3, <1>4
  <2>4. k = i => HeadAt(k, o) # j
    BY <1>3, <1>4, <2>1
  <2> QED BY <1>2, <2>1, <2>2, <2>3, <2>4 DEF Handled
<1>9. CASE NextRecord
  <2>1. /\ pc = "totals" /\ j' = 1 /\ i <= Len(records) /\ j > Len(records[i].readings)
        /\ \/ i < Len(records) /\ i' = i + 1 /\ pc' = "totals"
           \/ ~(i < Len(records)) /\ pc' = "conclude"
    BY <1>9 DEF NextRecord
  <2>0. ~TotalRegister
    <3>1. i \in DOMAIN records
      BY <1>3, <2>1
    <3>2. Len(records[i].readings) \in Nat
      BY <3>1 DEF Typed, TypeOK, Record
    <3>3. TotalRegister => j <= Len(records[i].readings)
      BY DEF TotalRegister, AtReading
    <3> QED BY <1>3, <2>1, <3>2, <3>3
  <2>2. k = i => HeadAt(k, o) < j
    BY <1>3, <1>4, <2>1
  <2>3. Handled(k, o) <=> HeadAt(k, o) # 0 /\ (k < i \/ k = i)
    BY <2>1, <2>2 DEF Handled
  <2>4. CASE pc' = "totals"
    <3>1. k < i' <=> k < i \/ k = i
      BY <1>3, <2>1, <2>4
    <3>2. HeadAt(k, o) # 0 => ~(HeadAt(k, o) < 1)
      BY <1>4
    <3> QED BY <1>2, <2>0, <2>1, <2>3, <2>4, <3>1, <3>2 DEF Handled
  <2>5. CASE pc' = "conclude"
    <3>1. k < i \/ k = i
      BY <1>3, <2>1, <2>5
    <3> QED BY <1>2, <2>0, <2>1, <2>3, <2>5, <3>1 DEF Handled
  <2> QED BY <2>1, <2>4, <2>5
<1>10. CASE Conclude
  <2>1. pc = "conclude" /\ pc' = "done" /\ ~TotalRegister
    BY <1>10 DEF Conclude, TotalRegister, AtReading
  <2> QED BY <1>2, <2>1 DEF Handled
<1> QED BY <1>5, <1>6, <1>7, <1>8, <1>9, <1>10 DEF Check

\* The total a register begins with in record k.
Fresh(k, o) == [begin |-> OpeningAt(k, o).value, end |-> OpeningAt(k, o).value,
                delta |-> 0, unit |-> OpeningAt(k, o).unit]

\* What opens and closes in a record is typed.
LEMMA EndsAreTyped ==
  ASSUME Typed, NEW k \in DOMAIN records, NEW o \in Registers
  PROVE  /\ OpensAt(k, o) => /\ OpeningAt(k, o).value \in Int /\ OpeningAt(k, o).unit \in Unit
                             /\ OpeningAt(k, o).time # NONE => OpeningAt(k, o).time.ms \in Int
                             /\ Fresh(k, o) \in Total /\ HeadAt(k, o) # 0
         /\ ClosesAt(k, o) => /\ ClosingAt(k, o).value \in Int
                              /\ ClosingAt(k, o).time # NONE => ClosingAt(k, o).time.ms \in Int
                              /\ HeadAt(k, o) # 0
<1>1. records[k] \in Record
  BY DEF Typed, TypeOK
<1>2. \A m \in DOMAIN records[k].readings : records[k].readings[m] \in CheckedReading
  BY <1>1 DEF Record
<1>3. \A m \in DOMAIN records[k].readings :
        LET x == records[k].readings[m]
        IN /\ x.value # NONE => x.value \in Int
           /\ x.unit # NONE => x.unit \in Unit
           /\ x.time # NONE => x.time.ms \in Int
  BY <1>2 DEF CheckedReading, Option, Time
<1>4. /\ Opens(records[k], o, kind) # 0 => Opens(records[k], o, kind) \in DOMAIN records[k].readings
      /\ Closes(records[k], o, kind) # 0 => Closes(records[k], o, kind) \in DOMAIN records[k].readings
  BY <1>1, EndsAreReadings
<1>5. OpensAt(k, o) => /\ OpeningAt(k, o).value \in Int /\ OpeningAt(k, o).unit \in Unit
                       /\ OpeningAt(k, o).time # NONE => OpeningAt(k, o).time.ms \in Int
  BY <1>3, <1>4 DEF OpensAt, OpeningAt
<1>6. ClosesAt(k, o) => /\ ClosingAt(k, o).value \in Int
                        /\ ClosingAt(k, o).time # NONE => ClosingAt(k, o).time.ms \in Int
  BY <1>3, <1>4 DEF ClosesAt, ClosingAt
<1>7. OpensAt(k, o) => Fresh(k, o) \in Total
  BY <1>5 DEF Fresh, Total
<1>8. OpensAt(k, o) \/ ClosesAt(k, o) => HeadAt(k, o) # 0
  BY <1>1, HeadsAreReadings DEF OpensAt, ClosesAt, HeadAt
<1> QED BY <1>5, <1>6, <1>7, <1>8

\* TotalRegister begins a total exactly where Begun says, and ends one exactly
\* where PairsAt says.
LEMMA RegisterIsHandled ==
  ASSUME Typed, TotalsSoFar, TotalRegister, NEW o, o = records[i].readings[j].obis
  PROVE  LET t == IF Begun(i, o) THEN Fresh(i, o) ELSE totals[o]
         IN /\ i \in DOMAIN records /\ o \in Registers /\ HeadAt(i, o) = j
            /\ \A k \in DOMAIN records : \A p \in Registers :
                 Handled(k, p) => k < i \/ (k = i /\ HeadAt(k, p) < j)
            /\ totals[o] = NONE <=> \A m \in 1 .. i - 1 : ~OpensAt(m, o)
            /\ totals' = [totals EXCEPT ![o] =
                 IF PairsAt(i, o) THEN Closed(t, ClosingAt(i, o).value) ELSE t]
            /\ beginTime' = IF Begun(i, o) /\ beginTime = NONE /\ OpeningAt(i, o).time # NONE
                              THEN OpeningAt(i, o).time.ms ELSE beginTime
            /\ endTime' = IF PairsAt(i, o) /\ ClosingAt(i, o).time # NONE
                            THEN ClosingAt(i, o).time.ms ELSE endTime
            /\ unpaired' = unpaired \union {p \in {o} : ClosesAt(i, o) /\ ~PairsAt(i, o)}
            /\ pc' = pc /\ pc = "totals" /\ records' = records /\ kind' = kind /\ i' = i
<1> DEFINE r == records[i].readings
           b == Opens(records[i], o, kind)
           e == Closes(records[i], o, kind)
           Opening == b # 0 /\ r[b].value # NONE /\ r[b].unit # NONE /\ totals[o] = NONE
           fresh == [begin |-> r[b].value, end |-> r[b].value, delta |-> 0, unit |-> r[b].unit]
           opened == IF Opening THEN [totals EXCEPT ![o] = fresh] ELSE totals
           Closing == e # 0 /\ r[e].value # NONE
           Pairing == Closing /\ opened[o] # NONE
<1>1. /\ totals' = IF Pairing THEN [opened EXCEPT ![o] = Closed(@, r[e].value)] ELSE opened
      /\ beginTime' = IF Opening /\ beginTime = NONE /\ r[b].time # NONE
                        THEN r[b].time.ms ELSE beginTime
      /\ endTime' = IF Pairing /\ r[e].time # NONE THEN r[e].time.ms ELSE endTime
      /\ unpaired' = IF Closing /\ ~Pairing THEN unpaired \union {o} ELSE unpaired
      /\ UNCHANGED <<pc, i, records, kind, findings>>
  BY DEF TotalRegister
<1>2. i \in DOMAIN records /\ j \in DOMAIN r /\ j \in Heads(records[i]) /\ pc = "totals"
  BY DEF TotalRegister, AtReading, Typed, TypeOK, Heads
<1>3. records[i] \in Record /\ r \in Seq(CheckedReading)
  <2>1. records[i] \in Record
    BY <1>2 DEF Typed, TypeOK
  <2> QED BY <2>1 DEF Record
<1>4. o \in Registers /\ HeadAt(i, o) = j
  <2>1. o # NONE /\ HeadAt(i, o) = j
    BY <1>2 DEF Heads, HeadAt
  <2>2. r[j] \in CheckedReading
    BY <1>2, <1>3
  <2>3. r[j].obis \in Registers \union {NONE}
    BY <2>2 DEF CheckedReading, Option
  <2> QED BY <2>1, <2>3
<1>5. /\ DOMAIN records = 1 .. Len(records) /\ Len(records) \in Nat /\ i \in Nat /\ j \in Nat
      /\ totals \in [Registers -> Option(Total)]
  BY DEF Typed, TypeOK
<1>6. \A k \in DOMAIN records : \A p \in Registers :
        Handled(k, p) => k < i \/ (k = i /\ HeadAt(k, p) < j)
  BY <1>2 DEF Handled
<1>7. \A k \in 1 .. i - 1 : OpensAt(k, o) => k \in DOMAIN records /\ Handled(k, o)
  <2> SUFFICES ASSUME NEW k \in 1 .. i - 1, OpensAt(k, o)
               PROVE  k \in DOMAIN records /\ Handled(k, o)
    OBVIOUS
  <2>1. k \in DOMAIN records /\ k < i
    BY <1>2, <1>5
  <2> QED BY <1>2, <1>4, <2>1, EndsAreTyped DEF Handled
<1>8. totals[o] = NONE <=> \A m \in 1 .. i - 1 : ~OpensAt(m, o)
  <2>1. TotalSoFar(o)
    BY <1>4 DEF TotalsSoFar
  <2>2. ASSUME totals[o] = NONE, NEW m \in 1 .. i - 1 PROVE ~OpensAt(m, o)
    BY <1>7, <2>1, <2>2 DEF TotalSoFar
  <2>3. ASSUME totals[o] # NONE PROVE \E m \in 1 .. i - 1 : OpensAt(m, o)
    <3>1. PICK s \in DOMAIN records : Handled(s, o) /\ Begun(s, o)
      BY <2>1, <2>3 DEF TotalSoFar
    <3>2. s < i
      BY <1>4, <1>5, <1>6, <3>1
    <3> QED BY <1>5, <3>1, <3>2 DEF Begun
  <2> QED BY <2>2, <2>3
<1>9. Opening <=> Begun(i, o)
  BY <1>8 DEF Begun, OpensAt, OpeningAt
<1>10. Closing <=> ClosesAt(i, o)
  BY DEF ClosesAt, ClosingAt
<1>11. r[b] = OpeningAt(i, o) /\ r[e] = ClosingAt(i, o) /\ fresh = Fresh(i, o)
  BY DEF OpeningAt, ClosingAt, Fresh
<1> HIDE DEF r, b, e, Opening, Closing, fresh
<1>12. Opening => fresh \in Total /\ fresh # NONE
  <2>1. Opening => OpensAt(i, o)
    BY <1>9 DEF Begun
  <2> QED BY <1>2, <1>4, <1>11, <2>1, EndsAreTyped, NoTotalAssumption
<1> DEFINE t == IF Opening THEN fresh ELSE totals[o]
<1>13. opened = [totals EXCEPT ![o] = t] /\ opened[o] = t
  BY <1>4, <1>5
<1>14. t # NONE <=> Opening \/ totals[o] # NONE
  BY <1>12
<1>15. Closing => (t # NONE <=> \E m \in 1 .. i : OpensAt(m, o))
  <2>1. \A m \in 1 .. i : m \in 1 .. i - 1 \/ m = i
    BY <1>5
  <2>2. i \in 1 .. i /\ \A m \in 1 .. i - 1 : m \in 1 .. i
    BY <1>2, <1>5
  <2>3. t # NONE <=> OpensAt(i, o) \/ \E m \in 1 .. i - 1 : OpensAt(m, o)
    BY <1>8, <1>9, <1>14 DEF Begun
  <2> QED BY <2>1, <2>2, <2>3
<1>16. Pairing <=> PairsAt(i, o)
  BY <1>10, <1>13, <1>15 DEF PairsAt
<1>17. t = IF Begun(i, o) THEN Fresh(i, o) ELSE totals[o]
  BY <1>9, <1>11
<1>18. totals' = [totals EXCEPT ![o] = IF Pairing THEN Closed(t, r[e].value) ELSE t]
  <2> HIDE DEF t
  <2>1. opened \in [Registers -> Option(Total) \union {t}]
    BY <1>4, <1>5, <1>13
  <2>2. totals' = IF Pairing THEN [opened EXCEPT ![o] = Closed(opened[o], r[e].value)] ELSE opened
    BY <1>1
  <2> HIDE DEF opened, Pairing
  <2> QED BY <1>4, <1>5, <1>13, <2>1, <2>2
<1> HIDE DEF opened, Pairing, t
<1>19. totals' = [totals EXCEPT ![o] =
         IF PairsAt(i, o)
           THEN Closed(IF Begun(i, o) THEN Fresh(i, o) ELSE totals[o], ClosingAt(i, o).value)
           ELSE IF Begun(i, o) THEN Fresh(i, o) ELSE totals[o]]
  BY <1>11, <1>16, <1>17, <1>18
<1>20. beginTime' = IF Begun(i, o) /\ beginTime = NONE /\ OpeningAt(i, o).time # NONE
                      THEN OpeningAt(i, o).time.ms ELSE beginTime
  BY <1>1, <1>9, <1>11
<1>21. endTime' = IF PairsAt(i, o) /\ ClosingAt(i, o).time # NONE
                    THEN ClosingAt(i, o).time.ms ELSE endTime
  BY <1>1, <1>11, <1>16
<1>22. unpaired' = unpaired \union {p \in {o} : ClosesAt(i, o) /\ ~PairsAt(i, o)}
  BY <1>1, <1>10, <1>16
<1> QED BY <1>1, <1>2, <1>4, <1>6, <1>8, <1>19, <1>20, <1>21, <1>22

\* A step that changes no record keeps what opens and closes in each.
LEMMA RecordsSayTheSame ==
  ASSUME records' = records, kind' = kind, NEW k, NEW o
  PROVE  /\ HeadAt(k, o)' = HeadAt(k, o)
         /\ OpeningAt(k, o)' = OpeningAt(k, o) /\ ClosingAt(k, o)' = ClosingAt(k, o)
         /\ OpensAt(k, o)' <=> OpensAt(k, o)
         /\ ClosesAt(k, o)' <=> ClosesAt(k, o)
         /\ Begun(k, o)' <=> Begun(k, o)
         /\ PairsAt(k, o)' <=> PairsAt(k, o)
  BY DEF HeadAt, OpeningAt, ClosingAt, OpensAt, ClosesAt, Begun, PairsAt

\* The total of the register handled.
LEMMA HandledTotal ==
  ASSUME Typed, TotalsSoFar, TotalRegister, NEW o, o = records[i].readings[j].obis
  PROVE  TotalSoFar(o)'
<1> DEFINE t == IF Begun(i, o) THEN Fresh(i, o) ELSE totals[o]
           T == totals'[o]
           H(k) == Handled(k, o) \/ k = i
<1>1. /\ i \in DOMAIN records /\ o \in Registers
      /\ \A k \in DOMAIN records : \A p \in Registers :
           Handled(k, p) => k < i \/ (k = i /\ HeadAt(k, p) < j)
      /\ totals[o] = NONE <=> \A m \in 1 .. i - 1 : ~OpensAt(m, o)
      /\ totals' = [totals EXCEPT ![o] =
           IF PairsAt(i, o) THEN Closed(t, ClosingAt(i, o).value) ELSE t]
      /\ pc = "totals" /\ records' = records /\ kind' = kind /\ HeadAt(i, o) = j
  BY RegisterIsHandled
<1>2. /\ DOMAIN records = 1 .. Len(records) /\ Len(records) \in Nat /\ i \in Nat /\ i >= 1
      /\ j \in Nat /\ totals \in [Registers -> Option(Total)]
  BY <1>1 DEF Typed, TypeOK
<1>3. T = IF PairsAt(i, o) THEN Closed(t, ClosingAt(i, o).value) ELSE t
  BY <1>1, <1>2
<1>4. \A k \in DOMAIN records : Handled(k, o)' <=> H(k)
  BY <1>1, HandledAdds DEF Check
<1>5. \A k \in DOMAIN records : Handled(k, o) => k < i
  BY <1>1, <1>2
<1>6. TotalSoFar(o)
  BY <1>1 DEF TotalsSoFar
<1>7. \A k : /\ OpeningAt(k, o)' = OpeningAt(k, o) /\ ClosingAt(k, o)' = ClosingAt(k, o)
             /\ OpensAt(k, o)' <=> OpensAt(k, o)
             /\ Begun(k, o)' <=> Begun(k, o)
             /\ PairsAt(k, o)' <=> PairsAt(k, o)
  BY <1>1, RecordsSayTheSame
<1> HIDE DEF t, T, H
<1>8. ASSUME totals[o] = NONE, ~Begun(i, o)
      PROVE  T = NONE /\ \A k \in DOMAIN records : H(k) => ~OpensAt(k, o)
  <2>1. ~OpensAt(i, o)
    BY <1>1, <1>8 DEF Begun
  <2>2. \A m \in 1 .. i : ~OpensAt(m, o)
    <3>1. \A m \in 1 .. i : m \in 1 .. i - 1 \/ m = i
      BY <1>2
    <3> QED BY <1>1, <1>8, <2>1, <3>1
  <2>3. ~PairsAt(i, o)
    BY <2>2 DEF PairsAt
  <2>4. T = NONE
    BY <1>3, <1>8, <2>3 DEF t
  <2> QED BY <1>6, <1>8, <2>1, <2>4 DEF H, TotalSoFar
<1>9. ASSUME totals[o] # NONE \/ Begun(i, o)
      PROVE  /\ t \in Total
             /\ \E s \in DOMAIN records :
                  /\ H(s) /\ Begun(s, o)
                  /\ t.begin = OpeningAt(s, o).value /\ t.unit = OpeningAt(s, o).unit
             /\ \/ t.end = t.begin /\ \A c \in DOMAIN records : Handled(c, o) => ~PairsAt(c, o)
                \/ \E c \in DOMAIN records :
                     /\ Handled(c, o) /\ PairsAt(c, o) /\ t.end = ClosingAt(c, o).value
                     /\ \A d \in DOMAIN records : Handled(d, o) /\ PairsAt(d, o) => d <= c
             /\ t.delta = t.end - t.begin
  <2>1. CASE Begun(i, o)
    <3>1. t = Fresh(i, o) /\ OpensAt(i, o)
      BY <2>1 DEF t, Begun
    <3>2. t \in Total /\ t.begin \in Int
      BY <1>1, <3>1, EndsAreTyped DEF Total
    <3>3. t.begin = OpeningAt(i, o).value /\ t.unit = OpeningAt(i, o).unit
          /\ t.end = t.begin /\ t.delta = 0
      BY <3>1 DEF Fresh
    <3>4. \A c \in DOMAIN records : Handled(c, o) => ~PairsAt(c, o)
      <4> SUFFICES ASSUME NEW c \in DOMAIN records, c < i, NEW m \in 1 .. c, OpensAt(m, o)
                   PROVE  FALSE
        BY <1>5 DEF PairsAt
      <4>1. m \in 1 .. i - 1
        BY <1>2
      <4> QED BY <2>1, <4>1 DEF Begun
    <3>5. t.delta = t.end - t.begin
      BY <3>2, <3>3
    <3> QED BY <1>1, <2>1, <3>2, <3>3, <3>4, <3>5 DEF H
  <2>2. CASE ~Begun(i, o)
    <3>1. t = totals[o] /\ t # NONE
      BY <1>9, <2>2 DEF t
    <3>2. t \in Total
      BY <1>1, <1>2, <3>1 DEF Option
    <3> QED BY <1>6, <3>1, <3>2 DEF TotalSoFar, H
  <2> QED BY <2>1, <2>2
<1>10. ASSUME totals[o] # NONE \/ Begun(i, o)
       PROVE  /\ T # NONE
              /\ \E s \in DOMAIN records :
                   /\ H(s) /\ Begun(s, o)
                   /\ T.begin = OpeningAt(s, o).value /\ T.unit = OpeningAt(s, o).unit
              /\ \/ T.end = T.begin /\ \A c \in DOMAIN records : H(c) => ~PairsAt(c, o)
                 \/ \E c \in DOMAIN records :
                      /\ H(c) /\ PairsAt(c, o) /\ T.end = ClosingAt(c, o).value
                      /\ \A d \in DOMAIN records : H(d) /\ PairsAt(d, o) => d <= c
              /\ T.delta = T.end - T.begin
  <2>1. CASE PairsAt(i, o)
    <3> DEFINE v == ClosingAt(i, o).value
    <3>1. T = Closed(t, v) /\ t \in Total
      BY <1>3, <1>9, <1>10, <2>1
    <3>2. v \in Int
      BY <1>1, <2>1, EndsAreTyped DEF PairsAt
    <3>3. ASSUME NEW x \in Total, NEW w \in Int
          PROVE  /\ Closed(x, w).begin = x.begin /\ Closed(x, w).end = w
                 /\ Closed(x, w).delta = w - x.begin /\ Closed(x, w).unit = x.unit
                 /\ Closed(x, w) \in Total
      <4>1. x.begin \in Int /\ w - x.begin \in Int
        BY DEF Total
      <4>2. [x EXCEPT !.end = w] \in Total
        BY DEF Total
      <4>3. ASSUME NEW y \in Total, NEW d \in Int PROVE [y EXCEPT !.delta = d] \in Total
        BY DEF Total
      <4>4. Closed(x, w) = [[x EXCEPT !.end = w] EXCEPT !.delta = w - x.begin]
        BY DEF Closed
      <4> QED BY <4>1, <4>2, <4>3, <4>4 DEF Total
    <3> HIDE DEF v
    <3>4. T.begin = t.begin /\ T.end = v /\ T.delta = v - t.begin /\ T.unit = t.unit /\ T \in Total
      BY <3>1, <3>2, <3>3
    <3>5. T # NONE
      BY <3>4, NoTotalAssumption
    <3>6. \E s \in DOMAIN records :
            /\ H(s) /\ Begun(s, o)
            /\ T.begin = OpeningAt(s, o).value /\ T.unit = OpeningAt(s, o).unit
      BY <1>9, <1>10, <3>4
    <3>7. H(i) /\ PairsAt(i, o) /\ T.end = ClosingAt(i, o).value
      BY <2>1, <3>4 DEF H, v
    <3>8. \A d \in DOMAIN records : H(d) => d <= i
      BY <1>2, <1>5 DEF H
    <3> QED BY <1>1, <3>4, <3>5, <3>6, <3>7, <3>8
  <2>2. CASE ~PairsAt(i, o)
    <3>1. T = t
      BY <1>3, <2>2
    <3>2. T # NONE
      BY <1>9, <1>10, <3>1, NoTotalAssumption
    <3>3. \A c \in DOMAIN records : H(c) /\ PairsAt(c, o) <=> Handled(c, o) /\ PairsAt(c, o)
      BY <2>2 DEF H
    <3> QED BY <1>9, <1>10, <3>1, <3>2, <3>3
  <2> QED BY <2>1, <2>2
<1> QED BY <1>1, <1>4, <1>7, <1>8, <1>10 DEF TotalSoFar, T

\* Registers, totals and what is left unpaired are kept by every step.
LEMMA TotalsStep ==
  ASSUME Typed, TotalsSoFar, Step
  PROVE  TotalsSoFar'
<1>0. TypeOK'
  BY TypeStep
<1>1. CASE UNCHANGED vars
  <2>1. records' = records /\ kind' = kind /\ totals' = totals /\ unpaired' = unpaired
        /\ pc' = pc /\ i' = i /\ j' = j
    BY <1>1 DEF vars, ledger
  <2>2. \A k, o : HeadAt(k, o)' = HeadAt(k, o) /\ OpeningAt(k, o)' = OpeningAt(k, o)
          /\ ClosingAt(k, o)' = ClosingAt(k, o) /\ (OpensAt(k, o)' <=> OpensAt(k, o))
          /\ (ClosesAt(k, o)' <=> ClosesAt(k, o)) /\ (Begun(k, o)' <=> Begun(k, o))
          /\ (PairsAt(k, o)' <=> PairsAt(k, o))
    BY <2>1, RecordsSayTheSame
  <2>3. \A k, o : Handled(k, o)' <=> Handled(k, o)
    BY <2>1, <2>2 DEF Handled
  <2> QED BY <2>1, <2>2, <2>3 DEF TotalsSoFar, TotalSoFar
<1>2. ASSUME NEW rs \in Seq(Record), Validate(rs) PROVE TotalsSoFar'
  <2>1. /\ j' = 1 /\ totals' = [o \in Registers |-> NONE] /\ unpaired' = {} /\ records' = rs
        /\ pc' # "markers" /\ (rs = <<>> \/ pc' = "readable")
    BY <1>2 DEF Validate, Typed, Untouched, ledger
  <2>2. \A k \in DOMAIN rs, o \in Registers : ~Handled(k, o)'
    <3>1. rs = <<>> => DOMAIN rs = {}
      OBVIOUS
    <3> QED BY <2>1, <3>1 DEF Handled
  <2> QED BY <2>1, <2>2 DEF TotalsSoFar, TotalSoFar
<1>3. CASE Check
  <2>1. records' = records /\ kind' = kind
    BY <1>3, LoopsAdvance, LoopsLeave, OthersFind DEF Check
  <2>2. \A k, o : HeadAt(k, o)' = HeadAt(k, o) /\ OpeningAt(k, o)' = OpeningAt(k, o)
          /\ ClosingAt(k, o)' = ClosingAt(k, o) /\ (OpensAt(k, o)' <=> OpensAt(k, o))
          /\ (ClosesAt(k, o)' <=> ClosesAt(k, o)) /\ (Begun(k, o)' <=> Begun(k, o))
          /\ (PairsAt(k, o)' <=> PairsAt(k, o))
    BY <2>1, RecordsSayTheSame
  <2>3. (pc' \notin Concluding => j' = 1) /\ (pc' = "markers" => i' = 1)
    <3>1. CASE CheckReadable \/ CheckPair \/ CheckSource \/ CheckRepeat \/ ScanRecord
      <4>1. j' = 1
        BY <3>1, LoopsLeave DEF TotalsSoFar
      <4>2. pc' = "markers" => i' = 1
        BY <3>1 DEF CheckReadable, CheckPair, CheckSource, CheckRepeat, ScanRecord, Pass
      <4> QED BY <4>1, <4>2
    <3>2. CASE CheckMarkers \/ TotalRegister \/ PassReading \/ NextRecord \/ Conclude
      BY <3>2, OthersFind DEF Concluding
    <3> QED BY <1>3, <3>1, <3>2 DEF Check
  <2>4. CASE TotalRegister
    <3>0. PICK o : o = records[i].readings[j].obis
      OBVIOUS
    <3>1. /\ i \in DOMAIN records /\ o \in Registers
          /\ totals' = [totals EXCEPT ![o] = totals'[o]]
          /\ unpaired' = unpaired \union {p \in {o} : ClosesAt(i, o) /\ ~PairsAt(i, o)}
      <4>1. PICK t : totals' = [totals EXCEPT ![o] = t]
        BY <2>4, <3>0, RegisterIsHandled
      <4>2. o \in Registers /\ i \in DOMAIN records
        BY <2>4, <3>0, RegisterIsHandled
      <4>3. totals'[o] = t
        BY <4>1, <4>2 DEF Typed, TypeOK
      <4> QED BY <2>4, <3>0, <4>1, <4>2, <4>3, RegisterIsHandled
    <3>2. TotalSoFar(o)'
      BY <2>4, <3>0, HandledTotal
    <3>3. \A k \in DOMAIN records, p \in Registers :
            Handled(k, p)' <=> Handled(k, p) \/ (k = i /\ p = o)
      BY <1>3, <2>4, <3>0, HandledAdds
    <3>4. ASSUME NEW p \in Registers, p # o PROVE TotalSoFar(p)'
      <4>1. totals'[p] = totals[p]
        BY <3>1, <3>4 DEF Typed, TypeOK
      <4>2. \A k \in DOMAIN records : Handled(k, p)' <=> Handled(k, p)
        BY <3>3, <3>4
      <4>3. TotalSoFar(p)
        BY DEF TotalsSoFar
      <4> QED BY <2>1, <2>2, <4>1, <4>2, <4>3 DEF TotalSoFar
    <3>5. \A p \in Registers : TotalSoFar(p)'
      BY <3>2, <3>4
    <3>6. unpaired' = {p \in Registers : \E k \in DOMAIN records :
                         Handled(k, p)' /\ ClosesAt(k, p) /\ ~PairsAt(k, p)}
      BY <3>1, <3>3 DEF TotalsSoFar
    <3> QED BY <2>1, <2>2, <2>3, <3>5, <3>6 DEF TotalsSoFar
  <2>5. CASE ~TotalRegister
    <3>1. totals' = totals /\ unpaired' = unpaired
      <4>1. CASE CheckReadable \/ CheckPair \/ CheckSource \/ CheckRepeat \/ ScanRecord
        BY <4>1, LoopsLeave DEF ledger
      <4>2. CASE CheckMarkers \/ PassReading \/ NextRecord \/ Conclude
        BY <4>2 DEF CheckMarkers, PassReading, NextRecord, Conclude, ledger
      <4> QED BY <1>3, <2>5, <4>1, <4>2 DEF Check
    <3>2. \A k \in DOMAIN records, p \in Registers : Handled(k, p)' <=> Handled(k, p)
      BY <1>3, <2>5, HandledAdds
    <3>3. \A p \in Registers : TotalSoFar(p)'
      <4> SUFFICES ASSUME NEW p \in Registers PROVE TotalSoFar(p)'
        OBVIOUS
      <4>1. TotalSoFar(p)
        BY DEF TotalsSoFar
      <4> QED BY <2>1, <2>2, <3>1, <3>2, <4>1 DEF TotalSoFar
    <3>4. unpaired' = {p \in Registers : \E k \in DOMAIN records :
                         Handled(k, p)' /\ ClosesAt(k, p) /\ ~PairsAt(k, p)}
      BY <3>1, <3>2 DEF TotalsSoFar
    <3> QED BY <2>1, <2>2, <2>3, <3>3, <3>4 DEF TotalsSoFar
  <2> QED BY <2>4, <2>5
<1> QED BY <1>1, <1>2, <1>3 DEF Step

-----------------------------------------------------------------------------
(***************************************************************************)
(* The stamps.                                                             *)
(***************************************************************************)
BeginStamped(k, o) == Begun(k, o) /\ OpeningAt(k, o).time # NONE
EndStamped(k, o)   == PairsAt(k, o) /\ ClosingAt(k, o).time # NONE

\* Register o of record k is handled no later than register p of record m.
NoLater(k, o, m, p) == k < m \/ (k = m /\ HeadAt(k, o) <= HeadAt(m, p))

\* The first stamp a total begins with, and the last one ends with, so far.
StampsSoFar ==
  /\ IF beginTime = NONE
       THEN \A k \in DOMAIN records, o \in Registers : Handled(k, o) => ~BeginStamped(k, o)
       ELSE \E k \in DOMAIN records, o \in Registers :
              /\ Handled(k, o) /\ BeginStamped(k, o) /\ beginTime = OpeningAt(k, o).time.ms
              /\ \A m \in DOMAIN records, p \in Registers :
                   Handled(m, p) /\ BeginStamped(m, p) => NoLater(k, o, m, p)
  /\ IF endTime = NONE
       THEN \A k \in DOMAIN records, o \in Registers : Handled(k, o) => ~EndStamped(k, o)
       ELSE \E k \in DOMAIN records, o \in Registers :
              /\ Handled(k, o) /\ EndStamped(k, o) /\ endTime = ClosingAt(k, o).time.ms
              /\ \A m \in DOMAIN records, p \in Registers :
                   Handled(m, p) /\ EndStamped(m, p) => NoLater(m, p, k, o)

\* The register handled is the last so far, and its stamps are taken in turn.
LEMMA HandledStamps ==
  ASSUME Typed, TotalsSoFar, StampsSoFar, TotalRegister
  PROVE  StampsSoFar'
<1> DEFINE o == records[i].readings[j].obis
<1>1. /\ i \in DOMAIN records /\ o \in Registers /\ HeadAt(i, o) = j
      /\ \A k \in DOMAIN records : \A p \in Registers :
           Handled(k, p) => k < i \/ (k = i /\ HeadAt(k, p) < j)
      /\ beginTime' = IF Begun(i, o) /\ beginTime = NONE /\ OpeningAt(i, o).time # NONE
                        THEN OpeningAt(i, o).time.ms ELSE beginTime
      /\ endTime' = IF PairsAt(i, o) /\ ClosingAt(i, o).time # NONE
                      THEN ClosingAt(i, o).time.ms ELSE endTime
      /\ records' = records /\ kind' = kind
  BY RegisterIsHandled
<1>2. \A k \in DOMAIN records, p \in Registers :
        Handled(k, p)' <=> Handled(k, p) \/ (k = i /\ p = o)
  BY HandledAdds DEF Check
<1>3. \A k, p : /\ OpeningAt(k, p)' = OpeningAt(k, p) /\ ClosingAt(k, p)' = ClosingAt(k, p)
                /\ BeginStamped(k, p)' <=> BeginStamped(k, p)
                /\ EndStamped(k, p)' <=> EndStamped(k, p)
                /\ \A m, q : NoLater(k, p, m, q)' <=> NoLater(k, p, m, q)
  BY <1>1, RecordsSayTheSame DEF BeginStamped, EndStamped, NoLater
<1>4. \A k \in DOMAIN records : \A p \in Registers :
        Handled(k, p) \/ (k = i /\ p = o) => NoLater(k, p, i, o)
  <2>1. \A k \in DOMAIN records : \A p \in Registers : HeadAt(k, p) \in Int
    <3> SUFFICES ASSUME NEW k \in DOMAIN records, NEW p \in Registers PROVE HeadAt(k, p) \in Int
      OBVIOUS
    <3>1. records[k] \in Record
      BY DEF Typed, TypeOK
    <3> QED BY <3>1, HeadsAreReadings DEF HeadAt
  <2>2. j \in Int /\ \A k \in DOMAIN records : k \in Int
    BY DEF Typed, TypeOK
  <2> HIDE DEF o
  <2> QED BY <1>1, <2>1, <2>2 DEF NoLater
<1>5. /\ BeginStamped(i, o) => OpeningAt(i, o).time.ms # NONE
      /\ EndStamped(i, o) => ClosingAt(i, o).time.ms # NONE
  BY <1>1, EndsAreTyped, AbsenceAssumption DEF BeginStamped, EndStamped, Begun, PairsAt
<1> HIDE DEF o
<1>6. IF beginTime' = NONE
        THEN \A k \in DOMAIN records, p \in Registers : Handled(k, p)' => ~BeginStamped(k, p)
        ELSE \E k \in DOMAIN records, p \in Registers :
               /\ Handled(k, p)' /\ BeginStamped(k, p) /\ beginTime' = OpeningAt(k, p).time.ms
               /\ \A m \in DOMAIN records, q \in Registers :
                    Handled(m, q)' /\ BeginStamped(m, q) => NoLater(k, p, m, q)
  <2>1. CASE beginTime = NONE /\ BeginStamped(i, o)
    <3>1. beginTime' = OpeningAt(i, o).time.ms /\ beginTime' # NONE
      BY <1>1, <1>5, <2>1 DEF BeginStamped
    <3>2. \A m \in DOMAIN records, q \in Registers :
            Handled(m, q)' /\ BeginStamped(m, q) => m = i /\ q = o
      BY <1>2, <2>1 DEF StampsSoFar
    <3> QED BY <1>1, <1>2, <1>4, <2>1, <3>1, <3>2
  <2>2. CASE beginTime = NONE /\ ~BeginStamped(i, o)
    BY <1>1, <1>2, <2>2 DEF StampsSoFar, BeginStamped
  <2>3. CASE beginTime # NONE
    <3>1. beginTime' = beginTime
      BY <1>1, <2>3
    <3>2. PICK k \in DOMAIN records : \E p \in Registers :
            /\ Handled(k, p) /\ BeginStamped(k, p) /\ beginTime = OpeningAt(k, p).time.ms
            /\ \A m \in DOMAIN records, q \in Registers :
                 Handled(m, q) /\ BeginStamped(m, q) => NoLater(k, p, m, q)
      BY <2>3 DEF StampsSoFar
    <3>3. PICK p \in Registers :
            /\ Handled(k, p) /\ BeginStamped(k, p) /\ beginTime = OpeningAt(k, p).time.ms
            /\ \A m \in DOMAIN records, q \in Registers :
                 Handled(m, q) /\ BeginStamped(m, q) => NoLater(k, p, m, q)
      BY <3>2
    <3> QED BY <1>2, <1>4, <2>3, <3>1, <3>3
  <2> QED BY <2>1, <2>2, <2>3
<1>7. IF endTime' = NONE
        THEN \A k \in DOMAIN records, p \in Registers : Handled(k, p)' => ~EndStamped(k, p)
        ELSE \E k \in DOMAIN records, p \in Registers :
               /\ Handled(k, p)' /\ EndStamped(k, p) /\ endTime' = ClosingAt(k, p).time.ms
               /\ \A m \in DOMAIN records, q \in Registers :
                    Handled(m, q)' /\ EndStamped(m, q) => NoLater(m, q, k, p)
  <2>1. CASE EndStamped(i, o)
    <3>1. endTime' = ClosingAt(i, o).time.ms /\ endTime' # NONE
      BY <1>1, <1>5, <2>1 DEF EndStamped
    <3> QED BY <1>1, <1>2, <1>4, <2>1, <3>1
  <2>2. CASE ~EndStamped(i, o)
    <3>1. endTime' = endTime
      BY <1>1, <2>2 DEF EndStamped
    <3>2. \A m \in DOMAIN records, q \in Registers :
            Handled(m, q)' /\ EndStamped(m, q) <=> Handled(m, q) /\ EndStamped(m, q)
      BY <1>2, <2>2
    <3> QED BY <3>1, <3>2 DEF StampsSoFar
  <2> QED BY <2>1, <2>2
<1> QED BY <1>1, <1>3, <1>6, <1>7 DEF StampsSoFar

\* No other step touches the stamps.
LEMMA StampsStep ==
  ASSUME Typed, TotalsSoFar, StampsSoFar, Step
  PROVE  StampsSoFar'
<1>1. CASE UNCHANGED vars
  BY <1>1 DEF vars, ledger, StampsSoFar, Handled, BeginStamped, EndStamped, Begun, PairsAt,
     OpensAt, ClosesAt, OpeningAt, ClosingAt, HeadAt, NoLater
<1>2. ASSUME NEW rs \in Seq(Record), Validate(rs) PROVE StampsSoFar'
  <2>1. /\ beginTime' = NONE /\ endTime' = NONE /\ records' = rs
        /\ rs = <<>> \/ pc' = "readable"
    <3>1. pc = "idle" /\ beginTime' = beginTime /\ endTime' = endTime
          /\ records' = rs /\ (rs = <<>> \/ pc' = "readable")
      BY <1>2 DEF Validate, ledger
    <3>2. beginTime = NONE /\ endTime = NONE
      BY <3>1 DEF StampsSoFar, Handled
    <3> QED BY <3>1, <3>2
  <2>2. \A k \in DOMAIN rs, o \in Registers : ~Handled(k, o)'
    <3>1. rs = <<>> => DOMAIN rs = {}
      OBVIOUS
    <3> QED BY <2>1, <3>1 DEF Handled
  <2> QED BY <2>1, <2>2 DEF StampsSoFar
<1>3. CASE TotalRegister
  BY <1>3, HandledStamps
<1>4. CASE Check /\ ~TotalRegister
  <2>1. records' = records /\ kind' = kind
    BY <1>4, LoopsAdvance, LoopsLeave, OthersFind DEF Check
  <2>2. beginTime' = beginTime /\ endTime' = endTime
    <3>1. CASE CheckReadable \/ CheckPair \/ CheckSource \/ CheckRepeat \/ ScanRecord
      BY <3>1, LoopsLeave DEF ledger
    <3>2. CASE CheckMarkers \/ PassReading \/ NextRecord \/ Conclude
      BY <3>2 DEF CheckMarkers, PassReading, NextRecord, Conclude, ledger
    <3> QED BY <1>4, <3>1, <3>2 DEF Check
  <2>3. \A k \in DOMAIN records, p \in Registers : Handled(k, p)' <=> Handled(k, p)
    BY <1>4, HandledAdds
  <2>4. \A k, p : /\ OpeningAt(k, p)' = OpeningAt(k, p) /\ ClosingAt(k, p)' = ClosingAt(k, p)
                  /\ BeginStamped(k, p)' <=> BeginStamped(k, p)
                  /\ EndStamped(k, p)' <=> EndStamped(k, p)
                  /\ \A m, q : NoLater(k, p, m, q)' <=> NoLater(k, p, m, q)
    BY <2>1, RecordsSayTheSame DEF BeginStamped, EndStamped, NoLater
  <2> QED BY <2>1, <2>2, <2>3, <2>4 DEF StampsSoFar
<1> QED BY <1>1, <1>2, <1>3, <1>4 DEF Step

-----------------------------------------------------------------------------
(***************************************************************************)
(* The report.                                                             *)
(***************************************************************************)

\* The two specifications read a record alike.
LEMMA PromiseReadsAlike ==
  ASSUME NEW r, NEW o, NEW k
  PROVE  /\ Promise!Source(r) = Source(r)
         /\ Promise!PayloadDigest(r) = PayloadDigest(r)
         /\ Promise!IsTransaction(r) <=> IsTransaction(r)
         /\ Promise!Series(r, o) = Series(r, o)
         /\ Promise!Opens(r, o, k) = Opens(r, o, k)
         /\ Promise!Closes(r, o, k) = Closes(r, o, k)
         /\ \A S : Promise!FirstOf(S) = FirstOf(S) /\ Promise!LastOf(S) = LastOf(S)
<1>1. \A S : Promise!FirstOf(S) = FirstOf(S) /\ Promise!LastOf(S) = LastOf(S)
  BY DEF Promise!FirstOf, FirstOf, Promise!LastOf, LastOf
<1>2. Promise!Series(r, o) = Series(r, o)
  BY DEF Promise!Series, Series
<1>3. /\ Promise!Marked(r, o, Promise!IsBegin) = Marked(r, o, IsBegin)
      /\ Promise!Marked(r, o, Promise!IsEnd) = Marked(r, o, IsEnd)
  BY <1>2 DEF Promise!Marked, Marked, Promise!IsBegin, IsBegin, Promise!IsEnd, IsEnd
<1>4. /\ Promise!Opens(r, o, k) = Opens(r, o, k)
      /\ Promise!Closes(r, o, k) = Closes(r, o, k)
  BY <1>1, <1>2, <1>3 DEF Promise!Opens, Opens, Promise!Closes, Closes
<1>5. Promise!Source(r) = Source(r)
  BY DEF Promise!Source, Source
<1>6. Promise!PayloadDigest(r) = PayloadDigest(r)
  BY DEF Promise!PayloadDigest, PayloadDigest
<1>7. Promise!IsTransaction(r) <=> IsTransaction(r)
  BY DEF Promise!IsTransaction, IsTransaction
<1> QED BY <1>1, <1>2, <1>4, <1>5, <1>6, <1>7

\* What the loops find at a record is what the promise finds there.
LEMMA RecordsAreFoundRight ==
  ASSUME Typed
  PROVE  Promise!RecordFindings(records)
           = UNION {UNION {OfReading(k), OfPair(k), OfSource(k), OfRepeat(k), OfScan(k)} :
                      k \in DOMAIN records}
<1> DEFINE N == DOMAIN records
           At(finding, S) == {<<finding, k>> : k \in S}
           Unpaged == {k \in N : records[k].pg = NONE}
           Pairs == {k \in N \ {1} : k \notin Unpaged /\ k - 1 \notin Unpaged}
           Switched == {k \in Pairs : records[k].pg.context # records[k - 1].pg.context}
           Torn == {k \in Pairs \ Switched :
                      records[k].pg.number # (records[k - 1].pg.number + 1) % CounterSize}
<1>1. N = 1 .. Len(records) /\ Len(records) \in Nat
  BY DEF Typed, TypeOK
<1>2. Promise!RecordFindings(records) = UNION {
        At("PaginationUnreadable", Unpaged),
        At("PaginationContextChanged", Switched),
        At("PaginationBroken", Torn),
        At("SourceChanged", {k \in N : Foreign(k)}),
        At("DuplicateRecord", {k \in N : \E m \in N :
             m < k /\ PayloadDigest(records[m]) = PayloadDigest(records[k])}),
        At("IdentificationError", {k \in N : Unassigned(k)}),
        At("MeterNotOk", {k \in N : \E m \in DOMAIN records[k].readings :
             records[k].readings[m].state \notin {NONE, "G"}}),
        At("ErrorFlagged", {k \in N : \E m \in DOMAIN records[k].readings :
             records[k].readings[m].ef # {}}),
        At("TransactionFaulted", {k \in N : \E m \in DOMAIN records[k].readings :
             records[k].readings[m].tx \in {"A", "P", "X"}})}
  BY PromiseReadsAlike
     DEF Promise!RecordFindings, Foreign, Unassigned, Promise!IsLevelError, IsLevelError
<1>3. Unpaged = {k \in N : Unreadable(k)}
  BY DEF Unreadable
<1>4. \A k \in N : k \in Pairs <=> PagedPair(k)
  <2> SUFFICES ASSUME NEW k \in N PROVE k \in Pairs <=> PagedPair(k)
    OBVIOUS
  <2>1. k # 1 <=> k > 1
    BY <1>1
  <2>2. k > 1 => k - 1 \in N
    BY <1>1
  <2> QED BY <2>1, <2>2 DEF PagedPair
<1>5. Switched = {k \in N : Changed(k)}
  BY <1>4 DEF Changed
<1>6. Torn = {k \in N : Broken(k)}
  BY <1>4, <1>5 DEF Changed, Broken, IsFollowedBy
<1>7. \A k \in N : Repeated(k) <=>
        \E m \in N : m < k /\ PayloadDigest(records[m]) = PayloadDigest(records[k])
  <2> SUFFICES ASSUME NEW k \in N
               PROVE  \A m : m \in 1 .. k - 1 <=> m \in N /\ m < k
    BY DEF Repeated
  <2> QED BY <1>1
<1>8. \A k \in N :
        /\ NotGood(k) <=> \E m \in DOMAIN records[k].readings :
                            records[k].readings[m].state \notin {NONE, "G"}
        /\ Flagged(k) <=> \E m \in DOMAIN records[k].readings : records[k].readings[m].ef # {}
        /\ Faulted(k) <=> \E m \in DOMAIN records[k].readings :
                            records[k].readings[m].tx \in {"A", "P", "X"}
  <2>1. NONE \notin {"A", "P", "X"}
    BY AbsenceAssumption DEF Marker
  <2> QED BY <2>1 DEF NotGood, Flagged, Faulted, IsOk, AnyFlag, IsFault
<1> HIDE DEF Unpaged, Pairs, Switched, Torn
<1>9. Promise!RecordFindings(records) = UNION {
        At("PaginationUnreadable", {k \in N : Unreadable(k)}),
        At("PaginationContextChanged", {k \in N : Changed(k)}),
        At("PaginationBroken", {k \in N : Broken(k)}),
        At("SourceChanged", {k \in N : Foreign(k)}),
        At("DuplicateRecord", {k \in N : Repeated(k)}),
        At("IdentificationError", {k \in N : Unassigned(k)}),
        At("MeterNotOk", {k \in N : NotGood(k)}),
        At("ErrorFlagged", {k \in N : Flagged(k)}),
        At("TransactionFaulted", {k \in N : Faulted(k)})}
  BY <1>2, <1>3, <1>5, <1>6, <1>7, <1>8
<1>10. ASSUME NEW f
       PROVE  f \in Promise!RecordFindings(records) <=>
                \E k \in N : \/ Unreadable(k) /\ f = <<"PaginationUnreadable", k>>
                             \/ Changed(k) /\ f = <<"PaginationContextChanged", k>>
                             \/ Broken(k) /\ f = <<"PaginationBroken", k>>
                             \/ Foreign(k) /\ f = <<"SourceChanged", k>>
                             \/ Repeated(k) /\ f = <<"DuplicateRecord", k>>
                             \/ Unassigned(k) /\ f = <<"IdentificationError", k>>
                             \/ NotGood(k) /\ f = <<"MeterNotOk", k>>
                             \/ Flagged(k) /\ f = <<"ErrorFlagged", k>>
                             \/ Faulted(k) /\ f = <<"TransactionFaulted", k>>
  BY <1>9
<1>11. ASSUME NEW f, NEW k
       PROVE  f \in UNION {OfReading(k), OfPair(k), OfSource(k), OfRepeat(k), OfScan(k)} <=>
                \/ Unreadable(k) /\ f = <<"PaginationUnreadable", k>>
                \/ Changed(k) /\ f = <<"PaginationContextChanged", k>>
                \/ Broken(k) /\ f = <<"PaginationBroken", k>>
                \/ Foreign(k) /\ f = <<"SourceChanged", k>>
                \/ Repeated(k) /\ f = <<"DuplicateRecord", k>>
                \/ Unassigned(k) /\ f = <<"IdentificationError", k>>
                \/ NotGood(k) /\ f = <<"MeterNotOk", k>>
                \/ Flagged(k) /\ f = <<"ErrorFlagged", k>>
                \/ Faulted(k) /\ f = <<"TransactionFaulted", k>>
  BY DEF OfReading, OfPair, OfSource, OfRepeat, OfScan, When
<1>12. \A f : f \in Promise!RecordFindings(records) <=>
         f \in UNION {UNION {OfReading(k), OfPair(k), OfSource(k), OfRepeat(k), OfScan(k)} : k \in N}
  BY <1>10, <1>11
<1> QED BY <1>12

\* The verdict on markers is by their number, and by their place if there is one.
LEMMA MarkersAreJudgedRight ==
  ASSUME NEW letters, NEW place, NEW none, NEW many
  PROVE  MarkerFindings(Promise!Marking(records, letters), place, none, many)
           = Promise!MarkerVerdict(records, letters, place, none, many)
<1> DEFINE M == Promise!Marking(records, letters)
           V == {<<none, NONE>> : x \in {y \in {M} : y = {}}}
                  \union {<<many, NONE>> : x \in {k \in M : \E m \in M : m # k}}
                  \union {<<"MarkerOutOfPlace", k>> : k \in {m \in M : M = {m} /\ m # place}}
<1>1. Promise!MarkerVerdict(records, letters, place, none, many) = V
  BY DEF Promise!MarkerVerdict
<1> HIDE DEF M
<1>2. MarkerFindings(M, place, none, many) = V
  <2>1. CASE M = {}
    BY <2>1 DEF MarkerFindings
  <2>2. CASE M # {} /\ \E only \in M : M = {only}
    <3>1. PICK only \in M : M = {only}
      BY <2>2
    <3>2. MarkerFindings(M, place, none, many) = {<<"MarkerOutOfPlace", k>> : k \in M \ {place}}
      BY <2>2 DEF MarkerFindings
    <3>3. V = {<<"MarkerOutOfPlace", k>> : k \in M \ {place}}
      BY <3>1
    <3> QED BY <3>2, <3>3
  <2>3. CASE M # {} /\ ~\E only \in M : M = {only}
    <3>1. MarkerFindings(M, place, none, many) = {<<many, NONE>>}
      BY <2>3 DEF MarkerFindings
    <3>2. \E k \in M : \E m \in M : m # k
      BY <2>3
    <3>3. V = {<<many, NONE>>}
      BY <2>3, <3>2
    <3> QED BY <3>1, <3>3
  <2> QED BY <2>1, <2>2, <2>3
<1> QED BY <1>1, <1>2 DEF M

\* Everything the steps keep.
Reporting == Typed /\ FindingsSoFar /\ ScannedSoFar /\ TotalsSoFar /\ StampsSoFar

\* At the end begins and ends are the records with a begin, or with an end.
LEMMA MarkingsAreRight ==
  ASSUME Reporting, Answered
  PROVE  /\ begins = Promise!Marking(records, {"B"})
         /\ ends = Promise!Marking(records, {"E", "L", "R", "A", "P"})
<1>1. \A k \in DOMAIN records : IsScanned(k)
  BY DEF Answered, IsScanned, Behind, AfterScan
<1>2. NONE \notin {"B", "E", "L", "R", "A", "P"}
  BY AbsenceAssumption DEF Marker
<1>3. \A k : /\ BeginsIn(k) <=> \E m \in DOMAIN records[k].readings :
                                  records[k].readings[m].tx \in {"B"}
             /\ EndsIn(k) <=> \E m \in DOMAIN records[k].readings :
                                records[k].readings[m].tx \in {"E", "L", "R", "A", "P"}
  BY <1>2 DEF BeginsIn, EndsIn, IsBegin, IsEnd
<1> QED BY <1>1, <1>3 DEF Reporting, ScannedSoFar, Promise!Marking

\* The weakest clock allows a duration exactly if every stamp does, and there is
\* one.
LEMMA ClocksAreJudgedRight ==
  ASSUME Reporting, Answered
  PROVE  Promise!ClockVerdict(records)
           = IF worst = NONE \/ ~DurationIsBillable(worst)
               THEN {<<"ClockNotSynchronised", NONE>>} ELSE {}
<1> DEFINE Stamped == {r \in UNION {{records[k].readings[m] : m \in DOMAIN records[k].readings} :
                                      k \in DOMAIN records} : r.time # NONE}
<1>1. Promise!ClockVerdict(records)
        = IF Stamped # {} /\ \A r \in Stamped : r.time.status \in {"S", "R"}
            THEN {} ELSE {<<"ClockNotSynchronised", NONE>>}
  BY DEF Promise!ClockVerdict
<1>2. \A k \in DOMAIN records : IsScanned(k)
  BY DEF Answered, IsScanned, Behind, AfterScan
<1>3. \A r \in Stamped : \E k \in DOMAIN records : \E m \in DOMAIN records[k].readings :
        r = records[k].readings[m] /\ r.time # NONE
  OBVIOUS
<1>4. \A k \in DOMAIN records : \A m \in DOMAIN records[k].readings :
        records[k].readings[m].time # NONE =>
          /\ records[k].readings[m] \in Stamped
          /\ Letter(records[k].readings[m].time) \in Clocks(records[k])
          /\ Letter(records[k].readings[m].time) \in TimeStatus
          /\ records[k].readings[m].time.status \in TimeStatus \union {NONE}
  <2> SUFFICES ASSUME NEW k \in DOMAIN records, NEW m \in DOMAIN records[k].readings,
                      records[k].readings[m].time # NONE
               PROVE  /\ records[k].readings[m] \in Stamped
                      /\ Letter(records[k].readings[m].time) \in Clocks(records[k])
                      /\ Letter(records[k].readings[m].time) \in TimeStatus
                      /\ records[k].readings[m].time.status \in TimeStatus \union {NONE}
    OBVIOUS
  <2>1. records[k].readings[m].time.status \in TimeStatus \union {NONE}
    BY StampsAreTyped DEF Reporting
  <2>2. Letter(records[k].readings[m].time) \in TimeStatus
    BY <2>1 DEF Letter, TimeStatus
  <2>3. Letter(records[k].readings[m].time) \in Clocks(records[k])
    BY DEF Clocks, Letter
  <2> QED BY <2>1, <2>2, <2>3
<1>5. \A k \in DOMAIN records : \A c \in Clocks(records[k]) :
        \E m \in DOMAIN records[k].readings :
          records[k].readings[m].time # NONE /\ c = Letter(records[k].readings[m].time)
  BY DEF Clocks, Letter
<1>6. NONE \notin TimeStatus /\ worst \in TimeStatus \union {NONE}
  BY AbsenceAssumption DEF Reporting, Typed, TypeOK, Option
<1> HIDE DEF Stamped
<1>7. ASSUME worst # NONE, DurationIsBillable(worst)
      PROVE  Stamped # {} /\ \A r \in Stamped : r.time.status \in {"S", "R"}
  <2>1. worst \in {"S", "R"}
    BY <1>7 DEF DurationIsBillable
  <2>2. Stamped # {}
    BY <1>4, <1>5, <1>7 DEF Reporting, ScannedSoFar
  <2>3. ASSUME NEW r \in Stamped PROVE r.time.status \in {"S", "R"}
    <3>0. PICK k \in DOMAIN records : \E m \in DOMAIN records[k].readings :
            r = records[k].readings[m] /\ r.time # NONE
      BY <1>3
    <3>1. PICK m \in DOMAIN records[k].readings : r = records[k].readings[m] /\ r.time # NONE
      BY <3>0
    <3> DEFINE c == Letter(r.time)
    <3>2. c \in Clocks(records[k]) /\ c \in TimeStatus /\ r.time.status \in TimeStatus \union {NONE}
      BY <1>4, <3>1
    <3>3. Rank(worst) <= Rank(c)
      BY <1>2, <3>2 DEF Reporting, ScannedSoFar
    <3>4. c \in {"S", "R"}
      <4> HIDE DEF c
      <4> QED BY <2>1, <3>2, <3>3, Ranks DEF TimeStatus
    <3> QED BY <3>2, <3>4 DEF Letter
  <2> QED BY <2>2, <2>3
<1>8. ASSUME Stamped # {}, \A r \in Stamped : r.time.status \in {"S", "R"}
      PROVE  worst # NONE /\ DurationIsBillable(worst)
  <2>1. worst # NONE
    <3>1. PICK r \in Stamped : TRUE
      BY <1>8
    <3>0. PICK k \in DOMAIN records : \E m \in DOMAIN records[k].readings :
            r = records[k].readings[m] /\ r.time # NONE
      BY <1>3
    <3>2. PICK m \in DOMAIN records[k].readings : r = records[k].readings[m] /\ r.time # NONE
      BY <3>0
    <3>3. Letter(r.time) \in Clocks(records[k])
      BY <1>4, <3>2
    <3> QED BY <1>2, <3>3 DEF Reporting, ScannedSoFar
  <2>2. PICK k \in DOMAIN records : worst \in Clocks(records[k])
    BY <2>1 DEF Reporting, ScannedSoFar
  <2>3. PICK m \in DOMAIN records[k].readings :
          records[k].readings[m].time # NONE /\ worst = Letter(records[k].readings[m].time)
    BY <1>5, <2>2
  <2>4. records[k].readings[m].time.status \in {"S", "R"}
    BY <1>4, <1>8, <2>3
  <2>5. worst \in {"S", "R"}
    <3>1. records[k].readings[m].time.status # NONE
      BY <1>6, <2>4 DEF TimeStatus
    <3> QED BY <2>3, <2>4, <3>1 DEF Letter
  <2> QED BY <2>1, <2>5 DEF DurationIsBillable
<1> QED BY <1>1, <1>7, <1>8

\* Where the promise begins a total and what it pairs with it.
LEMMA StartsAndPairs ==
  ASSUME Reporting, kind = Promise!KindOf(records), NEW o \in Registers
  PROVE  /\ \A k \in DOMAIN records : k = Promise!Start(records, o) <=> Begun(k, o)
         /\ Promise!Start(records, o) = 0 <=> \A k \in DOMAIN records : ~OpensAt(k, o)
         /\ Promise!Start(records, o) # 0 => Promise!Start(records, o) \in DOMAIN records
         /\ Promise!Closings(records, o) = {k \in DOMAIN records : ClosesAt(k, o)}
         /\ Promise!Paired(records, o) = {k \in DOMAIN records : PairsAt(k, o)}
         /\ \A k : /\ Promise!OpeningOf(records, k, o) = OpeningAt(k, o)
                   /\ Promise!ClosingOf(records, k, o) = ClosingAt(k, o)
<1>1. DOMAIN records = 1 .. Len(records) /\ Len(records) \in Nat
  BY DEF Reporting, Typed, TypeOK
<1>2. \A k : /\ Promise!OpeningOf(records, k, o) = OpeningAt(k, o)
             /\ Promise!ClosingOf(records, k, o) = ClosingAt(k, o)
  BY PromiseReadsAlike DEF Promise!OpeningOf, Promise!ClosingOf, OpeningAt, ClosingAt
<1> DEFINE S == {k \in DOMAIN records : OpensAt(k, o)}
<1>3. Promise!Start(records, o) = FirstOf(S)
  BY <1>2, PromiseReadsAlike DEF Promise!Start, OpensAt
<1>4. Promise!Closings(records, o) = {k \in DOMAIN records : ClosesAt(k, o)}
  BY <1>2, PromiseReadsAlike DEF Promise!Closings, ClosesAt
<1>5. /\ FirstOf(S) # 0 => FirstOf(S) \in S /\ \A m \in S : FirstOf(S) <= m
      /\ S # {} => FirstOf(S) # 0
  BY <1>1, FirstAndLastAreOf
<1> DEFINE s == FirstOf(S)
<1>6. s = 0 <=> \A k \in DOMAIN records : ~OpensAt(k, o)
  BY <1>1, <1>5 DEF FirstOf
<1>7. \A k \in DOMAIN records : k = s <=> Begun(k, o)
  <2> SUFFICES ASSUME NEW k \in DOMAIN records PROVE k = s <=> Begun(k, o)
    OBVIOUS
  <2>1. ASSUME k = s PROVE Begun(k, o)
    <3>1. s # 0
      BY <1>1, <2>1
    <3>2. ASSUME NEW m \in 1 .. k - 1 PROVE ~OpensAt(m, o)
      <4>1. m \in DOMAIN records /\ ~(k <= m)
        BY <1>1
      <4> QED BY <1>5, <2>1, <3>1, <4>1
    <3> QED BY <1>5, <2>1, <3>1, <3>2 DEF Begun
  <2>2. ASSUME Begun(k, o) PROVE k = s
    <3>1. k \in S
      BY <2>2 DEF Begun
    <3>2. s \in S /\ s <= k /\ s \in 1 .. Len(records)
      BY <1>1, <1>5, <3>1
    <3>3. ~(s \in 1 .. k - 1)
      BY <2>2, <3>2 DEF Begun
    <3> HIDE DEF s
    <3> QED BY <1>1, <3>2, <3>3
  <2> QED BY <2>1, <2>2
<1>8. ASSUME NEW k \in DOMAIN records
      PROVE  (s # 0 /\ s <= k) <=> \E m \in 1 .. k : OpensAt(m, o)
  <2>1. ASSUME s # 0, s <= k PROVE \E m \in 1 .. k : OpensAt(m, o)
    <3>1. s \in S /\ s \in 1 .. k
      BY <1>1, <1>5, <2>1
    <3> QED BY <3>1
  <2>2. ASSUME NEW m \in 1 .. k, OpensAt(m, o) PROVE s # 0 /\ s <= k
    <3>1. m \in S
      BY <1>1, <2>2
    <3>2. s \in S /\ s <= m /\ s # 0
      BY <1>5, <3>1
    <3>3. s \in 1 .. Len(records)
      BY <1>1, <3>2
    <3> HIDE DEF s
    <3> QED BY <1>1, <3>2, <3>3
  <2> QED BY <2>1, <2>2
<1>9. Promise!Paired(records, o) = {k \in DOMAIN records : PairsAt(k, o)}
  BY <1>3, <1>4, <1>8 DEF Promise!Paired, PairsAt
<1>10. s # 0 => s \in DOMAIN records
  BY <1>5
<1> QED BY <1>2, <1>3, <1>4, <1>6, <1>7, <1>9, <1>10

\* A register is handled in every record that could open or close it.
LEMMA AllIsHandled ==
  ASSUME Reporting, Answered, NEW k \in DOMAIN records, NEW o \in Registers
  PROVE  /\ Handled(k, o) <=> HeadAt(k, o) # 0
         /\ OpensAt(k, o) \/ Begun(k, o) => Handled(k, o)
         /\ ClosesAt(k, o) \/ PairsAt(k, o) => Handled(k, o)
<1>1. Handled(k, o) <=> HeadAt(k, o) # 0
  BY DEF Handled, Answered
<1> QED BY <1>1, EndsAreTyped DEF Reporting, Begun, PairsAt

\* The total of every register is the promised one.
LEMMA LedgerIsRight ==
  ASSUME Reporting, Answered, kind = Promise!KindOf(records)
  PROVE  totals = Promise!Ledger(records)
<1>1. ASSUME NEW o \in Registers PROVE totals[o] = Promise!TotalOf(records, o)
  <2> DEFINE s == Promise!Start(records, o)
             P == Promise!Paired(records, o)
             b == OpeningAt(s, o)
             end == IF P = {} THEN b.value ELSE ClosingAt(LastOf(P), o).value
  <2>1. Promise!TotalOf(records, o)
          = IF s = 0 THEN NONE
            ELSE [begin |-> b.value, end |-> end, delta |-> end - b.value, unit |-> b.unit]
    BY StartsAndPairs, PromiseReadsAlike DEF Promise!TotalOf
  <2>2. /\ \A k \in DOMAIN records : k = s <=> Begun(k, o)
        /\ s = 0 <=> \A k \in DOMAIN records : ~OpensAt(k, o)
        /\ P = {k \in DOMAIN records : PairsAt(k, o)}
    BY StartsAndPairs
  <2>3. TotalSoFar(o) /\ totals[o] \in Total \union {NONE}
    BY DEF Reporting, TotalsSoFar, Typed, TypeOK, Option
  <2> HIDE DEF s, P
  <2>4. CASE totals[o] = NONE
    <3>1. \A k \in DOMAIN records : ~OpensAt(k, o)
      BY <2>3, <2>4, AllIsHandled DEF TotalSoFar
    <3> QED BY <2>1, <2>2, <2>4, <3>1
  <2>5. CASE totals[o] # NONE
    <3> DEFINE T == totals[o]
    <3>1. PICK k \in DOMAIN records : /\ Begun(k, o)
                                      /\ T.begin = OpeningAt(k, o).value
                                      /\ T.unit = OpeningAt(k, o).unit
      BY <2>3, <2>5 DEF TotalSoFar
    <3>2. k = s /\ s # 0 /\ T.begin = b.value /\ T.unit = b.unit
      BY <2>2, <3>1 DEF Begun
    <3>3. T.delta = T.end - T.begin /\ T \in Total
      BY <2>3, <2>5 DEF TotalSoFar
    <3>4. T.end = end
      <4>1. CASE T.end = T.begin /\ \A c \in DOMAIN records : Handled(c, o) => ~PairsAt(c, o)
        <5>1. P = {}
          BY <2>2, <4>1, AllIsHandled
        <5> QED BY <3>2, <4>1, <5>1
      <4>2. CASE \E c \in DOMAIN records :
                   /\ Handled(c, o) /\ PairsAt(c, o) /\ T.end = ClosingAt(c, o).value
                   /\ \A d \in DOMAIN records : Handled(d, o) /\ PairsAt(d, o) => d <= c
        <5>1. PICK c \in DOMAIN records :
                   /\ PairsAt(c, o) /\ T.end = ClosingAt(c, o).value
                   /\ \A d \in DOMAIN records : Handled(d, o) /\ PairsAt(d, o) => d <= c
          BY <4>2
        <5>2. c \in P /\ \A d \in P : d <= c
          BY <2>2, <5>1, AllIsHandled
        <5>3. Len(records) \in Nat /\ P \in SUBSET (1 .. Len(records))
          BY <2>2 DEF Reporting, Typed, TypeOK
        <5>4. LastOf(P) \in P /\ \A d \in P : d <= LastOf(P)
          BY <5>2, <5>3, FirstAndLastAreOf
        <5>5. LastOf(P) = c
          <6>1. c <= LastOf(P) /\ LastOf(P) <= c /\ c \in Int /\ LastOf(P) \in Int
            BY <5>2, <5>3, <5>4
          <6> QED BY <6>1
        <5> QED BY <5>1, <5>2, <5>5
      <4> QED BY <2>3, <2>5, <4>1, <4>2 DEF TotalSoFar
    <3> HIDE DEF b, end
    <3>5. T = [begin |-> T.begin, end |-> T.end, delta |-> T.delta, unit |-> T.unit]
      BY <3>3 DEF Total
    <3>6. T = [begin |-> b.value, end |-> end, delta |-> end - b.value, unit |-> b.unit]
      BY <3>2, <3>3, <3>4, <3>5
    <3> QED BY <2>1, <3>2, <3>6
  <2> QED BY <2>4, <2>5
<1>2. totals \in [Registers -> Option(Total)]
  BY DEF Reporting, Typed, TypeOK
<1> QED BY <1>1, <1>2 DEF Promise!Ledger

\* One register is handled at one place of a record.
LEMMA HeadsAreTold ==
  ASSUME Typed, NEW k \in DOMAIN records, NEW o \in Registers, NEW p \in Registers,
         HeadAt(k, o) = HeadAt(k, p), HeadAt(k, o) # 0
  PROVE  o = p
<1>1. records[k] \in Record
  BY DEF Typed, TypeOK
<1> QED BY <1>1, HeadsAreReadings DEF HeadAt

\* The places of a sequence are in one order.
LEMMA PlacesAreOrdered ==
  ASSUME NEW k \in Int, NEW m \in Int, NEW h \in Int, NEW g \in Int
  PROVE  (k < m \/ (k = m /\ h <= g)) /\ (m < k \/ (m = k /\ g <= h)) => k = m /\ h = g
  OBVIOUS

\* The stamp the totals begin with is the promised one.
LEMMA BeginStampIsRight ==
  ASSUME Reporting, Answered, kind = Promise!KindOf(records)
  PROVE  beginTime = Promise!BeginStamp(records)
<1> DEFINE N == DOMAIN records
           Q == {p \in N \X Registers : BeginStamped(p[1], p[2])}
           P == {<<q[1], HeadAt(q[1], q[2]), OpeningAt(q[1], q[2]).time>> : q \in Q}
           Least(p) == p \in P /\ \A q \in P : Promise!Before(p, q)
<1>1. Promise!BeginStamp(records) = IF P = {} THEN NONE ELSE (CHOOSE p \in P : \A q \in P : Promise!Before(p, q))[3].ms
  <2>1. \A p \in N \X Registers :
          /\ p[1] = Promise!Start(records, p[2]) /\ Promise!OpeningOf(records, p[1], p[2]).time # NONE
               <=> BeginStamped(p[1], p[2])
          /\ Promise!OpeningOf(records, p[1], p[2]) = OpeningAt(p[1], p[2])
          /\ Promise!HeadOf(records, p[1], p[2]) = HeadAt(p[1], p[2])
    BY StartsAndPairs, PromiseReadsAlike DEF BeginStamped, Promise!HeadOf, HeadAt
  <2> DEFINE R == {p \in N \X Registers :
                     /\ p[1] = Promise!Start(records, p[2])
                     /\ Promise!OpeningOf(records, p[1], p[2]).time # NONE}
             P1 == {<<q[1], Promise!HeadOf(records, q[1], q[2]),
                      Promise!OpeningOf(records, q[1], q[2]).time>> : q \in R}
  <2>2. R = Q
    BY <2>1
  <2>3. P1 = P
    BY <2>1, <2>2
  <2>4. Promise!BeginStamp(records) = IF P1 = {} THEN NONE ELSE (CHOOSE p \in P1 : \A q \in P1 : Promise!Before(p, q))[3].ms
    BY DEF Promise!BeginStamp
  <2> QED BY <2>3, <2>4
<1>2. \A k \in N, o \in Registers :
        BeginStamped(k, o) => <<k, HeadAt(k, o), OpeningAt(k, o).time>> \in P
  <2> SUFFICES ASSUME NEW k \in N, NEW o \in Registers, BeginStamped(k, o)
               PROVE  <<k, HeadAt(k, o), OpeningAt(k, o).time>> \in P
    OBVIOUS
  <2>1. <<k, o>> \in Q
    OBVIOUS
  <2> QED BY <2>1
<1>3. ASSUME NEW p \in P
      PROVE  \E k \in N, o \in Registers :
               BeginStamped(k, o) /\ p = <<k, HeadAt(k, o), OpeningAt(k, o).time>>
  OBVIOUS
<1> HIDE DEF P, Q
<1>4. CASE beginTime = NONE
  <2>1. \A k \in N, o \in Registers : ~BeginStamped(k, o)
    BY <1>4, AllIsHandled DEF Reporting, StampsSoFar, BeginStamped
  <2>2. P = {}
    BY <1>3, <2>1
  <2> QED BY <1>1, <1>4, <2>2
<1>5. CASE beginTime # NONE
  <2>1. PICK k \in N : \E o \in Registers :
          /\ BeginStamped(k, o) /\ beginTime = OpeningAt(k, o).time.ms
          /\ \A m \in N, p \in Registers : Handled(m, p) /\ BeginStamped(m, p) => NoLater(k, o, m, p)
    BY <1>5 DEF Reporting, StampsSoFar
  <2>2. PICK o \in Registers :
          /\ BeginStamped(k, o) /\ beginTime = OpeningAt(k, o).time.ms
          /\ \A m \in N, p \in Registers : Handled(m, p) /\ BeginStamped(m, p) => NoLater(k, o, m, p)
    BY <2>1
  <2> DEFINE b == <<k, HeadAt(k, o), OpeningAt(k, o).time>>
  <2>3. b \in P
    BY <1>2, <2>2
  <2>4. ASSUME NEW q \in P PROVE Promise!Before(b, q)
    <3>1. PICK m \in N, p \in Registers :
            BeginStamped(m, p) /\ q = <<m, HeadAt(m, p), OpeningAt(m, p).time>>
      BY <1>3
    <3>2. NoLater(k, o, m, p)
      BY <2>2, <3>1, AllIsHandled DEF BeginStamped
    <3> QED BY <3>1, <3>2 DEF Promise!Before, NoLater
  <2>5. ASSUME NEW q \in P, Promise!Before(q, b) PROVE q = b
    <3>1. PICK m \in N, p \in Registers :
            BeginStamped(m, p) /\ q = <<m, HeadAt(m, p), OpeningAt(m, p).time>>
      BY <1>3
    <3>2. NoLater(k, o, m, p) /\ NoLater(m, p, k, o)
      BY <2>2, <2>5, <3>1, AllIsHandled DEF BeginStamped, Promise!Before, NoLater
    <3>3. k \in Int /\ m \in Int /\ HeadAt(k, o) \in Int /\ HeadAt(m, p) \in Int /\ HeadAt(k, o) # 0
      <4>1. records[k] \in Record /\ records[m] \in Record /\ k \in Int /\ m \in Int
        BY DEF Reporting, Typed, TypeOK
      <4>2. HeadAt(k, o) # 0
        BY <2>2, AllIsHandled DEF BeginStamped
      <4> QED BY <4>1, <4>2, HeadsAreReadings DEF HeadAt
    <3>4. k = m /\ HeadAt(k, o) = HeadAt(m, p)
      BY <3>2, <3>3, PlacesAreOrdered DEF NoLater
    <3>5. o = p
      BY <3>3, <3>4, HeadsAreTold DEF Reporting
    <3> QED BY <3>1, <3>4, <3>5
  <2> HIDE DEF b
  <2>6. (CHOOSE p \in P : \A q \in P : Promise!Before(p, q)) = b
    <3>1. \E p \in P : \A q \in P : Promise!Before(p, q)
      BY <2>3, <2>4
    <3> QED BY <2>3, <2>5, <3>1
  <2>7. b[3].ms = beginTime
    BY <2>2 DEF b
  <2> QED BY <1>1, <2>3, <2>6, <2>7
<1> QED BY <1>4, <1>5

\* The stamp the totals end with is the promised one.
LEMMA EndStampIsRight ==
  ASSUME Reporting, Answered, kind = Promise!KindOf(records)
  PROVE  endTime = Promise!EndStamp(records)
<1> DEFINE N == DOMAIN records
           Q == {p \in N \X Registers : EndStamped(p[1], p[2])}
           P == {<<q[1], HeadAt(q[1], q[2]), ClosingAt(q[1], q[2]).time>> : q \in Q}
<1>1. Promise!EndStamp(records) = IF P = {} THEN NONE ELSE (CHOOSE p \in P : \A q \in P : Promise!Before(q, p))[3].ms
  <2>1. \A p \in N \X Registers :
          /\ p[1] \in Promise!Paired(records, p[2]) /\ Promise!ClosingOf(records, p[1], p[2]).time # NONE
               <=> EndStamped(p[1], p[2])
          /\ Promise!ClosingOf(records, p[1], p[2]) = ClosingAt(p[1], p[2])
          /\ Promise!HeadOf(records, p[1], p[2]) = HeadAt(p[1], p[2])
    BY StartsAndPairs, PromiseReadsAlike DEF EndStamped, Promise!HeadOf, HeadAt
  <2> DEFINE R == {p \in N \X Registers :
                     /\ p[1] \in Promise!Paired(records, p[2])
                     /\ Promise!ClosingOf(records, p[1], p[2]).time # NONE}
             P1 == {<<q[1], Promise!HeadOf(records, q[1], q[2]),
                      Promise!ClosingOf(records, q[1], q[2]).time>> : q \in R}
  <2>2. R = Q
    BY <2>1
  <2>3. P1 = P
    BY <2>1, <2>2
  <2>4. Promise!EndStamp(records) = IF P1 = {} THEN NONE ELSE (CHOOSE p \in P1 : \A q \in P1 : Promise!Before(q, p))[3].ms
    BY DEF Promise!EndStamp
  <2> QED BY <2>3, <2>4
<1>2. \A k \in N, o \in Registers :
        EndStamped(k, o) => <<k, HeadAt(k, o), ClosingAt(k, o).time>> \in P
  <2> SUFFICES ASSUME NEW k \in N, NEW o \in Registers, EndStamped(k, o)
               PROVE  <<k, HeadAt(k, o), ClosingAt(k, o).time>> \in P
    OBVIOUS
  <2>1. <<k, o>> \in Q
    OBVIOUS
  <2> QED BY <2>1
<1>3. ASSUME NEW p \in P
      PROVE  \E k \in N, o \in Registers :
               EndStamped(k, o) /\ p = <<k, HeadAt(k, o), ClosingAt(k, o).time>>
  OBVIOUS
<1> HIDE DEF P, Q
<1>4. CASE endTime = NONE
  <2>1. \A k \in N, o \in Registers : ~EndStamped(k, o)
    BY <1>4, AllIsHandled DEF Reporting, StampsSoFar, EndStamped
  <2>2. P = {}
    BY <1>3, <2>1
  <2> QED BY <1>1, <1>4, <2>2
<1>5. CASE endTime # NONE
  <2>1. PICK k \in N : \E o \in Registers :
          /\ EndStamped(k, o) /\ endTime = ClosingAt(k, o).time.ms
          /\ \A m \in N, p \in Registers : Handled(m, p) /\ EndStamped(m, p) => NoLater(m, p, k, o)
    BY <1>5 DEF Reporting, StampsSoFar
  <2>2. PICK o \in Registers :
          /\ EndStamped(k, o) /\ endTime = ClosingAt(k, o).time.ms
          /\ \A m \in N, p \in Registers : Handled(m, p) /\ EndStamped(m, p) => NoLater(m, p, k, o)
    BY <2>1
  <2> DEFINE b == <<k, HeadAt(k, o), ClosingAt(k, o).time>>
  <2>3. b \in P
    BY <1>2, <2>2
  <2>4. ASSUME NEW q \in P PROVE Promise!Before(q, b)
    <3>1. PICK m \in N, p \in Registers :
            EndStamped(m, p) /\ q = <<m, HeadAt(m, p), ClosingAt(m, p).time>>
      BY <1>3
    <3>2. NoLater(m, p, k, o)
      BY <2>2, <3>1, AllIsHandled DEF EndStamped
    <3> QED BY <3>1, <3>2 DEF Promise!Before, NoLater
  <2>5. ASSUME NEW q \in P, Promise!Before(b, q) PROVE q = b
    <3>1. PICK m \in N, p \in Registers :
            EndStamped(m, p) /\ q = <<m, HeadAt(m, p), ClosingAt(m, p).time>>
      BY <1>3
    <3>2. NoLater(k, o, m, p) /\ NoLater(m, p, k, o)
      BY <2>2, <2>5, <3>1, AllIsHandled DEF EndStamped, Promise!Before, NoLater
    <3>3. k \in Int /\ m \in Int /\ HeadAt(k, o) \in Int /\ HeadAt(m, p) \in Int /\ HeadAt(k, o) # 0
      <4>1. records[k] \in Record /\ records[m] \in Record /\ k \in Int /\ m \in Int
        BY DEF Reporting, Typed, TypeOK
      <4>2. HeadAt(k, o) # 0
        BY <2>2, AllIsHandled DEF EndStamped
      <4> QED BY <4>1, <4>2, HeadsAreReadings DEF HeadAt
    <3>4. k = m /\ HeadAt(k, o) = HeadAt(m, p)
      BY <3>2, <3>3, PlacesAreOrdered DEF NoLater
    <3>5. o = p
      BY <3>3, <3>4, HeadsAreTold DEF Reporting
    <3> QED BY <3>1, <3>4, <3>5
  <2> HIDE DEF b
  <2>6. (CHOOSE p \in P : \A q \in P : Promise!Before(q, p)) = b
    <3>1. \E p \in P : \A q \in P : Promise!Before(q, p)
      BY <2>3, <2>4
    <3> QED BY <2>3, <2>5, <3>1
  <2>7. b[3].ms = endTime
    BY <2>2 DEF b
  <2> QED BY <1>1, <2>3, <2>6, <2>7
<1> QED BY <1>4, <1>5

\* The kind of the sequence is the promised one once it is known.
LEMMA KindIsRight ==
  ASSUME Reporting
  PROVE  kind = Promise!KindOf(records)
<1>1. records = <<>> => kind = "Transaction"
  BY DEF Reporting, FindingsSoFar
<1>2. records # <<>> => kind = IF \E k \in DOMAIN records : IsTransaction(records[k])
                                 THEN "Transaction" ELSE "Fiscal"
  BY DEF Reporting, FindingsSoFar
<1> QED BY <1>1, <1>2, PromiseReadsAlike DEF Promise!KindOf

\* What the totals say is what the promise says of the registers.
LEMMA RegistersAreJudgedRight ==
  ASSUME Reporting, Answered
  PROVE  OfTotals = Promise!RegisterFindings(records)
<1>1. /\ totals = Promise!Ledger(records)
      /\ beginTime = Promise!BeginStamp(records) /\ endTime = Promise!EndStamp(records)
  BY KindIsRight, LedgerIsRight, BeginStampIsRight, EndStampIsRight
<1>2. {q \in Registers : totals[q] # NONE} = {q \in Registers : Promise!Start(records, q) # 0}
  <2>1. ASSUME NEW o \in Registers PROVE totals[o] # NONE <=> Promise!Start(records, o) # 0
    <3>1. Promise!Start(records, o) = 0 <=> \A k \in DOMAIN records : ~OpensAt(k, o)
      BY KindIsRight, StartsAndPairs
    <3>2. TotalSoFar(o)
      BY DEF Reporting, TotalsSoFar
    <3> QED BY <3>1, <3>2, AllIsHandled DEF TotalSoFar, Begun
  <2> QED BY <2>1
<1>3. unpaired = {q \in Registers : Promise!Closings(records, q) # Promise!Paired(records, q)}
  <2>1. ASSUME NEW o \in Registers
        PROVE  o \in unpaired <=> Promise!Closings(records, o) # Promise!Paired(records, o)
    <3>1. o \in unpaired <=> \E k \in DOMAIN records :
                               Handled(k, o) /\ ClosesAt(k, o) /\ ~PairsAt(k, o)
      BY DEF Reporting, TotalsSoFar
    <3>2. /\ Promise!Closings(records, o) = {k \in DOMAIN records : ClosesAt(k, o)}
          /\ Promise!Paired(records, o) = {k \in DOMAIN records : PairsAt(k, o)}
      BY KindIsRight, StartsAndPairs
    <3>3. \A k : PairsAt(k, o) => ClosesAt(k, o)
      BY DEF PairsAt
    <3> QED BY <3>1, <3>2, <3>3, AllIsHandled
  <2>2. unpaired \subseteq Registers
    BY DEF Reporting, Typed, TypeOK
  <2> QED BY <2>1, <2>2
<1>4. {q \in Registers : totals[q] # NONE /\ totals[q].delta < 0}
        = {q \in {p \in Registers : Promise!Start(records, p) # 0} :
             Promise!Ledger(records)[q].delta < 0}
  BY <1>1, <1>2
<1> QED BY <1>1, <1>3, <1>4 DEF OfTotals, Promise!RegisterFindings

\* What the markers and the clocks say is what the promise says of them.
LEMMA MarkersSayTheSame ==
  ASSUME Reporting, Answered
  PROVE  OfMarkers = Promise!ClockVerdict(records)
           \union (IF Promise!KindOf(records) = "Transaction"
                     THEN Promise!MarkerVerdict(records, {"B"}, 1, "NoBegin", "MultipleBegins")
                            \union Promise!MarkerVerdict(records, {"E", "L", "R", "A", "P"},
                                                         Len(records), "NoEnd", "MultipleEnds")
                     ELSE {})
<1> QED BY KindIsRight, MarkingsAreRight, MarkersAreJudgedRight, ClocksAreJudgedRight DEF OfMarkers

\* The report is the promised one: its findings, no more and no less, and the
\* total of every register.
LEMMA ReportIsRight ==
  ASSUME Reporting, Answered
  PROVE  [answered |-> TRUE, findings |-> findings, totals |-> totals] = Promise!Report(records)
<1>1. totals = Promise!Ledger(records)
  BY KindIsRight, LedgerIsRight
<1>2. CASE records = <<>>
  BY <1>1, <1>2 DEF Reporting, FindingsSoFar, Answered, Promise!Report
<1>3. CASE records # <<>>
  <2>1. \A k \in DOMAIN records :
          FoundAt(k) = UNION {OfReading(k), OfPair(k), OfSource(k), OfRepeat(k), OfScan(k)}
    BY DEF FoundAt, Answered, IsRead, IsCompared, IsSourced, IsUnique, IsScanned, Behind,
           AfterReading, AfterPairs, AfterSource, AfterScan
  <2>2. (UNION {FoundAt(k) : k \in DOMAIN records}) = Promise!RecordFindings(records)
    BY <2>1, RecordsAreFoundRight DEF Reporting
  <2>3. findings = (UNION {FoundAt(k) : k \in DOMAIN records}) \union OfMarkers \union OfTotals
    BY <1>3 DEF Reporting, FindingsSoFar, Answered, Concluding
  <2> DEFINE A == Promise!RecordFindings(records)
             B == Promise!ClockVerdict(records)
             C == Promise!RegisterFindings(records)
             D == IF Promise!KindOf(records) = "Transaction"
                     THEN Promise!MarkerVerdict(records, {"B"}, 1, "NoBegin", "MultipleBegins")
                            \union Promise!MarkerVerdict(records, {"E", "L", "R", "A", "P"},
                                                         Len(records), "NoEnd", "MultipleEnds")
                     ELSE {}
  <2>4. findings = A \union (B \union D) \union C
    BY <2>2, <2>3, RegistersAreJudgedRight, MarkersSayTheSame
  <2>5. Promise!Report(records) = [answered |-> TRUE, findings |-> A \union B \union C \union D,
                                   totals |-> Promise!Ledger(records)]
    BY <1>3 DEF Promise!Report
  <2> HIDE DEF A, B, C, D
  <2>6. findings = A \union B \union C \union D
    BY <2>4
  <2> QED BY <1>1, <2>5, <2>6
<1> QED BY <1>2, <1>3

-----------------------------------------------------------------------------
(***************************************************************************)
(* The refinement.                                                         *)
(***************************************************************************)

\* The two specifications are about the same records.
LEMMA PromiseIsAboutRecords == Promise!Record = Record
<1>1. \A S : Promise!Option(S) = Option(S)
  BY DEF Promise!Option, Option
<1>2. /\ Promise!TimeStatus = TimeStatus /\ Promise!Marker = Marker /\ Promise!Unit = Unit
      /\ Promise!Flag = Flag /\ Promise!MeterState = MeterState
      /\ Promise!IdentificationLevel = IdentificationLevel
      /\ Promise!Pagination = Pagination
  BY DEF Promise!TimeStatus, TimeStatus, Promise!Marker, Marker, Promise!Unit, Unit, Promise!Flag,
         Flag, Promise!MeterState, MeterState, Promise!IdentificationLevel, IdentificationLevel,
         Promise!Pagination, Pagination, Promise!Context, Context
<1>3. Promise!Time = Time
  BY <1>1, <1>2 DEF Promise!Time, Time
<1>4. Promise!CheckedReading = CheckedReading
  BY <1>1, <1>2, <1>3 DEF Promise!CheckedReading, CheckedReading
<1> QED BY <1>1, <1>2, <1>4 DEF Promise!Record, Record

\* Before any records are given there is no report, and nothing is kept.
LEMMA PromiseStarts ==
  ASSUME Init
  PROVE  Promise!Init /\ Reporting
<1>1. Typed
  BY DEF Init, Typed, TypeOK, Untouched, Phase, Option
<1>2. FindingsSoFar
  BY DEF Init, FindingsSoFar
<1>3. DOMAIN records = {}
  BY DEF Init
<1>4. ScannedSoFar
  BY <1>3 DEF Init, ScannedSoFar
<1>5. TotalsSoFar
  BY <1>3 DEF Init, TotalsSoFar, TotalSoFar, Concluding
<1>6. StampsSoFar
  BY <1>3 DEF Init, StampsSoFar
<1>7. Promise!Init
  BY DEF Init, Promise!Init, Promise!Pending, Answered
<1> QED BY <1>1, <1>2, <1>4, <1>5, <1>6, <1>7 DEF Reporting

\* Every step keeps what the report is made of.
LEMMA ReportingStep ==
  ASSUME Reporting, Step
  PROVE  Reporting'
<1>1. Typed'
  BY TypeStep, UntouchedStep DEF Reporting, Typed
<1>2. FindingsSoFar' /\ ScannedSoFar' /\ TotalsSoFar' /\ StampsSoFar'
  BY FindingsStep, ScannedStep, TotalsStep, StampsStep DEF Reporting
<1> QED BY <1>1, <1>2 DEF Reporting

\* A report, once there is one, is the promised one.
ReportsRight ==
  Answered => [answered |-> TRUE, findings |-> findings, totals |-> totals]
                = Promise!Report(records)

\* A call puts the question, the last step answers it, and no other step can be
\* seen from outside.
LEMMA StepKeepsThePromise ==
  ASSUME Reporting, ReportsRight, ReportsRight', Step
  PROVE  [Promise!Next]_<<records, IF Answered
                                     THEN [answered |-> TRUE, findings |-> findings,
                                           totals |-> totals]
                                     ELSE [answered |-> FALSE]>>
<1> DEFINE full == [answered |-> TRUE, findings |-> findings, totals |-> totals]
           answer == IF Answered THEN full ELSE [answered |-> FALSE]
<1>1. /\ Answered => answer = Promise!Report(records)
      /\ Answered' => answer' = Promise!Report(records')
      /\ ~Answered => answer = Promise!Pending
      /\ ~Answered' => answer' = Promise!Pending
  BY DEF ReportsRight, Promise!Pending
<1>2. ASSUME UNCHANGED vars PROVE UNCHANGED <<records, answer>>
  BY <1>2 DEF vars, ledger, Answered
<1>3. ASSUME NEW rs \in Seq(Record), Validate(rs) PROVE Promise!Ask
  <2>1. records = <<>> /\ ~Answered /\ records' = rs
    BY <1>3 DEF Validate, Reporting, FindingsSoFar, Answered
  <2> QED BY <1>1, <2>1, PromiseIsAboutRecords DEF Promise!Ask
<1>4. ASSUME Check PROVE Promise!Answer \/ UNCHANGED <<records, answer>>
  <2>1. ~Answered
    BY <1>4 DEF Check, Answered, CheckReadable, CheckPair, CheckSource, CheckRepeat, ScanRecord,
                Pass, CheckMarkers, TotalRegister, PassReading, AtReading, NextRecord, Conclude
  <2>2. records' = records
    BY <1>4, LoopsAdvance, LoopsLeave, OthersFind DEF Reporting, Check
  <2>3. CASE ~Answered'
    BY <1>1, <2>1, <2>2, <2>3
  <2>4. CASE Answered'
    <3>1. answer'.answered = TRUE /\ Promise!Pending.answered = FALSE
      BY <2>4 DEF Promise!Pending
    <3>2. answer' # Promise!Pending
      <4> HIDE DEF answer
      <4> QED BY <3>1
    <3> QED BY <1>1, <2>1, <2>2, <2>4, <3>2 DEF Promise!Answer
  <2> QED BY <2>3, <2>4
<1>5. Promise!Next \/ UNCHANGED <<records, answer>>
  BY <1>2, <1>3, <1>4 DEF Step, Promise!Next
<1> QED BY <1>5

\* The steps of a call to validate_refs keep all of it.
LEMMA ReportingAlways == Spec => []Reporting
<1>1. Init => Reporting
  BY PromiseStarts
<1>2. Reporting /\ Step => Reporting'
  BY ReportingStep
<1> QED BY <1>1, <1>2, StepsAreSteps, PTL DEF Spec

\* validate_refs reports what a check component promises, whatever the records
\* are: every finding CheckComponent makes of the sequence and no other, and the
\* right total for every register, once, at the end of the call.
THEOREM SessionKeepsThePromise == Spec => KeepsThePromise
<1>1. Reporting => ReportsRight
  BY ReportIsRight DEF ReportsRight
<1>2. Init => Promise!Init
  BY PromiseStarts
<1>3. /\ Reporting /\ ReportsRight /\ Reporting' /\ ReportsRight' /\ [Next]_vars
      => [Promise!Next]_<<records, IF Answered
                                     THEN [answered |-> TRUE, findings |-> findings,
                                           totals |-> totals]
                                     ELSE [answered |-> FALSE]>>
  BY StepsAreSteps, StepKeepsThePromise
<1> QED BY <1>1, <1>2, <1>3, ReportingAlways, PTL DEF Spec, KeepsThePromise, Promise!Spec

=============================================================================
