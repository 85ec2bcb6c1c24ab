-------------------------- MODULE Delivery_proofs --------------------------
(***************************************************************************)
(* Theorems of the check component at work, for every set of stations and  *)
(* registers, every counter width, and streams of every length in which no *)
(* counter value comes twice.                                              *)
(***************************************************************************)
EXTENDS Delivery, Session_proofs

-----------------------------------------------------------------------------
(***************************************************************************)
(* What stations write and what arrives.                                   *)
(***************************************************************************)

\* r is the k-th record of station s.
IsNth(r, s, k) ==
  /\ r \in Record
  /\ r.pg # NONE /\ r.pg.context = "T" /\ r.pg.number = (Base + (k - 1)) % CounterSize
  /\ r.ms = s /\ r.gs = NONE /\ r.il = NONE
  /\ Len(r.readings) = 1
  /\ Tx(r) \in {"B", "C", "E"}
  /\ r.readings[1].value = k - 1 /\ r.readings[1].obis \in Registers
  /\ r.readings[1].time # NONE /\ r.readings[1].time.ms = k - 1 /\ r.readings[1].time.status = "S"
  /\ r.readings[1].unit # NONE /\ r.readings[1].ef = {} /\ r.readings[1].state = "G"

\* Stations number their records and start with a begin.
StreamsAreNumbered ==
  /\ stream \in [Stations -> Seq(Record)] /\ charging \in [Stations -> BOOLEAN]
  /\ \A s \in Stations :
       /\ Len(stream[s]) <= MaxStream
       /\ \A k \in DOMAIN stream[s] : IsNth(stream[s][k], s, k)
       /\ stream[s] # <<>> => Tx(stream[s][1]) = "B"
       /\ stream[s] = <<>> => ~charging[s]

AreWritten(rs) ==
  \A m \in DOMAIN rs : \E s \in Stations : \E k \in DOMAIN stream[s] : rs[m] = stream[s][k]

\* What arrived, and what is judged, was written.
NothingInvented ==
  /\ inbox \in Seq(Record) /\ AreWritten(inbox) /\ AreWritten(records)

World == StreamsAreNumbered /\ NothingInvented

\* The bounds, as the arithmetic below uses them.
LEMMA BoundsAreNaturals ==
  CounterSize \in Nat /\ CounterSize > 1 /\ Base \in 0 .. CounterSize - 1
    /\ MaxStream \in 0 .. CounterSize
  BY CounterAssumption, DeliveryAssumption

\* The counter of a station's k-th record.
Counter(k) == (Base + (k - 1)) % CounterSize

\* It wraps at most once over the records of a station.
LEMMA CountersWrap ==
  ASSUME NEW k \in 1 .. CounterSize
  PROVE  /\ Counter(k) \in 0 .. CounterSize - 1
         /\ Counter(k) = IF Base + k <= CounterSize THEN Base + (k - 1)
                                                    ELSE Base + (k - 1) - CounterSize
<1> DEFINE n == Base + (k - 1)
<1>1. CounterSize \in Nat /\ CounterSize > 1 /\ Base \in Nat /\ Base < CounterSize
      /\ k \in Nat /\ k >= 1 /\ k <= CounterSize
  BY BoundsAreNaturals
<1>2. n \in Nat /\ n < CounterSize + CounterSize
  BY <1>1
<1>3. n < CounterSize => n % CounterSize = n
  <2> HIDE DEF n
  <2> QED BY <1>1, <1>2
<1>4. n >= CounterSize => n % CounterSize = n - CounterSize
  <2> HIDE DEF n
  <2> QED BY <1>1, <1>2
<1> QED BY <1>1, <1>2, <1>3, <1>4 DEF Counter

\* A record as a station writes it is its next.
LEMMA SignedIsNext ==
  ASSUME World, NEW s \in Stations, NEW tx \in {"B", "C", "E"},
         NEW register \in Registers, NEW text \in Texts, Len(stream[s]) < MaxStream
  PROVE  IsNth(Signed(s, tx, register, text), s, Len(stream[s]) + 1)
<1> DEFINE n == Len(stream[s])
           reading == [time |-> [ms |-> n, status |-> "S"], tx |-> tx, value |-> n,
                       obis |-> register, unit |-> "kWh", ef |-> {}, state |-> "G"]
           page == [context |-> "T", number |-> (Base + n) % CounterSize]
           r == Signed(s, tx, register, text)
<1>1. n \in Nat
  BY DEF World, StreamsAreNumbered
<1>2. page \in Pagination
  <2>1. (Base + n) % CounterSize \in 0 .. CounterSize - 1
      <3>1. n + 1 \in 1 .. CounterSize /\ (n + 1) - 1 = n
        BY <1>1, BoundsAreNaturals
      <3> HIDE DEF n
      <3> QED BY <3>1, CountersWrap DEF Counter
  <2> QED BY <2>1 DEF Pagination, Context
<1>3. reading \in CheckedReading
  <2>1. [ms |-> n, status |-> "S"] \in Time
    BY <1>1 DEF Time, Option, TimeStatus
  <2>2. tx \in Marker /\ "kWh" \in Unit /\ "G" \in MeterState /\ n \in Int
    BY <1>1 DEF Marker, Unit, MeterState
  <2> QED BY <2>1, <2>2 DEF CheckedReading, Option
<1>4. r = [pg |-> page, ms |-> s, gs |-> NONE, il |-> NONE, text |-> text,
           readings |-> <<reading>>]
  BY DEF Signed
<1>5. s \in Serials
  BY DeliveryAssumption
<1>6. <<reading>> \in Seq(CheckedReading) /\ Len(<<reading>>) = 1
  BY <1>3
<1>7. r \in Record
  <2> HIDE DEF reading, page
  <2> QED BY <1>2, <1>4, <1>5, <1>6 DEF Record, Option
<1>8. Base + ((n + 1) - 1) = Base + n
  BY <1>1, BoundsAreNaturals
<1>9. Tx(r) = tx /\ r.pg = page /\ r.ms = s /\ r.gs = NONE /\ Len(r.readings) = 1
  BY <1>4 DEF Tx
<1>10. r.readings[1].value = (n + 1) - 1 /\ r.readings[1].obis \in Registers
  BY <1>1, <1>4
<1>11. /\ r.readings[1].time = [ms |-> n, status |-> "S"] /\ r.readings[1].unit = "kWh"
       /\ r.readings[1].ef = {} /\ r.readings[1].state = "G" /\ r.il = NONE
  BY <1>4
<1>12. page # NONE /\ [ms |-> n, status |-> "S"] # NONE /\ "kWh" # NONE
  <2>1. [ms |-> n, status |-> "S"] \in Time
    BY <1>1 DEF Time, Option, TimeStatus
  <2>2. "kWh" \in Unit
    BY DEF Unit
  <2> HIDE DEF page, n
  <2> QED BY <1>2, <2>1, <2>2, PresenceAssumption
<1>13. n = (n + 1) - 1
  BY <1>1
<1> HIDE DEF r, page, n, reading
<1> QED BY <1>7, <1>8, <1>9, <1>10, <1>11, <1>12, <1>13 DEF IsNth, r, page, n

\* A record written changes one stream, by its next record.
LEMMA WriteKeepsTheWorld ==
  ASSUME World, NEW s \in Stations, NEW tx \in {"B", "C", "E"}, Write(s, tx),
         NEW now \in BOOLEAN, charging' = [charging EXCEPT ![s] = now],
         stream[s] = <<>> => tx = "B"
  PROVE  World'
<1>1. PICK register \in Registers, text \in Texts :
        stream' = [stream EXCEPT ![s] = Append(stream[s], Signed(s, tx, register, text))]
  BY DEF Write, World, StreamsAreNumbered
<1> DEFINE r == Signed(s, tx, register, text)
           n == Len(stream[s])
<1>2. Len(stream[s]) < MaxStream /\ inbox' = inbox /\ records' = records
  BY DEF Write, vars
<1>3. IsNth(r, s, n + 1)
  BY <1>2, SignedIsNext
<1>4. stream[s] \in Seq(Record) /\ n \in Nat /\ DOMAIN stream[s] = 1 .. n
      /\ stream \in [Stations -> Seq(Record)]
  BY DEF World, StreamsAreNumbered
<1>5. r \in Record /\ Tx(r) = tx
  BY <1>3 DEF IsNth, Signed, Tx
<1> HIDE DEF r
<1>6. /\ stream' \in [Stations -> Seq(Record)]
      /\ stream'[s] = Append(stream[s], r)
      /\ \A t \in Stations \ {s} : stream'[t] = stream[t]
  BY <1>1, <1>4, <1>5 DEF r
<1>7. /\ Len(stream'[s]) = n + 1 /\ DOMAIN stream'[s] = 1 .. n + 1
      /\ stream'[s][n + 1] = r
      /\ \A k \in 1 .. n : stream'[s][k] = stream[s][k]
  BY <1>4, <1>5, <1>6
<1>8. charging' \in [Stations -> BOOLEAN] /\ \A t \in Stations \ {s} : charging'[t] = charging[t]
  BY DEF World, StreamsAreNumbered
<1>9. StreamsAreNumbered'
  <2> SUFFICES ASSUME NEW t \in Stations
      PROVE  /\ Len(stream'[t]) <= MaxStream
             /\ \A k \in DOMAIN stream'[t] : IsNth(stream'[t][k], t, k)
             /\ stream'[t] # <<>> => Tx(stream'[t][1]) = "B"
             /\ stream'[t] = <<>> => ~charging'[t]
    BY <1>6, <1>8 DEF StreamsAreNumbered, IsNth, Tx
  <2>1. CASE t # s
    BY <1>6, <1>8, <2>1 DEF World, StreamsAreNumbered
  <2>2. CASE t = s
    <3>1. n + 1 <= MaxStream
      BY <1>2, <1>4, BoundsAreNaturals
    <3>2. \A k \in 1 .. n + 1 : IsNth(stream'[s][k], s, k)
      <4> SUFFICES ASSUME NEW k \in 1 .. n + 1 PROVE IsNth(stream'[s][k], s, k)
        OBVIOUS
      <4>1. CASE k = n + 1
        BY <1>3, <1>7, <4>1 DEF r
      <4>2. CASE k \in 1 .. n
        BY <1>4, <1>7, <4>2 DEF World, StreamsAreNumbered
      <4> QED BY <1>4, <4>1, <4>2
    <3>3. Tx(stream'[s][1]) = "B"
      <4>1. CASE n = 0
        BY <1>4, <1>5, <1>7, <4>1
      <4>2. CASE n > 0
        <5>1. stream[s] # <<>> /\ stream'[s][1] = stream[s][1]
          BY <1>4, <1>7, <4>2
        <5> QED BY <5>1 DEF World, StreamsAreNumbered
      <4> QED BY <1>4, <4>1, <4>2
    <3>4. stream'[s] # <<>>
      BY <1>4, <1>7
    <3> QED BY <1>7, <2>2, <3>1, <3>2, <3>3, <3>4
  <2> QED BY <2>1, <2>2
<1>10. ASSUME NEW rs, AreWritten(rs) PROVE AreWritten(rs)'
  <2> SUFFICES ASSUME NEW m \in DOMAIN rs
      PROVE  \E t \in Stations : \E k \in DOMAIN stream'[t] : rs[m] = stream'[t][k]
    BY DEF AreWritten
  <2>1. PICK t \in Stations : \E k \in DOMAIN stream[t] : rs[m] = stream[t][k]
    BY <1>10 DEF AreWritten
  <2>2. PICK k \in DOMAIN stream[t] : rs[m] = stream[t][k]
    BY <2>1
  <2>3. k \in DOMAIN stream'[t] /\ stream'[t][k] = stream[t][k]
    <3>1. CASE t = s
      BY <1>4, <1>7, <3>1
    <3>2. CASE t # s
      BY <1>6, <3>2
    <3> QED BY <3>1, <3>2
  <2> QED BY <2>2, <2>3
<1>11. NothingInvented'
  BY <1>2, <1>10 DEF World, NothingInvented, AreWritten
<1> QED BY <1>9, <1>11 DEF World

\* The stations keep the world, the check component leaves it alone, and what
\* it is called with was written.
LEMMA WorldStep ==
  ASSUME World, [DeliveryNext]_<<vars, world>>
  PROVE  World' /\ Step
<1>1. ASSUME NEW s \in Stations, Begin(s) PROVE World' /\ Step
  BY <1>1, WriteKeepsTheWorld DEF Begin, Write, Step
<1>2. ASSUME NEW s \in Stations, Sample(s) PROVE World' /\ Step
  <2>1. charging' = [charging EXCEPT ![s] = TRUE] /\ stream[s] # <<>>
    BY <1>2 DEF Sample, World, StreamsAreNumbered
  <2> QED BY <1>2, <2>1, WriteKeepsTheWorld DEF Sample, Write, Step
<1>3. ASSUME NEW s \in Stations, End(s) PROVE World' /\ Step
  <2>1. stream[s] # <<>>
    BY <1>3 DEF End, World, StreamsAreNumbered
  <2> QED BY <1>3, <2>1, WriteKeepsTheWorld DEF End, Write, Step
<1>4. ASSUME NEW s \in Stations, Restart(s) PROVE World' /\ Step
  BY <1>4 DEF Restart, Step, World, StreamsAreNumbered, NothingInvented, AreWritten, IsNth, Tx, vars
<1>5. ASSUME NEW s \in Stations, Arrive(s) PROVE World' /\ Step
  <2>1. PICK k \in DOMAIN stream[s] : inbox' = Append(inbox, stream[s][k])
    BY <1>5 DEF Arrive
  <2>2. stream' = stream /\ charging' = charging /\ records' = records /\ UNCHANGED vars
    BY <1>5 DEF Arrive, vars
  <2>3. stream[s][k] \in Record /\ inbox \in Seq(Record)
    BY DEF World, StreamsAreNumbered, NothingInvented
  <2>4. inbox' \in Seq(Record) /\ AreWritten(inbox')
    <3>1. inbox' \in Seq(Record) /\ DOMAIN inbox' = 1 .. Len(inbox) + 1
          /\ inbox'[Len(inbox) + 1] = stream[s][k]
          /\ (\A m \in 1 .. Len(inbox) : inbox'[m] = inbox[m]) /\ Len(inbox) \in Nat
      BY <2>1, <2>3
    <3>2. ASSUME NEW m \in 1 .. Len(inbox) + 1
          PROVE  \E t \in Stations : \E l \in DOMAIN stream[t] : inbox'[m] = stream[t][l]
      <4>1. CASE m = Len(inbox) + 1
        BY <3>1, <4>1
      <4>2. CASE m \in 1 .. Len(inbox)
        BY <2>3, <3>1, <4>2 DEF World, NothingInvented, AreWritten
      <4> QED BY <3>1, <4>1, <4>2
    <3> QED BY <3>1, <3>2 DEF AreWritten
  <2> QED BY <2>2, <2>4
          DEF Step, World, StreamsAreNumbered, NothingInvented, AreWritten, IsNth, Tx
<1>6. CASE Judge
  <2>1. records' = inbox /\ UNCHANGED world /\ (\E rs \in Seq(Record) : Validate(rs))
    BY <1>6 DEF Judge, Validate, World, NothingInvented
  <2> QED BY <2>1
          DEF Step, World, StreamsAreNumbered, NothingInvented, AreWritten, IsNth, Tx, world
<1>7. CASE JudgeOn
  <2>1. records' = records /\ UNCHANGED world /\ Check
    BY <1>7 DEF JudgeOn, Check, CheckReadable, CheckPair, CheckSource, CheckRepeat, ScanRecord,
       CheckMarkers, TotalRegister, PassReading, NextRecord, Conclude, Pass
  <2> QED BY <2>1
          DEF Step, World, StreamsAreNumbered, NothingInvented, AreWritten, IsNth, Tx, world
<1>8. CASE UNCHANGED <<vars, world>>
  BY <1>8
     DEF Step, World, StreamsAreNumbered, NothingInvented, AreWritten, IsNth, Tx, world, vars
<1> QED BY <1>1, <1>2, <1>3, <1>4, <1>5, <1>6, <1>7, <1>8 DEF DeliveryNext

-----------------------------------------------------------------------------
(***************************************************************************)
(* Clean is one whole transaction.                                         *)
(***************************************************************************)

\* A report that found nothing was given something to look at.
SomethingJudged == pc # "idle" /\ findings = {} => records # <<>>

\* An empty sequence is a finding, and a finding stays.
LEMMA SomethingJudgedStep ==
  ASSUME SomethingJudged, Step
  PROVE  SomethingJudged'
<1>1. CASE UNCHANGED vars
  BY <1>1 DEF SomethingJudged, vars
<1>2. ASSUME NEW rs \in Seq(Record), Validate(rs) PROVE SomethingJudged'
  BY <1>2 DEF Validate, SomethingJudged
<1>3. CASE Check
  <2>1. records' = records /\ findings \subseteq findings' /\ pc # "idle"
    BY <1>3 DEF Check, CheckReadable, CheckPair, CheckSource, CheckRepeat, ScanRecord,
       CheckMarkers, TotalRegister, PassReading, AtReading, NextRecord, Conclude, Pass
  <2> QED BY <2>1 DEF SomethingJudged
<1> QED BY <1>1, <1>2, <1>3 DEF Step

Judged ==
  /\ Typed /\ OneRunSoFar /\ DelimitedSoFar /\ SomethingJudged /\ World

\* The place d records after place a, where the places of a station are a ring.
PlaceAfter(a, d) == IF a + d <= CounterSize THEN a + d ELSE a + d - CounterSize

\* Counters that are d apart are those of places that are d apart.
LEMMA CountersNamePlaces ==
  ASSUME NEW a \in 1 .. CounterSize, NEW p \in 1 .. CounterSize,
         NEW d \in 0 .. CounterSize - 1, Counter(p) = Shift(Counter(a), d)
  PROVE  p = PlaceAfter(a, d)
  BY CountersWrap, BoundsAreNaturals DEF Shift, PlaceAfter

\* A record in a clean report is one of the one station, at the place that its
\* distance to any other says.
LEMMA CleanIsOfOneStation ==
  ASSUME Judged, Clean
  PROVE  /\ Len(records) \in Nat /\ Len(records) >= 1 /\ DOMAIN records = 1 .. Len(records)
         /\ kind = "Transaction"
         /\ \E s \in Stations : \A k \in DOMAIN records :
              \E p \in DOMAIN stream[s] : records[k] = stream[s][p]
<1>1. /\ Len(records) \in Nat /\ DOMAIN records = 1 .. Len(records) /\ records # <<>>
  BY DEF Judged, Typed, TypeOK, SomethingJudged, Clean, Answered
<1>2. Len(records) >= 1 /\ 1 \in DOMAIN records
  BY <1>1 DEF Judged, Typed, TypeOK
<1>3. ASSUME NEW k \in DOMAIN records
      PROVE  \E s \in Stations : /\ \E p \in DOMAIN stream[s] : records[k] = stream[s][p]
                                 /\ Source(records[k]) = <<s>>
                                 /\ records[k].pg.context = "T"
  <2>1. PICK s \in Stations : \E p \in DOMAIN stream[s] : records[k] = stream[s][p]
    BY DEF Judged, World, NothingInvented, AreWritten
  <2>2. PICK p \in DOMAIN stream[s] : records[k] = stream[s][p]
    BY <2>1
  <2>3. IsNth(records[k], s, p)
    BY <2>2 DEF Judged, World, StreamsAreNumbered
  <2>4. records[k].ms = s /\ s # NONE /\ records[k].gs = NONE /\ records[k].pg.context = "T"
    BY <2>3, DeliveryAssumption DEF IsNth
  <2>5. Source(records[k]) = <<s>>
    BY <2>4 DEF Source
  <2> QED BY <2>2, <2>4, <2>5
<1>4. CleanIsOneRun
  BY CleanRuns DEF Judged
<1>5. PICK s \in Stations : Source(records[1]) = <<s>> /\ records[1].pg.context = "T"
  BY <1>2, <1>3
<1>6. ASSUME NEW k \in DOMAIN records
      PROVE  \E p \in DOMAIN stream[s] : records[k] = stream[s][p]
  <2>1. PICK t \in Stations : /\ \E p \in DOMAIN stream[t] : records[k] = stream[t][p]
                              /\ Source(records[k]) = <<t>>
    BY <1>3
  <2>2. Source(records[k]) = Source(records[1])
    BY <1>2, <1>4 DEF CleanIsOneRun
  <2>3. t = s
    BY <1>5, <2>1, <2>2
  <2> QED BY <2>1, <2>3
<1>7. kind = "Transaction"
  <2>1. records[1].pg # NONE
    BY <1>2, <1>4 DEF CleanIsOneRun
  <2>2. IsTransaction(records[1])
    BY <1>5, <2>1 DEF IsTransaction
  <2> QED BY <1>2, <2>2 DEF Judged, DelimitedSoFar, Clean, Typed, TypeOK
<1> QED BY <1>1, <1>2, <1>6, <1>7

\* A record of a station holds a begin or an end exactly if its marker is one.
LEMMA MarkersOfTheRecord ==
  ASSUME NEW k \in DOMAIN records, NEW s, NEW p, IsNth(records[k], s, p)
  PROVE  /\ BeginsIn(k) <=> Tx(records[k]) = "B"
         /\ EndsIn(k) <=> Tx(records[k]) = "E"
         /\ Tx(records[k]) \in {"B", "C", "E"}
<1>1. DOMAIN records[k].readings = {1} /\ Tx(records[k]) \in {"B", "C", "E"}
  BY DEF IsNth, Record
<1>2. Tx(records[k]) # NONE
  BY <1>1, AbsenceAssumption DEF Marker
<1> QED BY <1>1, <1>2 DEF BeginsIn, EndsIn, Tx, IsBegin, IsEnd

\* The first record fixes the place, its distance from the first the place of
\* each other one; a begin stands at place 1, so that no run passes the wrap.
LEMMA CleanIsWhole ==
  ASSUME Judged, Clean
  PROVE  CleanIsOneWholeTransaction
<1> DEFINE L == Len(records)
<1>1. /\ L \in Nat /\ L >= 1 /\ DOMAIN records = 1 .. L /\ kind = "Transaction"
  BY CleanIsOfOneStation
<1>2. PICK s \in Stations : \A k \in DOMAIN records :
        \E p \in DOMAIN stream[s] : records[k] = stream[s][p]
  BY CleanIsOfOneStation
<1>3. /\ stream[s] \in Seq(Record) /\ Len(stream[s]) \in Nat
      /\ DOMAIN stream[s] = 1 .. Len(stream[s]) /\ Len(stream[s]) <= CounterSize
      /\ \A p \in DOMAIN stream[s] : IsNth(stream[s][p], s, p)
      /\ stream[s] # <<>> => Tx(stream[s][1]) = "B"
  BY BoundsAreNaturals DEF Judged, World, StreamsAreNumbered
<1> DEFINE At(k, p) == p \in 1 .. Len(stream[s]) /\ records[k] = stream[s][p]
<1>4. \A k \in 1 .. L : \E p : At(k, p)
  BY <1>1, <1>2, <1>3
<1>5. ASSUME NEW k \in 1 .. L, NEW p, At(k, p)
      PROVE  /\ p \in 1 .. CounterSize /\ records[k].pg.number = Counter(p)
             /\ Tx(records[k]) = "B" <=> k = 1
             /\ Tx(records[k]) = "E" <=> k = L
             /\ Tx(records[k]) \in {"B", "C", "E"}
             /\ p = 1 => k = 1
  <2>1. IsNth(records[k], s, p)
    BY <1>3, <1>5
  <2>2. /\ BeginsIn(k) <=> k = 1
        /\ EndsIn(k) <=> k = L
    BY <1>1, CleanDelimits DEF Judged
  <2>3. /\ BeginsIn(k) <=> Tx(records[k]) = "B"
        /\ EndsIn(k) <=> Tx(records[k]) = "E"
        /\ Tx(records[k]) \in {"B", "C", "E"}
    BY <1>1, <2>1, MarkersOfTheRecord
  <2>4. p = 1 => Tx(records[k]) = "B"
    BY <1>3, <1>5
  <2>5. p \in 1 .. CounterSize
    BY <1>3, <1>5, BoundsAreNaturals
  <2> QED BY <2>1, <2>2, <2>3, <2>4, <2>5 DEF IsNth, Counter
<1>6. ASSUME NEW k \in 1 .. L, NEW m \in 1 .. L, NEW p, NEW q, At(k, p), At(m, q),
             k <= m, m - k < CounterSize
      PROVE  q = PlaceAfter(p, m - k)
  <2>1. /\ p \in 1 .. CounterSize /\ records[k].pg.number = Counter(p)
        /\ q \in 1 .. CounterSize /\ records[m].pg.number = Counter(q)
    BY <1>5, <1>6
  <2>2. CASE k = m
    <3>1. Counter(p) = Shift(Counter(p), 0) /\ Counter(q) = Counter(p)
      BY <2>1, <2>2, CountersWrap, BoundsAreNaturals DEF Shift
    <3> QED BY <2>1, <2>2, <3>1, CountersNamePlaces, BoundsAreNaturals
  <2>3. CASE k < m
    <3>1. Counter(q) = Shift(Counter(p), m - k)
      BY <1>1, <1>6, <2>1, <2>3, CleanRuns DEF Judged, CleanIsOneRun
    <3>2. m - k \in 0 .. CounterSize - 1
      BY <1>6, <2>3, BoundsAreNaturals
    <3> QED BY <2>1, <3>1, <3>2, CountersNamePlaces
  <2> QED BY <1>6, <2>2, <2>3
<1> HIDE DEF At
<1>7. PICK a : At(1, a)
  BY <1>1, <1>4
<1>8. a \in 1 .. CounterSize /\ Tx(records[1]) = "B" /\ 1 \in 1 .. L
  <2>1. 1 \in 1 .. L
    BY <1>1
  <2> HIDE DEF L
  <2> QED BY <1>5, <1>7, <2>1
<1>9. L <= CounterSize
  <2> SUFFICES ASSUME L > CounterSize PROVE FALSE
    BY <1>1, BoundsAreNaturals
  <2>1. 2 \in 1 .. L /\ CounterSize + 1 \in 1 .. L
    BY <1>1, BoundsAreNaturals
  <2>2. PICK p : At(2, p)
    BY <1>4, <2>1
  <2>3. PICK q : At(CounterSize + 1, q)
    BY <1>4, <2>1
  <2>4. p = PlaceAfter(a, 2 - 1)
    BY <1>6, <1>7, <1>8, <2>1, <2>2, BoundsAreNaturals
  <2>5. q = PlaceAfter(p, (CounterSize + 1) - 2)
    BY <1>6, <2>1, <2>2, <2>3, BoundsAreNaturals
  <2>6. q = a
    BY <1>8, <2>4, <2>5, BoundsAreNaturals DEF PlaceAfter
  <2>7. records[CounterSize + 1] = records[1]
    BY <1>7, <2>3, <2>6 DEF At
  <2>8. CounterSize + 1 = 1
    BY <1>5, <1>8, <2>1, <2>3, <2>7
  <2> QED BY <2>8, BoundsAreNaturals
<1>10. ASSUME NEW k \in 1 .. L, NEW p, At(k, p) PROVE p = PlaceAfter(a, k - 1)
  BY <1>1, <1>6, <1>7, <1>8, <1>9, <1>10, BoundsAreNaturals
<1>11. a + L - 1 <= CounterSize
  <2> SUFFICES ASSUME a + L - 1 > CounterSize PROVE FALSE
    BY <1>1, <1>8, BoundsAreNaturals
  <2> DEFINE m == CounterSize - a + 2
  <2>1. m \in 1 .. L /\ m # 1 /\ a + (m - 1) = CounterSize + 1
    BY <1>1, <1>8, BoundsAreNaturals
  <2>2. PICK p : At(m, p)
    BY <1>4, <2>1
  <2>3. p = PlaceAfter(a, m - 1)
    <3> HIDE DEF m
    <3> QED BY <1>10, <2>1, <2>2
  <2>4. p = 1
    <3> HIDE DEF m
    <3>1. m \in Int /\ a \in Int
      BY <1>1, <1>8, <2>1
    <3>2. ~(a + (m - 1) <= CounterSize) /\ a + (m - 1) - CounterSize = 1
      BY <2>1, <3>1, BoundsAreNaturals
    <3> QED BY <2>3, <3>2 DEF PlaceAfter
  <2> HIDE DEF m
  <2> QED BY <1>5, <2>1, <2>2, <2>4
<1>12. ASSUME NEW k \in 1 .. L PROVE At(k, a + k - 1)
  <2>1. PICK p : At(k, p)
    BY <1>4
  <2>2. p = a + k - 1
    BY <1>1, <1>8, <1>10, <1>11, <2>1, BoundsAreNaturals DEF PlaceAfter
  <2> QED BY <2>1, <2>2
<1> DEFINE b == a + L - 1
<1>13. a \in DOMAIN stream[s] /\ b \in DOMAIN stream[s] /\ a <= b /\ a \in Nat /\ b \in Nat
  <2>1. At(L, b)
    BY <1>1, <1>12
  <2> QED BY <1>1, <1>3, <1>7, <1>8, <2>1 DEF At
<1>14. records = SubSeq(stream[s], a, b)
  <2>1. /\ SubSeq(stream[s], a, b) \in Seq(Record) /\ Len(SubSeq(stream[s], a, b)) = L
        /\ \A k \in 1 .. L : SubSeq(stream[s], a, b)[k] = stream[s][a + k - 1]
    BY <1>1, <1>3, <1>13
  <2>2. records \in Seq(Record)
    BY DEF Judged, Typed, TypeOK
  <2>3. \A k \in 1 .. L : records[k] = stream[s][a + k - 1]
    BY <1>12 DEF At
  <2> QED BY <1>1, <2>1, <2>2, <2>3
<1>15. IsWholeTransaction(s, a, b)
  <2>1. \A k \in 1 .. L : Tx(stream[s][a + k - 1]) = Tx(records[k])
    BY <1>12 DEF At
  <2>2. Tx(stream[s][a]) = "B" /\ Tx(stream[s][b]) = "E"
    <3>1. a + 1 - 1 = a /\ L \in 1 .. L /\ At(L, a + L - 1)
      BY <1>1, <1>8, <1>12
    <3> QED BY <1>5, <1>8, <2>1, <3>1
  <2>3. ASSUME NEW n \in a + 1 .. b - 1 PROVE Tx(stream[s][n]) = "C"
    <3> DEFINE k == n - a + 1
    <3>1. k \in 1 .. L /\ k # 1 /\ k # L /\ a + k - 1 = n
      BY <1>1, <1>8
    <3> HIDE DEF k
    <3>2. At(k, a + k - 1)
      BY <1>12, <3>1
    <3> QED BY <1>5, <2>1, <3>1, <3>2
  <2> QED BY <2>2, <2>3 DEF IsWholeTransaction
<1> QED BY <1>13, <1>14, <1>15 DEF CleanIsOneWholeTransaction

\* The world and what the check component knows of it, together.
LEMMA JudgedAlways == DeliverySpec => []Judged
<1>1. DeliveryInit => Judged
  <2> SUFFICES ASSUME DeliveryInit PROVE Judged
    OBVIOUS
  <2>1. Typed
    BY DEF DeliveryInit, Init, Typed, TypeOK, Untouched, Phase, Option
  <2>2. OneRunSoFar /\ DelimitedSoFar /\ SomethingJudged
    BY DEF DeliveryInit, Init, OneRunSoFar, DelimitedSoFar, SomethingJudged, Concluding
  <2>3. StreamsAreNumbered
    BY BoundsAreNaturals DEF DeliveryInit, StreamsAreNumbered
  <2>4. NothingInvented
    BY DEF DeliveryInit, Init, NothingInvented, AreWritten
  <2> QED BY <2>1, <2>2, <2>3, <2>4 DEF Judged, World
<1>2. Judged /\ [DeliveryNext]_<<vars, world>> => Judged'
  BY WorldStep, TypeStep, UntouchedStep, OneRunStep, DelimitedStep, SomethingJudgedStep
     DEF Judged, Typed
<1> QED BY <1>1, <1>2, PTL DEF DeliverySpec

\* Whatever the way lost, repeated, reordered or mixed, a clean report is about
\* one whole transaction of one station, exactly as it was written: for any
\* number of stations and records, as long as no counter value comes twice.
THEOREM CleanIsAlwaysAWholeTransaction == DeliverySpec => []CleanIsOneWholeTransaction
<1>1. Judged => CleanIsOneWholeTransaction
  BY CleanIsWhole DEF CleanIsOneWholeTransaction
<1> QED BY <1>1, JudgedAlways, PTL

-----------------------------------------------------------------------------
(***************************************************************************)
(* Clean bills the transaction.                                            *)
(***************************************************************************)
Last == records[Len(records)].readings[1]

\* The register of the last record, once that record was gone through, ends
\* with the value it states.
EndsWithTheLast ==
  /\ pc \notin Concluding => j = 1
  /\ findings = {} /\ records # <<>> /\ pc \in Concluding
       /\ (pc = "totals" => i = Len(records) /\ j > 1)
     => (totals[Last.obis] # NONE => totals[Last.obis].end = Last.value)

\* The one reading of the last record closes its register.
LEMMA LastCloses ==
  ASSUME Judged, findings = {}, records # <<>>, pc \in Concluding
  PROVE  /\ Len(records) \in DOMAIN records /\ Len(records[Len(records)].readings) = 1
         /\ Last.obis \in Registers /\ Last.value \in Int
         /\ Heads(records[Len(records)]) = {1}
         /\ kind = "Transaction" /\ Closes(records[Len(records)], Last.obis, kind) = 1
<1> DEFINE L == Len(records)
           r == records[L]
<1>1. L \in DOMAIN records /\ 1 \in DOMAIN records
  BY DEF Judged, Typed, TypeOK
<1>2. ASSUME NEW k \in DOMAIN records
      PROVE  \E s \in Stations : \E p \in Nat : IsNth(records[k], s, p)
  BY DEF Judged, World, NothingInvented, AreWritten, StreamsAreNumbered
<1>3. PICK s \in Stations : \E p \in Nat : IsNth(r, s, p)
  BY <1>1, <1>2
<1>4. PICK p \in Nat : IsNth(r, s, p)
  BY <1>3
<1>5. /\ r \in Record /\ Len(r.readings) = 1 /\ DOMAIN r.readings = {1}
      /\ Last.obis \in Registers /\ Last.value \in Int
  BY <1>4 DEF IsNth, Record, Last
<1>6. kind = "Transaction"
  <2>1. PICK t \in Stations : \E q \in Nat : IsNth(records[1], t, q)
    BY <1>1, <1>2
  <2>2. DOMAIN records[1].readings = {1} /\ records[1].readings[1].tx # NONE
    BY <2>1, AbsenceAssumption DEF IsNth, Record, Tx, Marker
  <2>3. IsTransaction(records[1])
    BY <2>2 DEF IsTransaction
  <2> QED BY <1>1, <2>3 DEF Judged, DelimitedSoFar, Typed, TypeOK
<1>7. EndsIn(L)
  BY <1>1, <1>6 DEF Judged, DelimitedSoFar
<1>8. Last.tx # NONE /\ IsEnd(Last.tx)
  BY <1>5, <1>7 DEF EndsIn, Last
<1>9. Series(r, Last.obis) = {1} /\ Marked(r, Last.obis, IsEnd) = {1}
  BY <1>5, <1>8 DEF Series, Marked, Last
<1>10. FirstOf({1}) = 1
  BY DEF FirstOf
<1>11. Closes(r, Last.obis, kind) = 1
  BY <1>6, <1>9, <1>10 DEF Closes
<1>12. Heads(r) = {1}
  BY <1>5, <1>9, <1>10, AbsenceAssumption DEF Heads, Last
<1> QED BY <1>1, <1>5, <1>6, <1>11, <1>12

\* Where its register is handled, the total ends with its value.
LEMMA LastTotalEnds ==
  ASSUME Judged, TotalRegister, findings = {}, i = Len(records), j = 1,
         totals'[Last.obis] # NONE
  PROVE  totals'[Last.obis].end = Last.value
<1> DEFINE r == records[i].readings
           o == r[j].obis
           b == Opens(records[i], o, kind)
           e == Closes(records[i], o, kind)
           Opening == b # 0 /\ r[b].value # NONE /\ r[b].unit # NONE /\ totals[o] = NONE
           fresh == [begin |-> r[b].value, end |-> r[b].value, delta |-> 0, unit |-> r[b].unit]
           opened == IF Opening THEN [totals EXCEPT ![o] = fresh] ELSE totals
           Paired == e # 0 /\ r[e].value # NONE /\ opened[o] # NONE
<1>1. totals' = IF Paired THEN [opened EXCEPT ![o] = Closed(@, r[e].value)] ELSE opened
  BY DEF TotalRegister
<1>2. totals \in [Registers -> Option(Total)] /\ pc = "totals" /\ records # <<>>
  BY DEF Judged, Typed, TypeOK, TotalRegister, AtReading
<1>3. o = Last.obis /\ r[1] = Last
  BY DEF Last
<1>4. e = 1 /\ o \in Registers /\ r[e].value = Last.value /\ Last.value # NONE
  BY <1>2, <1>3, LastCloses, AbsenceAssumption DEF Concluding
<1> HIDE DEF r, b, e, o
<1>5. opened \in [Registers -> Option(Total) \union {fresh}]
  BY <1>2, <1>4
<1> HIDE DEF opened, fresh
<1>6. opened[o] # NONE
  BY <1>1, <1>3
<1>7. totals'[o] = Closed(opened[o], Last.value)
  BY <1>1, <1>4, <1>5, <1>6
<1>8. opened[o] \in Total \union {fresh}
  BY <1>4, <1>5, <1>6 DEF Option
<1>9. \A t \in Total \union {fresh} : \A v : Closed(t, v).end = v
  BY DEF Closed, Total, fresh
<1> QED BY <1>3, <1>7, <1>8, <1>9

\* The last record's only reading is the last to touch the total of its register.
LEMMA EndsWithTheLastStep ==
  ASSUME Judged, EndsWithTheLast, Step
  PROVE  EndsWithTheLast'
<1>1. CASE UNCHANGED vars
  BY <1>1 DEF EndsWithTheLast, Last, vars, ledger
<1>2. ASSUME NEW rs \in Seq(Record), Validate(rs) PROVE EndsWithTheLast'
  BY <1>2 DEF Validate, EndsWithTheLast, Concluding
<1>3. CASE TotalRegister
  <2>1. /\ pc' = pc /\ pc = "totals" /\ i' = i /\ j' = j + 1 /\ records' = records
        /\ findings' = findings /\ j <= Len(records[i].readings) /\ j \in Nat \ {0}
    BY <1>3 DEF TotalRegister, AtReading, Judged, Typed, TypeOK
  <2>2. ASSUME findings = {}, records # <<>>, i = Len(records), totals'[Last.obis] # NONE
        PROVE  totals'[Last.obis].end = Last.value
    <3>1. Len(records[i].readings) = 1
      <4>1. pc \in Concluding
        BY <2>1 DEF Concluding
      <4>2. Len(records[Len(records)].readings) = 1
        BY <2>2, <4>1, LastCloses
      <4> QED BY <2>2, <4>2
    <3>2. j = 1
      BY <2>1, <3>1
    <3> QED BY <1>3, <2>2, <3>2, LastTotalEnds
  <2> QED BY <2>1, <2>2 DEF EndsWithTheLast, Last, Concluding
<1>4. CASE PassReading
  <2>1. /\ pc' = pc /\ pc = "totals" /\ i' = i /\ records' = records
        /\ findings' = findings /\ j <= Len(records[i].readings) /\ j \in Nat \ {0}
        /\ j \notin Heads(records[i])
    BY <1>4 DEF PassReading, AtReading, Judged, Typed, TypeOK
  <2>2. ~(findings = {} /\ records # <<>> /\ i = Len(records))
    <3> SUFFICES ASSUME findings = {}, records # <<>>, i = Len(records) PROVE FALSE
      OBVIOUS
    <3>1. pc \in Concluding
      BY <2>1 DEF Concluding
    <3>2. Len(records[Len(records)].readings) = 1 /\ Heads(records[Len(records)]) = {1}
      BY <3>1, LastCloses
    <3>3. Len(records[i].readings) = 1 /\ Heads(records[i]) = {1}
      BY <3>2
    <3> QED BY <2>1, <3>3
  <2> QED BY <2>1, <2>2 DEF EndsWithTheLast, Concluding
<1>5. CASE NextRecord
  <2>1. /\ pc = "totals" /\ records' = records /\ findings' = findings /\ totals' = totals
        /\ j' = 1 /\ j > Len(records[i].readings) /\ i <= Len(records)
        /\ pc' = "totals" \/ (pc' = "conclude" /\ ~(i < Len(records)))
    BY <1>5 DEF NextRecord, ledger
  <2>2. i \in Nat /\ Len(records) \in Nat
    BY DEF Judged, Typed, TypeOK
  <2>3. CASE pc' = "totals"
    BY <2>1, <2>3 DEF EndsWithTheLast, Concluding
  <2>4. CASE pc' = "conclude"
    <3>1. i = Len(records)
      BY <2>1, <2>2, <2>4
    <3>2. findings = {} /\ records # <<>> => j > 1
      BY <2>1, <3>1, LastCloses DEF Concluding
    <3> QED BY <2>1, <2>4, <3>1, <3>2 DEF EndsWithTheLast, Last, Concluding
  <2> QED BY <2>1, <2>3, <2>4
<1>6. CASE Check /\ ~TotalRegister /\ ~PassReading /\ ~NextRecord
  <2>1. /\ records' = records /\ totals' = totals /\ j' = j /\ findings \subseteq findings'
        /\ \/ pc' \notin Concluding /\ pc \notin Concluding
           \/ pc' = "totals" /\ pc \notin Concluding
           \/ pc' = "done" /\ pc = "conclude"
    BY <1>6 DEF Check, CheckReadable, CheckPair, CheckSource, CheckRepeat, ScanRecord,
       CheckMarkers, Conclude, Pass, ledger, Concluding
  <2> QED BY <2>1 DEF EndsWithTheLast, Last, Concluding
<1> QED BY <1>1, <1>2, <1>3, <1>4, <1>5, <1>6 DEF Step

\* What the totals of a clean report span is as long as the transaction.
LEMMA CleanBills ==
  ASSUME Judged, SpansSoFar, EndsWithTheLast
  PROVE  CleanBillsTheTransaction
<1> DEFINE L == Len(records)
           Ends == records[L].readings[1].obis
<1> SUFFICES ASSUME Clean, totals[Ends] # NONE, Ends \in Registers
             PROVE  totals[Ends].delta = L - 1
  BY DEF CleanBillsTheTransaction
<1>1. L \in Nat /\ L >= 1 /\ DOMAIN records = 1 .. L /\ kind = "Transaction"
  BY CleanIsOfOneStation
<1>2. PICK s \in Stations : \E a, b \in DOMAIN stream[s] :
        a <= b /\ records = SubSeq(stream[s], a, b)
  BY CleanIsWhole DEF CleanIsOneWholeTransaction
<1>3. PICK a \in DOMAIN stream[s], b \in DOMAIN stream[s] :
        a <= b /\ records = SubSeq(stream[s], a, b)
  BY <1>2
<1>4. stream[s] \in Seq(Record) /\ \A p \in DOMAIN stream[s] : IsNth(stream[s][p], s, p)
  BY DEF Judged, World, StreamsAreNumbered
<1>5. a \in Nat /\ b \in Nat /\ L = b - a + 1
      /\ records[1] = stream[s][a] /\ records[L] = stream[s][b]
  <2>1. /\ a \in Nat /\ b \in Nat /\ 1 <= a /\ a <= b
        /\ stream[s] \in Seq(Record) /\ Len(stream[s]) \in Nat /\ b <= Len(stream[s])
    <3>1. a <= b
      BY <1>3
    <3>2. stream[s] \in Seq(Record)
      BY <1>4
    <3>3. DOMAIN stream[s] = 1 .. Len(stream[s]) /\ Len(stream[s]) \in Nat
      BY <3>2
    <3> QED BY <3>1, <3>2, <3>3
  <2> DEFINE part == SubSeq(stream[s], a, b)
  <2>2. /\ part \in Seq(Record) /\ Len(part) = b - a + 1
        /\ \A k \in 1 .. b - a + 1 : part[k] = stream[s][a + k - 1]
    BY <2>1
  <2> HIDE DEF part
  <2>3. L = b - a + 1
    BY <1>3, <2>2 DEF part
  <2>4. \A k \in 1 .. L : records[k] = stream[s][a + k - 1]
    BY <1>3, <2>2, <2>3 DEF part
  <2>5. 1 \in 1 .. L /\ L \in 1 .. L
    BY <1>1
  <2> HIDE DEF L
  <2>6. records[1] = stream[s][a + 1 - 1] /\ records[L] = stream[s][a + L - 1]
    BY <2>4, <2>5
  <2>7. a + 1 - 1 = a /\ a + L - 1 = b
    BY <2>1, <2>3
  <2> QED BY <2>1, <2>3, <2>6, <2>7
<1>6. IsNth(records[1], s, a) /\ IsNth(records[L], s, b)
  BY <1>3, <1>4, <1>5
<1>7. totals[Ends].end = b - 1
  <2>1. totals[Last.obis].end = Last.value
    BY <1>1 DEF EndsWithTheLast, Clean, Answered, Concluding, Last
  <2> QED BY <1>6, <2>1 DEF IsNth, Last
<1>8. totals[Ends].begin = a - 1
  <2>1. Spans(totals[Ends], Ends)
    BY <1>1 DEF SpansSoFar, Clean
  <2>2. PICK m \in Marked(records[1], Ends, IsBegin) :
          records[1].readings[m].value = totals[Ends].begin
    BY <2>1 DEF Spans
  <2>3. m = 1
    BY <1>6 DEF IsNth, Record, Marked, Series
  <2> QED BY <1>6, <2>2, <2>3 DEF IsNth
<1>9. totals[Ends].delta = totals[Ends].end - totals[Ends].begin
  BY <1>1 DEF SpansSoFar, Spans, Clean
<1> QED BY <1>5, <1>7, <1>8, <1>9

\* What a clean report bills for the register of the last record is what the
\* meter moved between the first record and the last, whatever happened on the
\* way to the caller.
THEOREM CleanAlwaysBillsTheTransaction == DeliverySpec => []CleanBillsTheTransaction
<1>1. DeliveryInit => SpansSoFar /\ EndsWithTheLast
  BY DEF DeliveryInit, Init, SpansSoFar, EndsWithTheLast, Concluding
<1>2. Judged /\ [DeliveryNext]_<<vars, world>> => Step
  BY WorldStep DEF Judged
<1>3. Judged /\ SpansSoFar /\ EndsWithTheLast /\ Step => SpansSoFar' /\ EndsWithTheLast'
  BY SpansStep, EndsWithTheLastStep DEF Judged
<1>4. Judged /\ SpansSoFar /\ EndsWithTheLast => CleanBillsTheTransaction
  BY CleanBills
<1> QED BY <1>1, <1>2, <1>3, <1>4, JudgedAlways, PTL DEF DeliverySpec

-----------------------------------------------------------------------------
(***************************************************************************)
(* A whole transaction is clean.                                           *)
(***************************************************************************)

\* records is a transaction that station s wrote as its records a to b, and the
\* register read at its end is the one read at its begin.
Arrived(s, a, b) ==
  /\ a \in DOMAIN stream[s] /\ b \in DOMAIN stream[s] /\ a < b
  /\ records = SubSeq(stream[s], a, b)
  /\ IsWholeTransaction(s, a, b)
  /\ stream[s][a].readings[1].obis = stream[s][b].readings[1].obis

\* The k-th record of what arrived is record a + k - 1 of the station.
LEMMA ArrivedRecords ==
  ASSUME World, NEW s \in Stations, NEW a, NEW b, Arrived(s, a, b)
  PROVE  /\ a \in Nat /\ a >= 1 /\ b \in Nat /\ a < b /\ b <= CounterSize
         /\ Len(records) = b - a + 1 /\ DOMAIN records = 1 .. Len(records)
         /\ \A k \in 1 .. Len(records) :
              /\ IsNth(records[k], s, a + k - 1)
              /\ Tx(records[k]) = "B" <=> k = 1
              /\ Tx(records[k]) = "E" <=> k = Len(records)
         /\ records[1].readings[1].obis = records[Len(records)].readings[1].obis
<1> DEFINE L == Len(records)
<1>1. /\ stream[s] \in Seq(Record) /\ Len(stream[s]) \in Nat
      /\ DOMAIN stream[s] = 1 .. Len(stream[s]) /\ Len(stream[s]) <= CounterSize
      /\ \A p \in DOMAIN stream[s] : IsNth(stream[s][p], s, p)
  BY BoundsAreNaturals DEF World, StreamsAreNumbered
<1>2. a \in Nat /\ a >= 1 /\ b \in Nat /\ a < b /\ b <= Len(stream[s]) /\ b <= CounterSize
  BY <1>1, BoundsAreNaturals DEF Arrived
<1>3. /\ L = b - a + 1 /\ DOMAIN records = 1 .. L
      /\ \A k \in 1 .. L : records[k] = stream[s][a + k - 1]
  <2> DEFINE part == SubSeq(stream[s], a, b)
  <2>1. /\ part \in Seq(Record) /\ Len(part) = b - a + 1
        /\ \A k \in 1 .. b - a + 1 : part[k] = stream[s][a + k - 1]
    BY <1>1, <1>2
  <2>2. records = part
    BY DEF Arrived
  <2> HIDE DEF part
  <2> QED BY <2>1, <2>2
<1>4. ASSUME NEW k \in 1 .. L
      PROVE  /\ IsNth(records[k], s, a + k - 1)
             /\ Tx(records[k]) = "B" <=> k = 1
             /\ Tx(records[k]) = "E" <=> k = L
  <2> DEFINE p == a + k - 1
  <2>1. p \in DOMAIN stream[s] /\ p \in a .. b /\ (p = a <=> k = 1) /\ (p = b <=> k = L)
    BY <1>1, <1>2, <1>3
  <2>2. records[k] = stream[s][p]
    BY <1>3
  <2> HIDE DEF p
  <2>3. IsNth(records[k], s, p)
    BY <1>1, <2>1, <2>2
  <2>4. p # a /\ p # b => p \in a + 1 .. b - 1
    BY <1>2, <2>1
  <2>5. a # b
    BY <1>2
  <2>6. /\ Tx(stream[s][a]) = "B" /\ Tx(stream[s][b]) = "E"
        /\ p # a /\ p # b => Tx(stream[s][p]) = "C"
    BY <2>4 DEF Arrived, IsWholeTransaction
  <2> HIDE DEF L
  <2> QED BY <2>1, <2>2, <2>3, <2>5, <2>6 DEF p
<1>5. records[1] = stream[s][a] /\ records[L] = stream[s][b]
  <2>1. 1 \in 1 .. L /\ L \in 1 .. L /\ a + 1 - 1 = a /\ a + L - 1 = b
    BY <1>2, <1>3
  <2> HIDE DEF L
  <2> QED BY <1>3, <2>1
<1> QED BY <1>2, <1>3, <1>4, <1>5 DEF Arrived

\* The counters of neighbours follow each other, across the wrap too.
LEMMA NeighboursFollow ==
  ASSUME NEW p \in 1 .. CounterSize, p < CounterSize
  PROVE  Counter(p + 1) = (Counter(p) + 1) % CounterSize
<1>1. CounterSize \in Nat /\ CounterSize > 1 /\ Base \in Nat /\ Base < CounterSize /\ p \in Nat
  BY BoundsAreNaturals
<1>2. /\ Counter(p) = IF Base + p <= CounterSize THEN Base + (p - 1) ELSE Base + (p - 1) - CounterSize
      /\ Counter(p + 1) = IF Base + (p + 1) <= CounterSize THEN Base + p ELSE Base + p - CounterSize
      /\ Counter(p) \in 0 .. CounterSize - 1
  <2>1. p + 1 \in 1 .. CounterSize /\ (p + 1) - 1 = p
    BY <1>1
  <2> QED BY <2>1, CountersWrap
<1>3. CASE Counter(p) + 1 < CounterSize
  <2>1. (Counter(p) + 1) % CounterSize = Counter(p) + 1
    <3> DEFINE n == Counter(p) + 1
    <3>1. n \in Nat /\ n < CounterSize
      BY <1>1, <1>2, <1>3
    <3> HIDE DEF n
    <3> QED BY <1>1, <3>1 DEF n
  <2> QED BY <1>1, <1>2, <1>3, <2>1
<1>4. CASE Counter(p) + 1 = CounterSize
  <2>1. (Counter(p) + 1) % CounterSize = 0
    BY <1>1, <1>4
  <2> QED BY <1>1, <1>2, <1>4, <2>1
<1> QED BY <1>1, <1>2, <1>3, <1>4

\* The loops find nothing at a record of what arrived.
LEMMA NoRecordIsWrong ==
  ASSUME World, NEW s \in Stations, NEW a, NEW b, Arrived(s, a, b), NEW k \in DOMAIN records
  PROVE  FoundAt(k) = {}
<1> DEFINE L == Len(records)
<1>1. /\ a \in Nat /\ a >= 1 /\ b \in Nat /\ a < b /\ b <= CounterSize
      /\ L = b - a + 1 /\ DOMAIN records = 1 .. L
      /\ \A m \in 1 .. L : IsNth(records[m], s, a + m - 1)
  BY ArrivedRecords
<1>2. IsNth(records[k], s, a + k - 1)
  BY <1>1
<1>3. ~Unreadable(k)
  BY <1>2 DEF Unreadable, IsNth
<1>4. k > 1 => IsNth(records[k - 1], s, a + k - 2)
  BY <1>1
<1>5. ~Changed(k)
  BY <1>2, <1>4 DEF Changed, PagedPair, IsNth
<1>6. ~Broken(k)
  <2> SUFFICES ASSUME k > 1 PROVE IsFollowedBy(records[k - 1].pg, records[k].pg)
    BY DEF Broken, PagedPair
  <2> DEFINE p == a + k - 2
  <2>1. p \in 1 .. CounterSize /\ p < CounterSize /\ p + 1 = a + k - 1
    BY <1>1, BoundsAreNaturals
  <2> HIDE DEF p
  <2>2. records[k - 1].pg.number = Counter(p) /\ records[k].pg.number = Counter(p + 1)
    BY <1>2, <1>4, <2>1 DEF IsNth, Counter, p
  <2>3. records[k - 1].pg.context = records[k].pg.context
    BY <1>2, <1>4 DEF IsNth
  <2> QED BY <2>1, <2>2, <2>3, NeighboursFollow DEF IsFollowedBy
<1>7. ~Foreign(k)
  <2>1. \A m \in 1 .. L : records[m].ms = s /\ records[m].gs = NONE
    BY <1>1 DEF IsNth
  <2>2. s # NONE /\ 1 \in 1 .. L
    BY <1>1, DeliveryAssumption
  <2>3. \A m \in 1 .. L : Source(records[m]) = <<s>>
    BY <2>1, <2>2 DEF Source
  <2> QED BY <1>1, <2>2, <2>3 DEF Foreign
<1>8. ~Repeated(k)
  <2> SUFFICES ASSUME NEW m \in 1 .. k - 1, records[m] = records[k] PROVE FALSE
    BY DEF Repeated, PayloadDigest
  <2>1. m \in 1 .. L /\ m # k
    BY <1>1
  <2>2. records[m].readings[1].value = a + m - 1 - 1 /\ records[k].readings[1].value = a + k - 1 - 1
    BY <1>1, <1>2, <2>1 DEF IsNth
  <2> HIDE DEF L
  <2> QED BY <1>1, <2>1, <2>2
<1>9. ~Unassigned(k)
  BY <1>2 DEF Unassigned, IsNth
<1>10. ~NotGood(k) /\ ~Flagged(k) /\ ~Faulted(k)
  <2>1. DOMAIN records[k].readings = {1}
    BY <1>2 DEF IsNth, Record
  <2> QED BY <1>2, <2>1 DEF NotGood, Flagged, Faulted, IsNth, Tx, IsOk, AnyFlag, IsFault
<1> QED BY <1>3, <1>5, <1>6, <1>7, <1>8, <1>9, <1>10
        DEF FoundAt, OfReading, OfPair, OfSource, OfRepeat, OfScan, When

\* Each record holds one reading, which opens its register in the first record,
\* closes it in the last and does neither in between.
LEMMA ArrivedEnds ==
  ASSUME World, Reporting, NEW s \in Stations, NEW a, NEW b, Arrived(s, a, b)
  PROVE  /\ kind = "Transaction"
         /\ \A k \in DOMAIN records :
              /\ DOMAIN records[k].readings = {1}
              /\ BeginsIn(k) <=> k = 1
              /\ EndsIn(k) <=> k = Len(records)
              /\ \A o \in Registers :
                   /\ Opens(records[k], o, kind) # 0
                        <=> k = 1 /\ o = records[k].readings[1].obis
                   /\ Opens(records[k], o, kind) \in {0, 1}
                   /\ Closes(records[k], o, kind) # 0
                        <=> k = Len(records) /\ o = records[k].readings[1].obis
                   /\ Closes(records[k], o, kind) \in {0, 1}
<1> DEFINE L == Len(records)
<1>1. /\ a \in Nat /\ b \in Nat /\ a < b /\ L = b - a + 1 /\ DOMAIN records = 1 .. L
      /\ \A k \in 1 .. L : /\ IsNth(records[k], s, a + k - 1)
                           /\ Tx(records[k]) = "B" <=> k = 1
                           /\ Tx(records[k]) = "E" <=> k = L
  BY ArrivedRecords
<1> HIDE DEF L
<1>2. ASSUME NEW k \in 1 .. L
      PROVE  /\ DOMAIN records[k].readings = {1}
             /\ BeginsIn(k) <=> k = 1
             /\ EndsIn(k) <=> k = L
             /\ Tx(records[k]) \in {"B", "C", "E"} /\ Tx(records[k]) # NONE
             /\ Tx(records[k]) = "B" <=> k = 1
             /\ Tx(records[k]) = "E" <=> k = L
  <2>1. IsNth(records[k], s, a + k - 1)
    BY <1>1
  <2>2. DOMAIN records[k].readings = {1} /\ Tx(records[k]) # NONE
    BY <2>1, AbsenceAssumption DEF IsNth, Record, Marker
  <2> QED BY <1>1, <2>1, <2>2, MarkersOfTheRecord
<1>3. kind = "Transaction"
  <2>1. 1 \in DOMAIN records /\ records # <<>>
    BY <1>1
  <2>2. IsTransaction(records[1])
    BY <1>1, <1>2, <2>1 DEF IsTransaction, Tx
  <2> QED BY <2>1, <2>2 DEF Reporting, FindingsSoFar
<1>4. FirstOf({1}) = 1 /\ FirstOf({}) = 0
  BY DEF FirstOf
<1>5. ASSUME NEW k \in 1 .. L, NEW o \in Registers
      PROVE  /\ Opens(records[k], o, kind) # 0 <=> k = 1 /\ o = records[k].readings[1].obis
             /\ Opens(records[k], o, kind) \in {0, 1}
             /\ Closes(records[k], o, kind) # 0 <=> k = L /\ o = records[k].readings[1].obis
             /\ Closes(records[k], o, kind) \in {0, 1}
  <2> DEFINE r == records[k]
  <2>1. /\ Marked(r, o, IsBegin) = IF k = 1 /\ o = r.readings[1].obis THEN {1} ELSE {}
        /\ Marked(r, o, IsEnd) = IF k = L /\ o = r.readings[1].obis THEN {1} ELSE {}
    <3>1. /\ DOMAIN r.readings = {1} /\ r.readings[1].tx \in {"B", "C", "E"}
          /\ r.readings[1].tx # NONE
          /\ r.readings[1].tx = "B" <=> k = 1
          /\ r.readings[1].tx = "E" <=> k = L
      BY <1>2 DEF Tx
    <3>2. /\ IsBegin(r.readings[1].tx) <=> k = 1
          /\ IsEnd(r.readings[1].tx) <=> k = L
      BY <3>1 DEF IsBegin, IsEnd
    <3> HIDE DEF r
    <3> QED BY <3>1, <3>2 DEF Marked, Series
  <2>2. /\ Opens(r, o, kind) = IF k = 1 /\ o = r.readings[1].obis THEN 1 ELSE 0
        /\ Closes(r, o, kind) = IF k = L /\ o = r.readings[1].obis THEN 1 ELSE 0
    <3> HIDE DEF r
    <3> QED BY <1>3, <1>4, <2>1 DEF Opens, Closes
  <2> QED BY <2>2
<1> QED BY <1>1, <1>2, <1>3, <1>5 DEF L

\* The markers stand where they belong, and every stamp is of a synchronised
\* clock.
LEMMA NoMarkerIsWrong ==
  ASSUME World, Reporting, Answered, NEW s \in Stations, NEW a, NEW b, Arrived(s, a, b)
  PROVE  OfMarkers = {}
<1> DEFINE L == Len(records)
<1>1. /\ L \in Nat /\ L > 1 /\ DOMAIN records = 1 .. L
      /\ \A k \in 1 .. L : IsNth(records[k], s, a + k - 1)
  BY ArrivedRecords
<1>2. \A k \in DOMAIN records : IsScanned(k)
  BY DEF Answered, IsScanned, Behind, AfterScan
<1>3. begins = {1} /\ ends = {L}
  BY <1>1, <1>2, ArrivedEnds DEF Reporting, ScannedSoFar
<1>4. /\ MarkerFindings(begins, 1, "NoBegin", "MultipleBegins") = {}
      /\ MarkerFindings(ends, Len(records), "NoEnd", "MultipleEnds") = {}
  <2>1. ASSUME NEW p, NEW none, NEW many PROVE MarkerFindings({p}, p, none, many) = {}
    <3>1. {p} # {} /\ (\E only \in {p} : {p} = {only}) /\ {p} \ {p} = {}
      OBVIOUS
    <3>2. MarkerFindings({p}, p, none, many) = {<<"MarkerOutOfPlace", only>> : only \in {p} \ {p}}
      BY <3>1 DEF MarkerFindings
    <3> QED BY <3>1, <3>2
  <2> QED BY <1>3, <2>1
<1>5. \A k \in DOMAIN records : Clocks(records[k]) = {"S"}
  <2> SUFFICES ASSUME NEW k \in DOMAIN records PROVE Clocks(records[k]) = {"S"}
    OBVIOUS
  <2>1. /\ DOMAIN records[k].readings = {1} /\ records[k].readings[1].time # NONE
        /\ records[k].readings[1].time.status = "S"
    BY <1>1 DEF IsNth, Record
  <2>2. "S" # NONE
    BY AbsenceAssumption DEF TimeStatus
  <2> QED BY <2>1, <2>2 DEF Clocks
<1>6. worst = "S" /\ worst # NONE
  <2>1. 1 \in DOMAIN records
    BY <1>1
  <2> QED BY <1>2, <1>5, <2>1 DEF Reporting, ScannedSoFar
<1> QED BY <1>4, <1>6 DEF OfMarkers, DurationIsBillable

\* Every register that is closed was opened, at a reading no greater and a stamp
\* no later.
LEMMA NoTotalIsWrong ==
  ASSUME World, Reporting, Answered, NEW s \in Stations, NEW a, NEW b, Arrived(s, a, b)
  PROVE  OfTotals = {}
<1> DEFINE L == Len(records)
           first == records[1].readings[1]
           last  == records[L].readings[1]
<1>1. /\ a \in Nat /\ b \in Nat /\ a < b /\ L = b - a + 1 /\ DOMAIN records = 1 .. L
      /\ \A k \in 1 .. L : IsNth(records[k], s, a + k - 1)
      /\ first.obis = last.obis
  BY ArrivedRecords
<1>2. 1 \in DOMAIN records /\ L \in DOMAIN records /\ L > 1
  BY <1>1
<1>3. /\ first.value = a - 1 /\ first.time.ms = a - 1
      /\ last.value = b - 1 /\ last.time.ms = b - 1
      /\ first.value # NONE /\ first.unit # NONE /\ last.value # NONE
  <2>1. IsNth(records[1], s, a + 1 - 1) /\ IsNth(records[L], s, a + L - 1)
    BY <1>1, <1>2
  <2>2. a + 1 - 1 = a /\ a + L - 1 = b /\ a - 1 \in Int /\ b - 1 \in Int
    BY <1>1
  <2> HIDE DEF L
  <2> QED BY <2>1, <2>2, AbsenceAssumption DEF IsNth
<1>4. ASSUME NEW k \in DOMAIN records, NEW o \in Registers
      PROVE  /\ OpensAt(k, o) <=> k = 1 /\ o = first.obis
             /\ ClosesAt(k, o) <=> k = L /\ o = last.obis
             /\ OpensAt(k, o) => OpeningAt(k, o) = first
             /\ ClosesAt(k, o) => ClosingAt(k, o) = last
  BY <1>3, ArrivedEnds DEF OpensAt, ClosesAt, OpeningAt, ClosingAt
<1> HIDE DEF L, first, last
<1>5. ASSUME NEW o \in Registers, totals[o] # NONE PROVE ~(totals[o].delta < 0)
  <2>1. TotalSoFar(o)
    BY DEF Reporting, TotalsSoFar
  <2>2. totals[o].begin = a - 1
    BY <1>3, <1>4, <1>5, <2>1 DEF TotalSoFar, Begun
  <2>3. totals[o].end = a - 1 \/ totals[o].end = b - 1
    BY <1>3, <1>4, <1>5, <2>1, <2>2 DEF TotalSoFar, PairsAt
  <2>4. totals[o].delta = totals[o].end - totals[o].begin
    BY <1>5, <2>1 DEF TotalSoFar
  <2> QED BY <1>1, <2>2, <2>3, <2>4
<1>6. unpaired = {}
  <2> SUFFICES ASSUME NEW o \in Registers, NEW k \in DOMAIN records, ClosesAt(k, o)
               PROVE  PairsAt(k, o)
    BY DEF Reporting, TotalsSoFar
  <2>1. OpensAt(1, o) /\ 1 \in 1 .. k
    BY <1>1, <1>2, <1>4
  <2> QED BY <2>1 DEF PairsAt
<1>7. ~(beginTime # NONE /\ endTime # NONE /\ endTime < beginTime)
  <2> SUFFICES ASSUME beginTime # NONE, endTime # NONE PROVE ~(endTime < beginTime)
    OBVIOUS
  <2>1. beginTime = a - 1
    BY <1>3, <1>4 DEF Reporting, StampsSoFar, BeginStamped, Begun
  <2>2. endTime = b - 1
    BY <1>3, <1>4 DEF Reporting, StampsSoFar, EndStamped, PairsAt
  <2> QED BY <1>1, <2>1, <2>2
<1> QED BY <1>5, <1>6, <1>7 DEF OfTotals

\* Nothing is found in a transaction that arrived whole.
LEMMA ArrivedIsClean ==
  ASSUME World, Reporting, Answered, NEW s \in Stations, NEW a, NEW b, Arrived(s, a, b)
  PROVE  findings = {}
<1>1. records # <<>>
  BY ArrivedRecords
<1>2. \A k \in DOMAIN records : FoundAt(k) = {}
  BY NoRecordIsWrong
<1>3. OfMarkers = {} /\ OfTotals = {}
  BY NoMarkerIsWrong, NoTotalIsWrong
<1> QED BY <1>1, <1>2, <1>3 DEF Reporting, FindingsSoFar

\* Nothing is held against a transaction of a station that arrived whole and in
\* order and read one register at its two ends, whatever it read in between and
\* wherever the counter wrapped.
THEOREM WholeTransactionIsAlwaysClean == DeliverySpec => []WholeTransactionIsClean
<1>1. DeliveryInit => Reporting
  BY PromiseStarts DEF DeliveryInit
<1>2. Judged /\ Reporting /\ [DeliveryNext]_<<vars, world>> => Reporting'
  BY WorldStep, ReportingStep DEF Judged
<1>3. Judged /\ Reporting => WholeTransactionIsClean
  <2> SUFFICES ASSUME Judged, Reporting, Answered, NEW s \in Stations,
                      NEW a \in DOMAIN stream[s], NEW b \in DOMAIN stream[s],
                      a < b, records = SubSeq(stream[s], a, b), IsWholeTransaction(s, a, b),
                      stream[s][a].readings[1].obis = stream[s][b].readings[1].obis
               PROVE  findings = {}
    BY DEF WholeTransactionIsClean
  <2>1. Arrived(s, a, b)
    BY DEF Arrived
  <2> QED BY <2>1, ArrivedIsClean DEF Judged
<1> QED BY <1>1, <1>2, <1>3, JudgedAlways, PTL DEF DeliverySpec

=============================================================================
