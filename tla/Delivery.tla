------------------------------ MODULE Delivery ------------------------------
(***************************************************************************)
(* The check component at work: charging stations write signed records,    *)
(* the way from there to the caller may lose, repeat and reorder them and  *)
(* mix those of several stations, and session::validate_refs judges what   *)
(* arrived.  The stations and the way are not code of the library: they    *)
(* are modelled from what its documentation and tests take a station to do *)
(* ("one begin in the first record, one end in the last", a counter that   *)
(* goes up by one with every record) and from what the checks are against. *)
(***************************************************************************)
EXTENDS Session

CONSTANTS
  Stations,    \* meter serials
  Base,        \* the counter each station starts with
  MaxStream,   \* bound on the records a station writes
  MaxInbox     \* bound on the records that arrive

ASSUME DeliveryAssumption ==
  /\ Stations \subseteq Serials /\ NONE \notin Stations
  /\ Base \in 0 .. CounterSize - 1
  /\ MaxInbox \in Nat
  \* A counter value is not used twice: 2^64 records outlast any station.
  /\ MaxStream \in 0 .. CounterSize

VARIABLES
  stream,     \* stream[s]: every record station s wrote, in order
  charging,   \* charging[s]: a transaction is open
  inbox       \* what has arrived

world == <<stream, charging, inbox>>

Idle == pc = "idle"

DeliveryInit ==
  /\ Init
  /\ stream = [s \in Stations |-> <<>>]
  /\ charging = [s \in Stations |-> FALSE]
  /\ inbox = <<>>

\* The meter stands at the number of records written: it never goes back.
Signed(s, tx, register, text) ==
  [pg |-> [context |-> "T", number |-> (Base + Len(stream[s])) % CounterSize],
   ms |-> s, gs |-> NONE, il |-> NONE, text |-> text,
   readings |-> <<[time |-> [ms |-> Len(stream[s]), status |-> "S"], tx |-> tx,
                   value |-> Len(stream[s]), obis |-> register, unit |-> "kWh",
                   ef |-> {}, state |-> "G"]>>]

Write(s, tx) ==
  /\ Idle
  /\ Len(stream[s]) < MaxStream
  /\ \E register \in Registers, text \in Texts :
       stream' = [stream EXCEPT ![s] = Append(@, Signed(s, tx, register, text))]
  /\ UNCHANGED <<inbox, vars>>

Begin(s)  == ~charging[s] /\ Write(s, "B") /\ charging' = [charging EXCEPT ![s] = TRUE]
Sample(s) == charging[s] /\ Write(s, "C") /\ UNCHANGED charging
End(s)    == charging[s] /\ Write(s, "E") /\ charging' = [charging EXCEPT ![s] = FALSE]

\* The station restarts within a transaction and never closes it.  Its counter
\* is persistent, and the next transaction goes on from there.
Restart(s) ==
  /\ Idle /\ charging[s]
  /\ charging' = [charging EXCEPT ![s] = FALSE]
  /\ UNCHANGED <<stream, inbox, vars>>

\* Any record that was ever written arrives next, for the first time or again.
Arrive(s) ==
  /\ Idle
  /\ Len(inbox) < MaxInbox
  /\ \E k \in DOMAIN stream[s] : inbox' = Append(inbox, stream[s][k])
  /\ UNCHANGED <<stream, charging, vars>>

Judge == Validate(inbox) /\ UNCHANGED world

JudgeOn == Check /\ UNCHANGED world

DeliveryNext ==
  \/ \E s \in Stations : Begin(s) \/ Sample(s) \/ End(s) \/ Restart(s) \/ Arrive(s)
  \/ Judge
  \/ JudgeOn

DeliverySpec == DeliveryInit /\ [][DeliveryNext]_<<vars, world>>

-----------------------------------------------------------------------------
(***************************************************************************)
(* Properties.                                                             *)
(***************************************************************************)

Tx(r) == r.readings[1].tx

\* Records a to b of station s are one transaction from its begin to its end.
IsWholeTransaction(s, a, b) ==
  /\ Tx(stream[s][a]) = "B" /\ Tx(stream[s][b]) = "E"
  /\ \A k \in a + 1 .. b - 1 : Tx(stream[s][k]) = "C"

\* "In between, no data records may have been removed or added": whatever got
\* lost, came twice, out of order, from another station or from a transaction
\* that was cut short, a report is clean only if what arrived is one whole
\* transaction of one station, exactly as it was written.
CleanIsOneWholeTransaction ==
  Clean =>
    \E s \in Stations : \E a, b \in DOMAIN stream[s] :
      /\ a <= b
      /\ records = SubSeq(stream[s], a, b)
      /\ IsWholeTransaction(s, a, b)

\* And the other way round: nothing is held against a transaction that arrived
\* whole and in order, unless it read different registers at its two ends.
WholeTransactionIsClean ==
  Answered /\ findings # {} =>
    ~ \E s \in Stations : \E a, b \in DOMAIN stream[s] :
        /\ a < b
        /\ records = SubSeq(stream[s], a, b)
        /\ IsWholeTransaction(s, a, b)
        /\ stream[s][a].readings[1].obis = stream[s][b].readings[1].obis

\* What a clean report bills is what the meter moved between the two ends.
CleanBillsTheTransaction ==
  Clean =>
    \A o \in Registers :
      totals[o] # NONE /\ o = records[Len(records)].readings[1].obis
        => totals[o].delta = Len(records) - 1

=============================================================================
