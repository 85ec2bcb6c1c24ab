------------------------------ MODULE Records ------------------------------
(***************************************************************************)
(* The parts of a parsed record a check component looks at                 *)
(* (payload/mod.rs), and what it asks of them: the source string, whether  *)
(* a record belongs to a transaction, and the readings of one register.    *)
(***************************************************************************)
EXTENDS Tables, Sequences

CONSTANTS
  Registers,   \* canonical OBIS codes
  Serials,     \* what MS and GS can hold
  Texts        \* spellings: two payloads that say the same and differ in bytes

Time == [ms : Int, status : Option(TimeStatus)]

\* A reading with carry-forward resolved (see CarryForward).
CheckedReading ==
  [time : Option(Time), tx : Option(Marker), value : Option(Int),
   obis : Option(Registers), unit : Option(Unit), ef : SUBSET Flag,
   state : Option(MeterState)]

\* What is absent is no letter, no register and no value.
ASSUME AbsenceAssumption ==
  NONE \notin TimeStatus /\ NONE \notin Marker /\ NONE \notin Registers /\ NONE \notin Int

Record ==
  [pg : Option(Pagination), ms : Option(Serials), gs : Option(Serials),
   il : Option(IdentificationLevel), readings : Seq(CheckedReading), text : Texts]

\* And no counter, no stamp and no unit.
ASSUME PresenceAssumption ==
  NONE \notin Pagination /\ NONE \notin Time /\ NONE \notin Unit

Sources == Seq(Serials)

\* Mutant of Source: a gateway speaks for every meter behind it.
SourceGateway(r) == IF r.gs # NONE THEN <<r.gs>> ELSE <<>>

\* "{g}/{m}", the one of the two that is there, or the empty string: a meter
\* serial alone and a gateway serial alone are the same string.
Source(r) ==
  CASE r.ms # NONE /\ r.gs # NONE -> <<r.gs, r.ms>>
    [] r.ms # NONE /\ r.gs = NONE -> <<r.ms>>
    [] r.ms = NONE /\ r.gs # NONE -> <<r.gs>>
    [] r.ms = NONE /\ r.gs = NONE -> <<>>

\* SHA-256 of the payload bytes, as far as equality goes: two records have the
\* same digest exactly when their payloads are the same text.
PayloadDigest(r) == r

IsTransaction(r) ==
  \/ r.pg # NONE /\ r.pg.context = "T"
  \/ \E k \in DOMAIN r.readings : r.readings[k].tx # NONE

-----------------------------------------------------------------------------
(***************************************************************************)
(* by_register: the positions of one register's readings, after            *)
(* carry-forward, in source order.  A reading that names no register is in *)
(* no series.  Position 0 stands for "no such reading".                    *)
(***************************************************************************)
FirstOf(S) == IF S = {} THEN 0 ELSE CHOOSE k \in S : \A m \in S : k <= m
LastOf(S)  == IF S = {} THEN 0 ELSE CHOOSE k \in S : \A m \in S : m <= k

Series(r, o) == {k \in DOMAIN r.readings : r.readings[k].obis = o}

Marked(r, o, Is(_)) ==
  {k \in Series(r, o) : r.readings[k].tx # NONE /\ Is(r.readings[k].tx)}

\* Mutant of Opens: the first reading of the register, whatever its marker.
OpensFirst(r, o, kind) == FirstOf(Series(r, o))

\* RegisterSeries::begin and ::end; a fiscal sequence has no markers, and its
\* ends are the first and the last reading of the register.
Opens(r, o, kind)  == FirstOf(IF kind = "Fiscal" THEN Series(r, o) ELSE Marked(r, o, IsBegin))
Closes(r, o, kind) == IF kind = "Fiscal" THEN LastOf(Series(r, o))
                                         ELSE FirstOf(Marked(r, o, IsEnd))

\* Where each register is first seen: the order by_register lists them in.
Heads(r) == {k \in DOMAIN r.readings :
               r.readings[k].obis # NONE /\ k = FirstOf(Series(r, r.readings[k].obis))}

=============================================================================
