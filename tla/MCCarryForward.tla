--------------------------- MODULE MCCarryForward ---------------------------
(***************************************************************************)
(* Arrays for TLC.  Every item starts from one that omits everything and   *)
(* varies the fields that interact: the group RI/RU with RV; the fields    *)
(* that decide whether a reading may be billed; TM; and TX with RT and CL. *)
(***************************************************************************)
EXTENDS CarryForward, FiniteSets, TLC

Absent     == [shape |-> "absent", means |-> NONE]
Structure  == [shape |-> "structure", means |-> NONE]
Text(v)    == [shape |-> "string", means |-> v]
Literal(v) == [shape |-> "literal", means |-> v]

Silent ==
  [object |-> TRUE, extra |-> FALSE, TM |-> Absent, TX |-> Absent, RV |-> Absent,
   RI |-> Absent, RU |-> Absent, RT |-> Absent, CL |-> Absent, EF |-> Absent,
   ST |-> Absent]

CONSTANTS t1, t2, o1, o2, v1

GroupItems ==
  {[Silent EXCEPT !.RI = ri, !.RU = ru, !.RV = rv] :
     ri \in {Absent, Text(NONE), Text(o1), Text(o2)},
     ru \in {Absent, Structure, Text("kWh")}, rv \in {Absent, Literal(v1)}}
    \union {[Silent EXCEPT !.RI = Text(o1), !.RU = Text("mOhm"), !.RV = Literal(v1)]}

FlagItems ==
  {[Silent EXCEPT !.EF = ef, !.ST = st] :
     ef \in {Absent, Structure, Text({}), Text({"E"})},
     st \in {Absent, Structure, Text("G"), Text("F")}}

TimeItems ==
  {[Silent EXCEPT !.TM = tm] : tm \in {Structure, Text(NONE), Text(t1), Literal(t2)}}

OtherItems ==
  {[Silent EXCEPT !.TX = tx, !.RT = Text("DC"), !.extra = TRUE] : tx \in {Absent, Text("B"), Text("?")}}
    \union {[Silent EXCEPT !.CL = Text(v1), !.RV = rv] : rv \in {Structure, Text(v1)}}
    \union {[Silent EXCEPT !.RT = Text("?"), !.RV = Literal(NONE), !.EF = Text({"?"})]}

\* A complete, billable reading.
Complete == [Silent EXCEPT !.TM = Text(t1), !.TX = Text("B"), !.RV = Literal(v1),
                           !.RI = Text(o1), !.RU = Text("kWh"), !.EF = Text({}),
                           !.ST = Text("G")]

MCItems == GroupItems \union FlagItems \union TimeItems \union OtherItems
             \union {Complete, [object |-> FALSE]}
MCSurplus   == {Complete}
MCTimes     == {t1, t2}
MCRegisters == {o1, o2}
MCCanonical == {o1}
=============================================================================
