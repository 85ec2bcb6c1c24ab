----------------------------- MODULE MCSession -----------------------------
(***************************************************************************)
(* Record sequences for TLC, in four families around a session that is     *)
(* clean: counters and sources, markers, faults and clocks, registers.     *)
(* Each family varies what one group of rules looks at, in every           *)
(* combination of its small sets, and leaves the rest as it should be.     *)
(***************************************************************************)
EXTENDS Session, FiniteSets, SequencesExt, TLC

CONSTANTS o1, o2, m1, m2, text

Stamp(ms, status) == [ms |-> ms, status |-> status]

Good(tx, v) == [time |-> Stamp(v, "S"), tx |-> tx, value |-> v, obis |-> o1,
                unit |-> "kWh", ef |-> {}, state |-> "G"]

Of(pg, readings) == [pg |-> pg, ms |-> m1, gs |-> NONE, il |-> NONE,
                     readings |-> readings, text |-> text]

Page(c, n) == [context |-> c, number |-> n]
T(n) == Page("T", n)

\* Begin, charging, end: with any counters and any of three sources.
Counters == {NONE, T(1), T(2), T(3), Page("F", 1)}
Origins  == {<<m1, NONE>>, <<NONE, m1>>, <<m1, m2>>}
ChainInputs ==
  {<<[Of(a, <<Good("B", 1)>>) EXCEPT !.ms = s[1], !.gs = s[2]],
     [Of(b, <<Good("C", 2)>>) EXCEPT !.ms = u[1], !.gs = u[2]],
     Of(c, <<Good("E", 3)>>)>> :
       a \in Counters, b \in Counters, c \in Counters, s \in Origins, u \in Origins}
  \union {<<Of(a, <<Good("B", 1)>>), Of(T(3), <<Good(NONE, 2)>>), Of(b, <<Good(NONE, 2)>>),
            Of(c, <<Good("E", 3)>>)>> : a, b, c \in {NONE, T(2), T(3), T(0), T(1)}}
  \union {[k \in 1 .. 3 |-> Of(T(n[k]), <<Good("C", 1)>>)] : n \in [1 .. 3 -> {1, 2}]}
  \union {<<Of(T(1), <<>>)>>, <<>>}

\* Any markers, in one record or spread over several.
Letters == {NONE, "B", "C", "E", "R", "A", "X"}
MarkerInputs ==
  {[k \in 1 .. Len(q) |-> Of(Page(c, k), <<Good(q[k], k)>>)] :
     q \in BoundedSeq(Letters, 3), c \in {"T", "F"}}
  \union {<<Of(T(1), <<Good(a, 1), Good(b, 2)>>), Of(T(2), <<Good(c, 3)>>)>> :
            a, b, c \in Letters}
  \union {<<Of(T(1), <<Good(a, 1), Good(b, 2)>>)>> : a, b \in Letters}

\* A begin and an end of any quality.
Quality(tx, v) ==
  {[Good(tx, v) EXCEPT !.state = st, !.ef = ef, !.time = tm] :
     st \in {NONE, "G", "F"}, ef \in {{}, {"E"}},
     tm \in {NONE, Stamp(v, NONE), Stamp(v, "R"), Stamp(0, "S")}}
FaultInputs ==
  {<<Of(T(1), <<b>>), Of(T(2), <<e>>)>> : b \in Quality("B", 1), e \in Quality("E", 2)}
  \union {<<[Of(T(1), <<Good("B", 1)>>) EXCEPT !.il = il], Of(T(2), <<e>>)>> :
            il \in {"VERIFIED", "INVALID"}, e \in Quality("E", 2)}

\* Two registers, any order, units, values and stamps.
Register(tx) ==
  {[Good(tx, 2) EXCEPT !.obis = o, !.value = v, !.unit = u, !.time = tm] :
     o \in {o1, o2}, v \in {NONE, 1, 2}, u \in {"kWh"}, tm \in {Stamp(1, "S"), Stamp(2, "S")}}
  \union {[Good(tx, 2) EXCEPT !.obis = o, !.unit = u] : o \in {NONE, o1}, u \in {NONE, "Wh"}}
Two(tx) == {[Good(tx, 2) EXCEPT !.obis = o, !.value = v] : o \in {o1, o2}, v \in {1, 3}}
Odd(tx) == {[Good(tx, 2) EXCEPT !.obis = o2, !.time = Stamp(ms, "S")] : ms \in {1, 3}}
  \union {[Good(tx, 2) EXCEPT !.value = NONE], [Good(tx, 2) EXCEPT !.unit = "Wh"],
          [Good(tx, 2) EXCEPT !.unit = NONE, !.obis = o2], [Good(tx, 2) EXCEPT !.obis = NONE]}
RegisterInputs ==
  {<<Of(T(1), <<b>>), Of(T(2), <<e>>)>> : b \in Register("B"), e \in Register("E")}
  \union {<<Of(Page("F", 1), <<b, c>>), Of(Page("F", 2), <<e>>)>> :
            b, c \in Two(NONE), e \in Register(NONE)}
  \union {<<Of(T(1), <<b, c>>), Of(T(2), <<d, e>>)>> :
            b \in Two("B"), c \in Odd("B"), d \in Two("E"), e \in Odd("E")}
  \union {<<Of(T(1), <<b, c>>), Of(T(2), <<d>>), Of(T(3), <<e>>)>> :
            b \in Two("B"), c \in Two("E"), d \in Two("B") \union Two("E"), e \in Two("E")}

MCInputs == ChainInputs \union MarkerInputs \union FaultInputs \union RegisterInputs
MCRegisters == {o1, o2}
MCSerials   == {m1, m2}
MCTexts     == {text}
=============================================================================
