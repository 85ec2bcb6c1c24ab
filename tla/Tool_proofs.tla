------------------------------ MODULE Tool_proofs ------------------------------
(***************************************************************************)
(* Proofs about the containers and the command line tool.                  *)
(***************************************************************************)
EXTENDS Library, NaturalFacts, FiniteSetTheorems, TLAPS

-----------------------------------------------------------------------------
(***************************************************************************)
(* Sequences.                                                              *)
(***************************************************************************)
IsSequence(s) == s \in Seq(Range(s))

\* A function on 1 .. n is a sequence.
LEMMA IsSequenceOf ==
  ASSUME NEW n \in Nat, NEW f, f = [i \in 1 .. n |-> f[i]]
  PROVE  IsSequence(f) /\ Len(f) = n /\ DOMAIN f = 1 .. n
  <1> DEFINE S == Range(f)
  <1>1. DOMAIN f = 1 .. n /\ \A i \in 1 .. n : f[i] \in S
    BY DEF Range
  <1> HIDE DEF S
  <1>2. f \in [1 .. n -> S]
    BY <1>1
  <1>3. f \in Seq(S) /\ Len(f) = n
    BY <1>2
  <1> QED BY <1>1, <1>3 DEF IsSequence, S

\* What is a sequence over some set is one.
LEMMA InSeqIsSequence ==
  ASSUME NEW S, NEW s \in Seq(S)
  PROVE  IsSequence(s)
  <1>1. Len(s) \in Nat /\ s = [i \in 1 .. Len(s) |-> s[i]]
    OBVIOUS
  <1> QED BY <1>1, IsSequenceOf

\* A member is added at the end, and nothing else changes.
LEMMA Appended ==
  ASSUME NEW s, IsSequence(s), NEW e
  PROVE  /\ IsSequence(Append(s, e)) /\ Len(Append(s, e)) = Len(s) + 1 /\ Len(s) \in Nat
         /\ DOMAIN s = 1 .. Len(s) /\ DOMAIN Append(s, e) = 1 .. Len(s) + 1
         /\ Append(s, e)[Len(s) + 1] = e /\ \A i \in 1 .. Len(s) : Append(s, e)[i] = s[i]
         /\ Range(Append(s, e)) = Range(s) \union {e}
  <1> DEFINE S == Range(s) \union {e}
  <1>1. s \in Seq(S) /\ e \in S
    BY DEF IsSequence
  <1> DEFINE a == Append(s, e)
  <1>2. /\ a \in Seq(S) /\ Len(a) = Len(s) + 1 /\ Len(s) \in Nat
        /\ DOMAIN s = 1 .. Len(s) /\ DOMAIN a = 1 .. Len(s) + 1
        /\ a[Len(s) + 1] = e /\ \A i \in 1 .. Len(s) : a[i] = s[i]
    <2> HIDE DEF S
    <2> QED BY <1>1
  <1> HIDE DEF a
  <1>3. Range(a) = Range(s) \union {e}
    BY <1>2 DEF Range
  <1>4. IsSequence(a)
    BY <1>2, <1>3 DEF IsSequence
  <1> QED BY <1>2, <1>3, <1>4 DEF a

\* Picked keeps exactly the chosen places.
LEMMA PickedIsChosen ==
  ASSUME NEW s, IsSequence(s), NEW I
  PROVE  /\ IsSequence(Picked(s, I))
         /\ Range(Picked(s, I)) = {s[i] : i \in (1 .. Len(s)) \intersect I}
  <1> DEFINE n == Len(s)
             S == Range(s)
             Step(i, v) == IF i \in I THEN Append(v, s[i]) ELSE v
             body(u) == [i \in 0 .. n |-> IF i = 0 THEN <<>> ELSE Step(i, u[i - 1])]
             upto == CHOOSE u : u = body(u)
             loop == [i \in 1 .. n |-> [v \in Seq(S) |-> Step(i, v)]]
  <1>1. n \in Nat /\ DOMAIN s = 1 .. n /\ s \in Seq(S) /\ \A i \in 1 .. n : s[i] \in S
    BY DEF IsSequence
  <1>2. loop \in [1 .. n -> [Seq(S) -> Seq(S)]]
    <2> HIDE DEF S, n
    <2> QED BY <1>1
  <1>3. PICK u \in [0 .. n -> Seq(S)] : u[0] = <<>> /\ \A i \in 1 .. n : u[i] = loop[i][u[i - 1]]
    <2> DEFINE V == Seq(S)
    <2>0. n \in Nat
      BY <1>1
    <2>1. <<>> \in V /\ loop \in [1 .. n -> [V -> V]]
      BY <1>2
    <2> HIDE DEF loop, S, n, V, body, upto
    <2>2. Loops(n, V, <<>>, loop) # {}
      BY <2>0, <2>1, LoopExists
    <2> QED BY <2>2 DEF V, Loops
  <1>4. u = body(u)
    <2> HIDE DEF n, S
    <2>1. \A i \in 1 .. n : u[i - 1] \in Seq(S)
      BY <1>1, <1>3
    <2>2. \A i \in 1 .. n : loop[i][u[i - 1]] = Step(i, u[i - 1])
      BY <2>1
    <2> HIDE DEF Step, loop
    <2> QED BY <1>1, <1>3, <2>2
  <1>5. upto = body(upto)
    <2> HIDE DEF body
    <2> QED BY <1>4
  <1>6. Picked(s, I) = upto[n]
    BY DEF Picked
  <1> DEFINE Chosen(m) == {s[i] : i \in (1 .. m) \intersect I}
             Right(m) == IsSequence(upto[m]) /\ Range(upto[m]) = Chosen(m)
             Wrong == {m \in 0 .. n : ~Right(m)}
  <1>7. upto[0] = <<>> /\ \A m \in 1 .. n : upto[m] = Step(m, upto[m - 1])
    <2> HIDE DEF upto, Step, n
    <2> QED BY <1>1, <1>5
  <1>8. Right(0)
    <2>1. Range(<<>>) = {} /\ IsSequence(<<>>)
      BY DEF Range, IsSequence
    <2>2. Chosen(0) = {}
      OBVIOUS
    <2> HIDE DEF upto, Chosen
    <2> QED BY <1>7, <2>1, <2>2
  <1>9. ASSUME NEW m \in 1 .. n, Right(m - 1) PROVE Right(m)
    <2> HIDE DEF upto, n
    <2>1. upto[m] = Step(m, upto[m - 1])
      BY <1>7
    <2>2. CASE m \in I
      <3>1. upto[m] = Append(upto[m - 1], s[m])
        BY <2>1, <2>2
      <3>2. Chosen(m) = Chosen(m - 1) \union {s[m]}
        BY <1>1, <2>2
      <3> HIDE DEF Chosen
      <3> QED BY <1>9, <3>1, <3>2, Appended
    <2>3. CASE m \notin I
      <3>1. upto[m] = upto[m - 1]
        BY <2>1, <2>3
      <3>2. Chosen(m) = Chosen(m - 1)
        BY <1>1, <2>3
      <3> QED BY <1>9, <3>1, <3>2
    <2> QED BY <2>2, <2>3
  <1>10. Wrong = {}
    <2> HIDE DEF Right, n
    <2>1. SUFFICES ASSUME Wrong # {} PROVE FALSE
      OBVIOUS
    <2>2. PICK m \in Wrong : \A k \in Wrong : m <= k
      <3>1. Wrong \in SUBSET Nat
        BY <1>1
      <3> HIDE DEF Wrong
      <3> QED BY <2>1, <3>1, LeastExists
    <2>3. m \in 1 .. n /\ ~Right(m)
      BY <1>1, <1>8
    <2>4. Right(m - 1)
      BY <1>1, <2>2, <2>3
    <2> QED BY <1>9, <2>3, <2>4
  <1>11. Right(n)
    <2> HIDE DEF Right, n
    <2> QED BY <1>1, <1>10
  <1> QED BY <1>6, <1>11

-----------------------------------------------------------------------------
(***************************************************************************)
(* Packing.                                                                *)
(***************************************************************************)
\* What a step of the program does to the tool: nothing, or a call, a step of
\* the command or the next command of a pipe.
LEMMA StepsOfTheTool ==
  ASSUME [Next]_vars
  PROVE  \/ UNCHANGED using_tool
         \/ (\E c \in Commands : Call(c)) /\ step = "idle" /\ UNCHANGED container
         \/ Run
         \/ Pipe
  BY DEF Next, vars, using_tool, CallRead, CallSign, CallTool, CallForm, ReadOnly, Building, Tool, Forming,
         Idle

\* What a step of a command does to the packing.
LEMMA StepsOfPacking ==
  ASSUME Run
  PROVE  \/ UNCHANGED packed
         \/ values' = <<>> /\ open' = NONE /\ next_id' = 1
         \/ FromRecords
  <1>1. CASE LoadLines
    BY <1>1 DEF LoadLines, container
  <1>2. CASE OpenXml
    BY <1>2 DEF OpenXml
  <1>3. CASE ParseEvent
    <2>1. ParseXml
      BY <1>3 DEF ParseEvent
    <2> QED BY <2>1 DEF ParseXml, ReadRoot, WrongRoot, OpenValue, OpenSigned, OpenKey, Characters,
                        CloseSigned, CloseKey, CloseValue, SkipEvent, Malformed, Abort, Advance, packed
  <1>4. CASE LoadXml
    BY <1>4 DEF LoadXml, container
  <1>5. CASE VerifyNext \/ VerifyEnd \/ ToXmlEnd \/ ToOcpp \/ FromOcpp
    BY <1>5 DEF VerifyNext, VerifyEnd, ToXmlEnd, ToOcpp, FromOcpp, container
  <1>6. CASE ToXmlStart
    BY <1>6 DEF ToXmlStart, Pack, container
  <1>7. CASE ToXmlPack
    BY <1>7 DEF ToXmlPack
  <1> QED BY <1>1, <1>2, <1>3, <1>4, <1>5, <1>6, <1>7 DEF Run, Load

\* The last entry belongs to a group that its record does not end.
GroupIsOpen ==
  /\ values # <<>>
  /\ values[Len(values)].transaction_id # NONE
  /\ values[Len(values)].context # "Transaction.End"

\* The open id is that of the last entry, exactly if its group can go on, and ids
\* are handed out in order: the next one was never used.
IdsAreInOrder ==
  /\ IsSequence(values)
  /\ next_id \in Nat
  /\ \A i \in DOMAIN values :
       values[i].transaction_id # NONE =>
         values[i].transaction_id \in Nat /\ values[i].transaction_id < next_id
  /\ open # NONE <=> GroupIsOpen
  /\ open # NONE => open = values[Len(values)].transaction_id

PackingInvariant == IdsAreInOrder /\ TransactionsAreWhole

\* What holds for one entry of the packed values.
EntryIsWhole(all, i) ==
  LET v == all[i]
      marks == RecordOf(v.signed_data)
      joins == i > 1 /\ all[i - 1].transaction_id # NONE /\ all[i - 1].context # "Transaction.End"
  IN /\ v.transaction_id # NONE =>
          \/ /\ v.context = "Transaction.Begin"
             /\ \A k \in 1 .. i - 1 : all[k].transaction_id # v.transaction_id
          \/ joins /\ all[i - 1].transaction_id = v.transaction_id
     /\ joins /\ ~marks.begins => v.transaction_id = all[i - 1].transaction_id

\* An entry that is pushed is the next record, in the group it is pushed into.
LEMMA Pushed ==
  ASSUME NEW id, NEW context, Push(id, context)
  PROVE  \E v : /\ values' = Append(values, v) /\ v.transaction_id = id /\ v.context = context
                /\ v.signed_data = Head(batch).text
  <1> DEFINE r == Head(batch)
             v == [ValueEntry EXCEPT
                     !.transaction_id = id, !.context = context, !.signed_data = r.text,
                     !.format = "OCMF", !.encoding = "plain",
                     !.public_key = IF r.key = NONE THEN NONE ELSE <<"hex", r.key>>,
                     !.public_key_encoding = IF r.key = NONE THEN NONE ELSE "hex"]
  <1>1. values' = Append(values, v)
    BY DEF Push
  <1>2. v.transaction_id = id /\ v.context = context /\ v.signed_data = r.text
    BY DEF ValueEntry
  <1> HIDE DEF v
  <1> QED BY <1>1, <1>2

\* One more entry leaves those before it whole, and is whole itself if it is in the
\* open group, begins one or is in none.
LEMMA StaysWhole ==
  ASSUME PackingInvariant, NEW v, values' = Append(values, v),
         EntryIsWhole(values', Len(values) + 1)
  PROVE  TransactionsAreWhole'
  <1>1. /\ IsSequence(values') /\ Len(values) \in Nat /\ DOMAIN values = 1 .. Len(values)
        /\ DOMAIN values' = 1 .. Len(values) + 1 /\ \A i \in 1 .. Len(values) : values'[i] = values[i]
    BY Appended DEF PackingInvariant, IdsAreInOrder
  <1>2. ASSUME NEW i \in 1 .. Len(values) PROVE EntryIsWhole(values', i)
    <2>1. EntryIsWhole(values, i)
      BY <1>1 DEF PackingInvariant, TransactionsAreWhole, EntryIsWhole
    <2>2. /\ \A k \in 1 .. i - 1 : values'[k] = values[k]
          /\ i > 1 => values'[i - 1] = values[i - 1]
          /\ values'[i] = values[i]
      BY <1>1
    <2> QED BY <2>1, <2>2 DEF EntryIsWhole
  <1>3. \A i \in 1 .. Len(values) + 1 : i \in 1 .. Len(values) \/ i = Len(values) + 1
    BY <1>1
  <1>4. \A i \in DOMAIN values' : EntryIsWhole(values', i)
    BY <1>1, <1>2, <1>3
  <1> QED BY <1>4 DEF TransactionsAreWhole, EntryIsWhole

\* A record that begins a transaction opens a group with a new id.
LEMMA BeginOpensAGroup ==
  ASSUME PackingInvariant, PackBegin
  PROVE  PackingInvariant'
  <1>1. PICK v : /\ values' = Append(values, v) /\ v.transaction_id = next_id
                 /\ v.context = "Transaction.Begin" /\ v.signed_data = Head(batch).text
    BY Pushed DEF PackBegin
  <1>2. open' = next_id /\ next_id' = next_id + 1 /\ RecordOf(Head(batch).text).begins
    BY DEF PackBegin, Marks
  <1>3. /\ IsSequence(values') /\ Len(values) \in Nat /\ DOMAIN values = 1 .. Len(values)
        /\ DOMAIN values' = 1 .. Len(values) + 1 /\ \A i \in 1 .. Len(values) : values'[i] = values[i]
        /\ values'[Len(values) + 1] = v /\ Len(values') = Len(values) + 1 /\ values' # <<>>
    BY <1>1, Appended DEF PackingInvariant, IdsAreInOrder
  <1>4. next_id \in Nat /\ next_id # NONE
    BY NoneAssumption DEF PackingInvariant, IdsAreInOrder
  <1>5. IdsAreInOrder'
    <2>1. ASSUME NEW i \in DOMAIN values', values'[i].transaction_id # NONE
          PROVE  values'[i].transaction_id \in Nat /\ values'[i].transaction_id < next_id'
      <3>1. CASE i = Len(values) + 1
        BY <1>1, <1>2, <1>3, <1>4, <3>1
      <3>2. CASE i \in 1 .. Len(values)
        BY <1>2, <1>3, <1>4, <2>1, <3>2 DEF PackingInvariant, IdsAreInOrder
      <3> QED BY <1>3, <3>1, <3>2
    <2>2. GroupIsOpen'
      BY <1>1, <1>3, <1>4 DEF GroupIsOpen
    <2> QED BY <1>1, <1>2, <1>3, <1>4, <2>1, <2>2 DEF IdsAreInOrder
  <1>6. EntryIsWhole(values', Len(values) + 1)
    <2>1. \A k \in 1 .. Len(values) : values'[k].transaction_id # next_id
      BY <1>3, <1>4 DEF PackingInvariant, IdsAreInOrder
    <2>2. /\ values'[Len(values) + 1].transaction_id = next_id
          /\ values'[Len(values) + 1].context = "Transaction.Begin"
          /\ RecordOf(values'[Len(values) + 1].signed_data).begins
      BY <1>1, <1>2, <1>3
    <2>3. Len(values) + 1 - 1 = Len(values)
      BY <1>3
    <2> QED BY <2>1, <2>2, <2>3 DEF EntryIsWhole
  <1> QED BY <1>1, <1>5, <1>6, StaysWhole DEF PackingInvariant

\* A record that does not begin one goes into the group that is open, and ends it or not.
LEMMA OthersJoinTheGroup ==
  ASSUME PackingInvariant, PackEnd \/ PackBetween
  PROVE  PackingInvariant'
  <1>1. PICK v : /\ values' = Append(values, v) /\ v.transaction_id = open
                 /\ v.context = (IF PackEnd THEN "Transaction.End" ELSE NONE)
                 /\ v.signed_data = Head(batch).text
    <2>1. CASE PackEnd
      <3>1. Push(open, "Transaction.End")
        BY <2>1 DEF PackEnd
      <3> QED BY <2>1, <3>1, Pushed
    <2>2. CASE PackBetween /\ ~PackEnd
      <3>1. Push(open, NONE)
        BY <2>2 DEF PackBetween
      <3> QED BY <2>2, <3>1, Pushed
    <2> QED BY <2>1, <2>2
  <1>2. open' = (IF PackEnd THEN NONE ELSE open) /\ next_id' = next_id
    BY DEF PackEnd, PackBetween, Closed
  <1>3. /\ IsSequence(values') /\ Len(values) \in Nat /\ DOMAIN values = 1 .. Len(values)
        /\ DOMAIN values' = 1 .. Len(values) + 1 /\ \A i \in 1 .. Len(values) : values'[i] = values[i]
        /\ values'[Len(values) + 1] = v /\ Len(values') = Len(values) + 1 /\ values' # <<>>
    BY <1>1, Appended DEF PackingInvariant, IdsAreInOrder
  <1>4. open # NONE => /\ Len(values) >= 1 /\ open = values[Len(values)].transaction_id
                       /\ values[Len(values)].context # "Transaction.End"
                       /\ open \in Nat /\ open < next_id
    <2>1. open # NONE => values # <<>>
      BY DEF PackingInvariant, IdsAreInOrder, GroupIsOpen
    <2>2. values # <<>> => Len(values) >= 1
      BY <1>3 DEF PackingInvariant, IdsAreInOrder, IsSequence
    <2> QED BY <1>3, <2>1, <2>2 DEF PackingInvariant, IdsAreInOrder, GroupIsOpen
  <1>5. IdsAreInOrder'
    <2>1. ASSUME NEW i \in DOMAIN values', values'[i].transaction_id # NONE
          PROVE  values'[i].transaction_id \in Nat /\ values'[i].transaction_id < next_id'
      <3>1. CASE i = Len(values) + 1
        BY <1>1, <1>2, <1>3, <1>4, <2>1, <3>1
      <3>2. CASE i \in 1 .. Len(values)
        BY <1>2, <1>3, <2>1, <3>2 DEF PackingInvariant, IdsAreInOrder
      <3> QED BY <1>3, <3>1, <3>2
    <2>2. open' # NONE <=> GroupIsOpen'
      BY <1>1, <1>2, <1>3, NoneAssumption DEF GroupIsOpen
    <2>3. open' # NONE => open' = values'[Len(values')].transaction_id
      BY <1>1, <1>2, <1>3
    <2>4. next_id' \in Nat
      BY <1>2 DEF PackingInvariant, IdsAreInOrder
    <2> QED BY <1>3, <2>1, <2>2, <2>3, <2>4 DEF IdsAreInOrder
  <1>6. EntryIsWhole(values', Len(values) + 1)
    <2>1. Len(values) + 1 > 1 => /\ values'[Len(values)] = values[Len(values)]
                                 /\ Len(values) + 1 - 1 = Len(values)
      BY <1>3
    <2>2. CASE open # NONE
      <3>1. v.transaction_id = open /\ values'[Len(values) + 1 - 1].transaction_id = open
        BY <1>1, <1>3, <1>4, <2>1, <2>2
      <3>2. values'[Len(values) + 1 - 1].context # "Transaction.End" /\ Len(values) + 1 > 1
        BY <1>3, <1>4, <2>1, <2>2
      <3> QED BY <1>3, <2>2, <3>1, <3>2 DEF EntryIsWhole
    <2>3. CASE open = NONE
      <3>1. v.transaction_id = NONE
        BY <1>1, <2>3
      <3>2. Len(values) + 1 > 1 => \/ values'[Len(values) + 1 - 1].transaction_id = NONE
                                   \/ values'[Len(values) + 1 - 1].context = "Transaction.End"
        <4>1. SUFFICES ASSUME Len(values) + 1 > 1
                       PROVE  \/ values[Len(values)].transaction_id = NONE
                              \/ values[Len(values)].context = "Transaction.End"
          BY <2>1
        <4>2. values # <<>>
          BY <1>3, <4>1
        <4> QED BY <2>3, <4>2 DEF PackingInvariant, IdsAreInOrder, GroupIsOpen
      <3> QED BY <1>3, <3>1, <3>2 DEF EntryIsWhole
    <2> QED BY <2>2, <2>3
  <1> QED BY <1>1, <1>5, <1>6, StaysWhole DEF PackingInvariant

\* A record that is a transaction of its own is in no group, and the next is in none.
LEMMA WholeIsInNoGroup ==
  ASSUME PackingInvariant, PackWhole
  PROVE  PackingInvariant'
  <1>1. PICK v : /\ values' = Append(values, v) /\ v.transaction_id = NONE
                 /\ v.context = NONE /\ v.signed_data = Head(batch).text
    BY Pushed DEF PackWhole
  <1>2. open' = NONE /\ next_id' = next_id /\ RecordOf(Head(batch).text).begins
    BY DEF PackWhole, Marks
  <1>3. /\ IsSequence(values') /\ Len(values) \in Nat /\ DOMAIN values = 1 .. Len(values)
        /\ DOMAIN values' = 1 .. Len(values) + 1 /\ \A i \in 1 .. Len(values) : values'[i] = values[i]
        /\ values'[Len(values) + 1] = v /\ Len(values') = Len(values) + 1 /\ values' # <<>>
    BY <1>1, Appended DEF PackingInvariant, IdsAreInOrder
  <1>4. IdsAreInOrder'
    <2>1. ASSUME NEW i \in DOMAIN values', values'[i].transaction_id # NONE
          PROVE  values'[i].transaction_id \in Nat /\ values'[i].transaction_id < next_id'
      <3>1. CASE i = Len(values) + 1
        BY <1>1, <1>3, <2>1, <3>1
      <3>2. CASE i \in 1 .. Len(values)
        BY <1>2, <1>3, <2>1, <3>2 DEF PackingInvariant, IdsAreInOrder
      <3> QED BY <1>3, <3>1, <3>2
    <2>2. ~GroupIsOpen'
      BY <1>1, <1>3 DEF GroupIsOpen
    <2>3. next_id' \in Nat
      BY <1>2 DEF PackingInvariant, IdsAreInOrder
    <2> QED BY <1>2, <1>3, <2>1, <2>2, <2>3 DEF IdsAreInOrder
  <1>5. EntryIsWhole(values', Len(values) + 1)
    BY <1>1, <1>2, <1>3 DEF EntryIsWhole
  <1> QED BY <1>1, <1>4, <1>5, StaysWhole DEF PackingInvariant

\* Nothing packed is in order.
LEMMA NothingPacked ==
  values = <<>> /\ open = NONE /\ next_id = 1 => PackingInvariant
  BY DEF PackingInvariant, IdsAreInOrder, TransactionsAreWhole, GroupIsOpen, IsSequence, Range

\* However the records of a station are marked, the entries of one transaction carry one
\* id and those of two never the same, the first and no other is its begin, and only its
\* last can be an end (xml.rs, from_records).
THEOREM TransactionsAreAlwaysWhole == Spec => []TransactionsAreWhole
  <1>1. Init => PackingInvariant
    BY NothingPacked DEF Init, NothingCommanded
  <1>2. PackingInvariant /\ [Next]_vars => PackingInvariant'
    <2> SUFFICES ASSUME PackingInvariant, [Next]_vars PROVE PackingInvariant'
      OBVIOUS
    <2>1. CASE UNCHANGED packed
      BY <2>1 DEF packed, PackingInvariant, IdsAreInOrder, TransactionsAreWhole, GroupIsOpen
    <2>2. CASE values' = <<>> /\ open' = NONE /\ next_id' = 1
      BY <2>2 DEF PackingInvariant, IdsAreInOrder, TransactionsAreWhole, GroupIsOpen, IsSequence, Range
    <2>3. CASE FromRecords
      BY <2>3, BeginOpensAGroup, OthersJoinTheGroup, WholeIsInNoGroup DEF FromRecords
    <2>4. UNCHANGED packed \/ (values' = <<>> /\ open' = NONE /\ next_id' = 1) \/ FromRecords
      <3>1. CASE UNCHANGED using_tool
        BY <3>1 DEF using_tool, container, packed
      <3>2. CASE UNCHANGED container
        BY <3>2 DEF container
      <3>3. CASE Run
        BY <3>3, StepsOfPacking
      <3>4. CASE Pipe
        BY <3>4 DEF Pipe, container
      <3> QED BY <3>1, <3>2, <3>3, <3>4, StepsOfTheTool
    <2> QED BY <2>1, <2>2, <2>3, <2>4
  <1>3. PackingInvariant => TransactionsAreWhole
    BY DEF PackingInvariant
  <1> QED BY <1>1, <1>2, <1>3, PTL DEF Spec

-----------------------------------------------------------------------------
(***************************************************************************)
(* What is loaded.                                                         *)
(***************************************************************************)
\* A text that was trimmed has nothing to trim.
LEMMA TrimmedOnce ==
  ASSUME NEW t, IsSequence(t)
  PROVE  Trim(Trim(t)) = Trim(t)
  <1> DEFINE kept == {i \in DOMAIN t : t[i] \notin Blank}
             a == CHOOSE i \in kept : \A k \in kept : i <= k
             b == CHOOSE i \in kept : \A k \in kept : k <= i
             u == SubSeq(t, a, b)
             keptOf == {i \in DOMAIN u : u[i] \notin Blank}
             aOf == CHOOSE i \in keptOf : \A k \in keptOf : i <= k
             bOf == CHOOSE i \in keptOf : \A k \in keptOf : k <= i
  <1>1. DOMAIN t = 1 .. Len(t) /\ Len(t) \in Nat /\ kept \in SUBSET (1 .. Len(t))
    BY DEF IsSequence
  <1>2. CASE kept = {}
    <2>1. Trim(t) = <<>>
      BY <1>2 DEF Trim
    <2>2. Trim(<<>>) = <<>>
      BY DEF Trim
    <2> QED BY <2>1, <2>2
  <1>3. CASE kept # {}
    <2>1. Trim(t) = u
      BY <1>3 DEF Trim
    <2>2. a \in kept /\ \A k \in kept : a <= k
      <3>1. \E i \in kept : \A k \in kept : i <= k
        <4>1. kept \in SUBSET Nat
          BY <1>1
        <4> HIDE DEF kept
        <4> QED BY <1>3, <4>1, LeastExists
      <3> HIDE DEF kept
      <3> QED BY <3>1
    <2>3. b \in kept /\ \A k \in kept : k <= b
      <3>1. \E i \in kept : \A k \in kept : k <= i
        <4> HIDE DEF kept
        <4> QED BY <1>1, <1>3, GreatestExists
      <3> HIDE DEF kept
      <3> QED BY <3>1
    <2> HIDE DEF a, b
    <2>4. a \in 1 .. Len(t) /\ b \in 1 .. Len(t) /\ a <= b /\ t[a] \notin Blank /\ t[b] \notin Blank
      BY <1>1, <2>2, <2>3
    <2>5. /\ Len(u) = b - a + 1 /\ Len(u) \in Nat /\ DOMAIN u = 1 .. Len(u)
          /\ u = [i \in 1 .. Len(u) |-> t[a + i - 1]]
      BY <2>4 DEF IsSequence
    <2>6. Len(u) >= 1 /\ u[1] = t[a] /\ u[Len(u)] = t[b]
      BY <2>4, <2>5
    <2> HIDE DEF u
    <2>7. 1 \in keptOf /\ Len(u) \in keptOf /\ \A k \in keptOf : k \in Nat /\ 1 <= k /\ k <= Len(u)
      BY <2>4, <2>5, <2>6
    <2>8. aOf = 1 /\ bOf = Len(u) /\ keptOf # {}
      <3> HIDE DEF keptOf
      <3>1. aOf \in keptOf /\ \A k \in keptOf : aOf <= k
        BY <2>7
      <3>2. bOf \in keptOf /\ \A k \in keptOf : k <= bOf
        BY <2>7
      <3> HIDE DEF aOf, bOf
      <3> QED BY <2>5, <2>7, <3>1, <3>2
    <2>9. SubSeq(u, 1, Len(u)) = u
      <3>1. IsSequence(u)
        <4>1. u = [i \in 1 .. Len(u) |-> u[i]]
          BY <2>5
        <4> QED BY <2>5, <4>1, IsSequenceOf
      <3> QED BY <2>5, <3>1 DEF IsSequence
    <2>10. Trim(u) = SubSeq(u, aOf, bOf)
      <3>1. keptOf # {}
        BY <2>8
      <3> QED BY <3>1 DEF Trim
    <2> HIDE DEF aOf, bOf
    <2> QED BY <2>1, <2>8, <2>9, <2>10
  <1> QED BY <1>2, <1>3

\* What load returns of a file, once its container was read.
ItemsOf(f) ==
  IF f.kind = "xml"
    THEN [i \in DOMAIN Claimed(entries) |->
            Item(Claimed(entries)[i].signed_data, Claimed(entries)[i].public_key)]
    ELSE [i \in DOMAIN Lines(f) |-> Item(Lines(f)[i], NONE)]

\* The values of a container that claim to be OCMF are loaded, and nothing else.
LEMMA ClaimedIsLoaded ==
  ASSUME IsSequence(entries), NEW f, f.kind = "xml"
  PROVE  /\ IsSequence(ItemsOf(f))
         /\ ItemsOf(f) # <<>> => \E i \in DOMAIN entries : IsOcmf(entries[i])
         /\ \A i \in DOMAIN entries : IsOcmf(entries[i]) =>
              \E j \in DOMAIN ItemsOf(f) :
                ItemsOf(f)[j] = Item(entries[i].signed_data, entries[i].public_key)
  <1> DEFINE I == {i \in DOMAIN entries : IsOcmf(entries[i])}
             found == Claimed(entries)
             loaded == [i \in DOMAIN found |-> Item(found[i].signed_data, found[i].public_key)]
  <1>1. found = Picked(entries, I)
    BY DEF Claimed
  <1>2. ItemsOf(f) = loaded
    BY DEF ItemsOf
  <1>3. DOMAIN entries = 1 .. Len(entries)
    BY DEF IsSequence
  <1>4. IsSequence(found) /\ Range(found) = {entries[i] : i \in I}
    <2>1. (1 .. Len(entries)) \intersect I = I
      BY <1>3
    <2> HIDE DEF found, I
    <2> QED BY <1>1, <2>1, PickedIsChosen
  <1> HIDE DEF found
  <1>5. DOMAIN found = 1 .. Len(found) /\ Len(found) \in Nat
    BY <1>4 DEF IsSequence
  <1>6. IsSequence(loaded) /\ Len(loaded) = Len(found) /\ DOMAIN loaded = DOMAIN found
    <2>1. loaded = [i \in 1 .. Len(found) |-> loaded[i]]
      BY <1>5
    <2> HIDE DEF loaded
    <2> QED BY <1>5, <2>1, IsSequenceOf
  <1>7. ASSUME loaded # <<>> PROVE \E i \in DOMAIN entries : IsOcmf(entries[i])
    <2>1. 1 \in DOMAIN found
      <3> HIDE DEF loaded
      <3> QED BY <1>5, <1>6, <1>7 DEF IsSequence
    <2>2. found[1] \in {entries[i] : i \in I}
      BY <1>4, <2>1 DEF Range
    <2> QED BY <2>2
  <1>8. ASSUME NEW i \in DOMAIN entries, IsOcmf(entries[i])
        PROVE  \E j \in DOMAIN loaded : loaded[j] = Item(entries[i].signed_data, entries[i].public_key)
    <2>1. entries[i] \in Range(found)
      BY <1>4, <1>8
    <2>2. PICK j \in DOMAIN found : found[j] = entries[i]
      BY <2>1 DEF Range
    <2> QED BY <2>2
  <1> QED BY <1>2, <1>6, <1>7, <1>8

\* The lines that are records are loaded, trimmed, and nothing else.
LEMMA LinesAreLoaded ==
  ASSUME NEW f, f.kind # "xml", IsSequence(f.content)
  PROVE  /\ IsSequence(ItemsOf(f))
         /\ ItemsOf(f) # <<>> =>
              \E i \in DOMAIN f.content : Trim(f.content[i]) # <<>> /\ Trim(f.content[i])[1] # "#"
         /\ \A i \in DOMAIN f.content : Trim(f.content[i]) # <<>> /\ Trim(f.content[i])[1] # "#" =>
              \E j \in DOMAIN ItemsOf(f) : ItemsOf(f)[j] = Item(Trim(f.content[i]), NONE)
  <1> DEFINE trimmed == [i \in DOMAIN f.content |-> Trim(f.content[i])]
             I == {i \in DOMAIN trimmed : trimmed[i] # <<>> /\ trimmed[i][1] # "#"}
             found == Lines(f)
             loaded == [i \in DOMAIN found |-> Item(found[i], NONE)]
  <1>1. found = Picked(trimmed, I)
    BY DEF Lines
  <1>2. ItemsOf(f) = loaded
    BY DEF ItemsOf
  <1>3. DOMAIN f.content = 1 .. Len(f.content) /\ Len(f.content) \in Nat
    BY DEF IsSequence
  <1>4. IsSequence(trimmed) /\ DOMAIN trimmed = 1 .. Len(trimmed) /\ DOMAIN trimmed = DOMAIN f.content
    <2>1. trimmed = [i \in 1 .. Len(f.content) |-> trimmed[i]]
      BY <1>3
    <2> HIDE DEF trimmed
    <2> QED BY <1>3, <2>1, IsSequenceOf
  <1>5. IsSequence(found) /\ Range(found) = {trimmed[i] : i \in I}
    <2>1. (1 .. Len(trimmed)) \intersect I = I
      <3> HIDE DEF trimmed
      <3> QED BY <1>4
    <2> HIDE DEF found, I, trimmed
    <2> QED BY <1>1, <1>4, <2>1, PickedIsChosen
  <1> HIDE DEF found
  <1>6. DOMAIN found = 1 .. Len(found) /\ Len(found) \in Nat
    BY <1>5 DEF IsSequence
  <1>7. IsSequence(loaded) /\ Len(loaded) = Len(found) /\ DOMAIN loaded = DOMAIN found
    <2>1. loaded = [i \in 1 .. Len(found) |-> loaded[i]]
      BY <1>6
    <2> HIDE DEF loaded
    <2> QED BY <1>6, <2>1, IsSequenceOf
  <1>8. ASSUME loaded # <<>>
        PROVE  \E i \in DOMAIN f.content : Trim(f.content[i]) # <<>> /\ Trim(f.content[i])[1] # "#"
    <2>1. 1 \in DOMAIN found
      <3> HIDE DEF loaded
      <3> QED BY <1>6, <1>7, <1>8 DEF IsSequence
    <2>2. found[1] \in {trimmed[i] : i \in I}
      <3> HIDE DEF trimmed, I
      <3> QED BY <1>5, <2>1 DEF Range
    <2>3. PICK i \in I : found[1] = trimmed[i]
      BY <2>2
    <2> QED BY <2>3
  <1>9. ASSUME NEW i \in DOMAIN f.content, Trim(f.content[i]) # <<>>, Trim(f.content[i])[1] # "#"
        PROVE  \E j \in DOMAIN loaded : loaded[j] = Item(Trim(f.content[i]), NONE)
    <2>1. i \in I /\ trimmed[i] = Trim(f.content[i])
      BY <1>9
    <2>2. trimmed[i] \in Range(found)
      <3> HIDE DEF trimmed, I
      <3> QED BY <1>5, <2>1
    <2>3. PICK j \in DOMAIN found : found[j] = trimmed[i]
      <3> HIDE DEF trimmed
      <3> QED BY <2>2 DEF Range
    <2> QED BY <2>1, <2>3
  <1> QED BY <1>2, <1>7, <1>8, <1>9

-----------------------------------------------------------------------------
(***************************************************************************)
(* verify.                                                                 *)
(***************************************************************************)
IsCommand(c) ==
  c = [name |-> c.name, files |-> c.files, key |-> c.key, profile |-> c.profile, source |-> c.source]

\* What verify is asked about: a container, or lines of text.
IsVerify(c) ==
  /\ c.files = <<c.files[1]>>
  /\ c.files[1].kind # "xml" =>
       /\ c.files[1].kind = "lines" /\ IsSequence(c.files[1].content)
       /\ \A t \in Range(c.files[1].content) : IsSequence(t)

Passes(item) == Readable(item.text) /\ FromText(KeyFor(item)) = RecordOf(item.text).key

\* Of what was loaded, the last items are left, and unless a failure was counted
\* every one before them is a record that verifies.
PassedSoFar ==
  LET all == ItemsOf(command.files[1]) IN
  /\ IsSequence(all) /\ all # <<>> /\ IsSequence(items) /\ failures \in Nat
  /\ \E k \in 0 .. Len(all) :
       /\ Len(items) = Len(all) - k /\ \A j \in 1 .. Len(items) : items[j] = all[k + j]
       /\ failures = 0 => \A j \in 1 .. k : Passes(all[j])

\* Where verify stands with its one file.
VerifyStands ==
  /\ IsVerify(command)
  /\ step \in {"load", "parse", "done"}
  /\ step = "load" /\ files # <<>> => files = command.files /\ items = <<>> /\ failures = 0
  /\ step = "load" /\ files = <<>> => PassedSoFar
  /\ step = "parse" =>
       /\ files = command.files /\ items = <<>> /\ failures = 0
       /\ command.files[1].kind = "xml"
  /\ step = "done" /\ exit = "ok" => PassedSoFar /\ items = <<>> /\ failures = 0

CommandInvariant ==
  /\ IsSequence(entries)
  /\ step # "idle" => IsCommand(command)
  /\ step # "idle" /\ command.name = "verify" => VerifyStands

\* A step of a command is of the command that was called.
LEMMA RunKeepsTheCommand ==
  ASSUME Run
  PROVE  command' = command /\ step # "idle" /\ step' # "idle"
  <1>1. CASE LoadLines
    BY <1>1 DEF LoadLines, Loaded, Bail
  <1>2. CASE OpenXml
    BY <1>2 DEF OpenXml
  <1>3. CASE ParseEvent
    BY <1>3 DEF ParseEvent, line
  <1>4. CASE LoadXml
    BY <1>4 DEF LoadXml, Loaded, Bail
  <1>5. CASE VerifyNext
    BY <1>5 DEF VerifyNext, Bail, Ready
  <1>6. CASE VerifyEnd
    BY <1>6 DEF VerifyEnd, Bail, Ready
  <1>7. CASE ToXmlStart
    BY <1>7 DEF ToXmlStart, Bail, Ready
  <1>8. CASE ToXmlPack
    BY <1>8 DEF ToXmlPack, line
  <1>9. CASE ToXmlEnd
    BY <1>9 DEF ToXmlEnd, Prints
  <1>10. CASE ToOcpp
    BY <1>10 DEF ToOcpp, Bail, Prints, Ready
  <1>11. CASE FromOcpp
    BY <1>11 DEF FromOcpp, Bail
  <1> QED BY <1>1, <1>2, <1>3, <1>4, <1>5, <1>6, <1>7, <1>8, <1>9, <1>10, <1>11 DEF Run, Load

\* The entries of a container are a sequence, whatever event comes next.
LEMMA EntriesStayASequence ==
  ASSUME IsSequence(entries), Run
  PROVE  IsSequence(entries')
  <1>1. CASE UNCHANGED entries
    BY <1>1
  <1>2. CASE OpenXml
    <2>1. entries' = <<>>
      BY <1>2 DEF OpenXml, OpenDocument
    <2> QED BY <2>1 DEF IsSequence, Range
  <1>3. CASE ParseEvent
    <2>1. ParseXml
      BY <1>3 DEF ParseEvent
    <2>2. CASE CloseValue
      <3>1. entries' = entries \/ entries' = Append(entries, current)
        BY <2>2 DEF CloseValue, Abort
      <3>2. IsSequence(Append(entries, current))
        BY Appended
      <3> QED BY <3>1, <3>2
    <2>3. CASE ~CloseValue
      <3>1. entries' = entries
        BY <2>1, <2>3 DEF ParseXml, ReadRoot, WrongRoot, OpenValue, OpenSigned, OpenKey, Characters,
                          CloseSigned, CloseKey, SkipEvent, Malformed, Abort
      <3> QED BY <3>1
    <2> QED BY <2>2, <2>3
  <1>4. CASE ToXmlStart \/ ToXmlPack
    <2>1. entries' = entries
      BY <1>4 DEF ToXmlStart, ToXmlPack, FromRecords, PackWhole, PackBegin, PackEnd, PackBetween,
                  container, document
    <2> QED BY <2>1
  <1>5. CASE LoadLines \/ LoadXml \/ VerifyNext \/ VerifyEnd \/ ToXmlEnd \/ ToOcpp \/ FromOcpp
    <2>1. entries' = entries
      BY <1>5 DEF LoadLines, LoadXml, VerifyNext, VerifyEnd, ToXmlEnd, ToOcpp, FromOcpp,
                  container, document
    <2> QED BY <2>1
  <1> QED BY <1>1, <1>2, <1>3, <1>4, <1>5 DEF Run, Load

\* What was passed stays passed while nothing is loaded or verified.
LEMMA PassedStays ==
  ASSUME PassedSoFar, UNCHANGED <<command, entries, items, failures>>
  PROVE  PassedSoFar'
  <1> DEFINE all == ItemsOf(command.files[1])
             Holding(a) ==
               /\ IsSequence(a) /\ a # <<>> /\ IsSequence(items') /\ failures' \in Nat
               /\ \E k \in 0 .. Len(a) :
                    /\ Len(items') = Len(a) - k /\ \A j \in 1 .. Len(items') : items'[j] = a[k + j]
                    /\ failures' = 0 => \A j \in 1 .. k : Passes(a[j])'
  <1>1. all' = all
    BY DEF ItemsOf
  <1>2. \A j : Passes(all[j])' <=> Passes(all[j])
    BY <1>1 DEF Passes, Readable, KeyFor
  <1>3. PICK k \in 0 .. Len(all) :
          /\ Len(items) = Len(all) - k /\ \A j \in 1 .. Len(items) : items[j] = all[k + j]
          /\ failures = 0 => \A j \in 1 .. k : Passes(all[j])
    BY DEF PassedSoFar
  <1>4. Holding(all)
    <2>1. IsSequence(all) /\ all # <<>> /\ IsSequence(items') /\ failures' \in Nat
      BY DEF PassedSoFar
    <2>2. /\ Len(items') = Len(all) - k /\ \A j \in 1 .. Len(items') : items'[j] = all[k + j]
          /\ failures' = 0 => \A j \in 1 .. k : Passes(all[j])'
      BY <1>2, <1>3
    <2> HIDE DEF all
    <2> QED BY <2>1, <2>2
  <1> QED BY <1>1, <1>4 DEF PassedSoFar

\* A file that is asked for is loaded with all its records, or the command ends.
LEMMA LoadedIsAll ==
  ASSUME VerifyStands, IsSequence(entries), command.name = "verify", files # <<>>,
         step \in {"load", "parse"}, entries' = entries, command' = command,
         Loaded(ItemsOf(command.files[1]))
  PROVE  VerifyStands'
  <1> DEFINE f == command.files[1]
             all == ItemsOf(f)
  <1>1. files = <<f>> /\ items = <<>> /\ failures = 0
    BY DEF VerifyStands, IsVerify
  <1>2. IsSequence(all)
    BY ClaimedIsLoaded, LinesAreLoaded DEF VerifyStands, IsVerify
  <1>3. ItemsOf(f)' = ItemsOf(f) /\ IsVerify(command')
    BY DEF ItemsOf, VerifyStands
  <1>4. CASE all = <<>>
    <2>1. exit' = "failed" /\ step' = "done"
      BY <1>4 DEF Loaded, Bail
    <2> QED BY <1>3, <2>1 DEF VerifyStands
  <1>5. CASE all # <<>>
    <2>1. items' = items \o all /\ files' = Tail(files) /\ step' = "load" /\ failures' = failures
      BY <1>5 DEF Loaded
    <2>2. items' = all /\ files' = <<>>
      <3> HIDE DEF all, f
      <3> QED BY <1>1, <1>2, <2>1 DEF IsSequence
    <2>3. PassedSoFar'
      <3>1. Len(all) \in Nat /\ Len(items') = Len(all) - 0
        BY <1>2, <2>2 DEF IsSequence
      <3>2. /\ 0 \in 0 .. Len(all)
            /\ \A j \in 1 .. Len(items') : items'[j] = all[0 + j]
            /\ \A j \in 1 .. 0 : Passes(all[j])'
        BY <2>2, <3>1
      <3>3. failures' \in Nat /\ IsSequence(items')
        BY <1>1, <1>2, <2>1, <2>2
      <3> QED BY <1>2, <1>3, <1>5, <3>1, <3>2, <3>3 DEF PassedSoFar
    <2> QED BY <1>3, <2>1, <2>2, <2>3 DEF VerifyStands
  <1> QED BY <1>4, <1>5

\* One more item is verified, counted or the end of the command.
LEMMA VerifiedIsPassed ==
  ASSUME VerifyStands, command.name = "verify", VerifyNext
  PROVE  VerifyStands'
  <1> DEFINE all == ItemsOf(command.files[1])
             item == Head(items)
             key == KeyFor(item)
  <1>1. /\ step = "load" /\ files = <<>> /\ items # <<>> /\ command' = command
        /\ PassedSoFar /\ IsVerify(command)
    BY DEF VerifyNext, Ready, VerifyStands, Bail
  <1>2. all' = all
    <2>1. entries' = entries
      BY DEF VerifyNext, container, document
    <2> QED BY <1>1, <2>1 DEF ItemsOf
  <1>3. CASE Bail
    BY <1>1, <1>3 DEF VerifyStands, Bail
  <1>4. CASE ~Bail
    <2>1. /\ Readable(item.text)
          /\ failures' = Failed(failures, RecordOf(item.text).key = FromText(key))
          /\ items' = Tail(items) /\ UNCHANGED <<command, step, files, exit, printed>>
      BY <1>4 DEF VerifyNext
    <2>2. PICK k \in 0 .. Len(all) :
            /\ Len(items) = Len(all) - k /\ \A j \in 1 .. Len(items) : items[j] = all[k + j]
            /\ failures = 0 => \A j \in 1 .. k : Passes(all[j])
      BY <1>1 DEF PassedSoFar
    <2>3. /\ IsSequence(items) /\ Len(items) \in Nat /\ Len(items) >= 1 /\ item = items[1]
          /\ IsSequence(all) /\ all # <<>> /\ Len(all) \in Nat /\ failures \in Nat
      <3>1. IsSequence(items) /\ IsSequence(all) /\ all # <<>> /\ failures \in Nat
        BY <1>1 DEF PassedSoFar
      <3> HIDE DEF all
      <3> QED BY <1>1, <3>1 DEF IsSequence
    <2>4. /\ IsSequence(items') /\ Len(items') = Len(items) - 1
          /\ \A j \in 1 .. Len(items') : items'[j] = items[j + 1]
      <3> DEFINE S == Range(items)
      <3>1. items \in Seq(S) /\ items # <<>>
        BY <2>3, <1>1 DEF IsSequence
      <3>2. /\ Tail(items) \in Seq(S) /\ Len(Tail(items)) = Len(items) - 1
            /\ \A j \in 1 .. Len(Tail(items)) : Tail(items)[j] = items[j + 1]
        <4> HIDE DEF S, all, item, key
        <4> QED BY <3>1
      <3>3. IsSequence(Tail(items))
        <4> HIDE DEF S, all, item, key
        <4> QED BY <3>2, InSeqIsSequence
      <3> QED BY <2>1, <3>2, <3>3
    <2>5. item = all[k + 1] /\ k + 1 \in 0 .. Len(all) /\ Len(items') = Len(all) - (k + 1)
      <3> HIDE DEF all, item
      <3> QED BY <2>2, <2>3, <2>4
    <2>6. \A j \in 1 .. Len(items') : items'[j] = all[k + 1 + j]
      <3> HIDE DEF all
      <3> QED BY <2>2, <2>3, <2>4
    <2>7. failures' \in Nat /\ (failures' = 0 => failures = 0 /\ Passes(item))
      BY <2>1, <2>3 DEF Failed, Passes
    <2>8. failures' = 0 => \A j \in 1 .. k + 1 : Passes(all[j])
      <3>1. \A j \in 1 .. k + 1 : j \in 1 .. k \/ j = k + 1
        OBVIOUS
      <3> HIDE DEF all, item
      <3> QED BY <2>2, <2>5, <2>7, <3>1
    <2>9. \A j : Passes(all[j])' <=> Passes(all[j])
      BY <1>1, <1>2 DEF Passes, Readable, KeyFor
    <2>10. PassedSoFar'
      <3> HIDE DEF all
      <3>1. \E m \in 0 .. Len(all) :
              /\ Len(items') = Len(all) - m /\ \A j \in 1 .. Len(items') : items'[j] = all[m + j]
              /\ failures' = 0 => \A j \in 1 .. m : Passes(all[j])
        BY <2>5, <2>6, <2>8
      <3>2. \E m \in 0 .. Len(all) :
              /\ Len(items') = Len(all) - m /\ \A j \in 1 .. Len(items') : items'[j] = all[m + j]
              /\ failures' = 0 => \A j \in 1 .. m : Passes(all[j])'
        BY <2>9, <3>1
      <3> DEFINE Behind(a) ==
            /\ IsSequence(a) /\ a # <<>> /\ IsSequence(items') /\ failures' \in Nat
            /\ \E m \in 0 .. Len(a) :
                 /\ Len(items') = Len(a) - m /\ \A j \in 1 .. Len(items') : items'[j] = a[m + j]
                 /\ failures' = 0 => \A j \in 1 .. m : Passes(a[j])'
      <3>3. Behind(all)
        BY <2>3, <2>4, <2>7, <3>2
      <3> QED BY <1>2, <3>3 DEF PassedSoFar, all
    <2> QED BY <1>1, <2>1, <2>10 DEF VerifyStands
  <1> QED BY <1>3, <1>4

\* Every step of a command keeps verify where it stands.
LEMMA RunKeepsVerify ==
  ASSUME CommandInvariant, command.name = "verify", Run
  PROVE  VerifyStands'
  <1>1. /\ VerifyStands /\ command' = command /\ IsVerify(command) /\ IsSequence(entries)
        /\ step \in {"load", "parse", "done"}
    BY RunKeepsTheCommand DEF CommandInvariant, VerifyStands
  <1>2. CASE LoadLines
    <2>1. /\ step = "load" /\ files # <<>> /\ Head(files).kind = "lines" /\ entries' = entries
          /\ Loaded([i \in DOMAIN Lines(Head(files)) |-> Item(Lines(Head(files))[i], NONE)])
      BY <1>2 DEF LoadLines, container, document
    <2>2. Head(files) = command.files[1]
      BY <1>1, <2>1 DEF VerifyStands, IsVerify
    <2>3. ItemsOf(command.files[1])
            = [i \in DOMAIN Lines(Head(files)) |-> Item(Lines(Head(files))[i], NONE)]
      BY <2>1, <2>2 DEF ItemsOf
    <2> QED BY <1>1, <2>1, <2>3, LoadedIsAll
  <1>3. CASE OpenXml
    <2>1. /\ step = "load" /\ files # <<>> /\ Head(files).kind = "xml" /\ step' = "parse"
          /\ UNCHANGED <<files, items, failures>>
      BY <1>3 DEF OpenXml
    <2>2. Head(files) = command.files[1]
      BY <1>1, <2>1 DEF VerifyStands, IsVerify
    <2> QED BY <1>1, <2>1, <2>2 DEF VerifyStands
  <1>4. CASE ParseEvent
    <2>1. step = "parse" /\ UNCHANGED <<command, step, files, items, failures, exit>>
      BY <1>4 DEF ParseEvent, line
    <2> QED BY <1>1, <2>1 DEF VerifyStands
  <1>5. CASE LoadXml
    <2>1. step = "parse" /\ entries' = entries /\ command.files[1].kind = "xml" /\ files = command.files
      BY <1>1, <1>5 DEF LoadXml, container, document, VerifyStands
    <2>2. CASE Bail
      BY <1>1, <2>2 DEF VerifyStands, Bail
    <2>3. CASE ~Bail
      <3>1. Loaded([i \in DOMAIN Claimed(entries) |->
                      Item(Claimed(entries)[i].signed_data, Claimed(entries)[i].public_key)])
        BY <1>5, <2>3 DEF LoadXml
      <3>2. Loaded(ItemsOf(command.files[1]))
        BY <2>1, <3>1 DEF ItemsOf
      <3>3. files # <<>>
        BY <1>1, <2>1 DEF IsVerify
      <3> QED BY <1>1, <2>1, <3>2, <3>3, LoadedIsAll
    <2> QED BY <2>2, <2>3
  <1>6. CASE VerifyNext
    BY <1>1, <1>6, VerifiedIsPassed
  <1>7. CASE VerifyEnd
    <2>1. step = "load" /\ files = <<>> /\ items = <<>> /\ PassedSoFar /\ entries' = entries
      BY <1>1, <1>7 DEF VerifyEnd, Ready, VerifyStands, container, document
    <2>2. CASE Bail
      BY <1>1, <2>2 DEF VerifyStands, Bail
    <2>3. CASE ~Bail
      <3>1. ~(failures > 0) /\ step' = "done" /\ UNCHANGED <<command, files, items, failures>>
        BY <1>7, <2>3 DEF VerifyEnd
      <3>2. failures = 0
        BY <2>1, <3>1 DEF PassedSoFar
      <3>3. PassedSoFar'
        BY <2>1, <3>1, PassedStays
      <3> QED BY <1>1, <2>1, <3>1, <3>2, <3>3 DEF VerifyStands
    <2> QED BY <2>2, <2>3
  <1>8. ~(ToXmlStart \/ ToXmlPack \/ ToXmlEnd \/ ToOcpp \/ FromOcpp)
    BY <1>1 DEF ToXmlStart, ToXmlPack, ToXmlEnd, ToOcpp, FromOcpp, Ready
  <1> QED BY <1>2, <1>3, <1>4, <1>5, <1>6, <1>7, <1>8 DEF Run, Load

\* A command that is called has nothing loaded, nothing counted and nothing answered.
LEMMA CallStartsAnew ==
  ASSUME NEW c, IsCommand(c), c.name = "verify" => IsVerify(c), Call(c), IsSequence(entries),
         entries' = entries
  PROVE  CommandInvariant'
  <1>1. /\ command' = c /\ files' = c.files /\ items' = <<>> /\ failures' = 0 /\ exit' = NONE
        /\ step' = IF c.name = "from-ocpp" THEN "each" ELSE "load"
    BY DEF Call
  <1>2. ASSUME c.name = "verify" PROVE VerifyStands'
    <2>1. step' = "load" /\ IsVerify(command')
      BY <1>1, <1>2
    <2>2. files' # <<>>
      BY <1>1, <1>2 DEF IsVerify
    <2> QED BY <1>1, <2>1, <2>2 DEF VerifyStands
  <1> QED BY <1>1, <1>2 DEF CommandInvariant

\* When verify succeeds, everything it was given was read and passed.
LEMMA PassedIsVerified == CommandInvariant => SuccessIsVerified
  <1> SUFFICES ASSUME CommandInvariant, Done("verify"), exit = "ok" PROVE SuccessIsVerified
    BY DEF SuccessIsVerified
  <1> DEFINE f == command.files[1]
             all == ItemsOf(f)
             fromXml == [i \in DOMAIN entries |-> [text |-> entries[i].signed_data,
                                                   key |-> entries[i].public_key,
                                                   other |-> ~IsOcmf(entries[i])]]
             fromLines == [i \in DOMAIN f.content |-> [text |-> f.content[i], key |-> NONE,
                           other |-> Trim(f.content[i]) = <<>> \/ Trim(f.content[i])[1] = "#"]]
             read == IF f.kind = "xml" THEN fromXml ELSE fromLines
  <1>1. PassedSoFar /\ items = <<>> /\ failures = 0 /\ IsVerify(command) /\ IsSequence(entries)
    BY DEF CommandInvariant, VerifyStands, Done
  <1>2. all # <<>> /\ \A j \in DOMAIN all : Passes(all[j])
    <2>1. IsSequence(all) /\ all # <<>>
      BY <1>1 DEF PassedSoFar
    <2>2. PICK k \in 0 .. Len(all) : Len(items) = Len(all) - k /\ \A j \in 1 .. k : Passes(all[j])
      BY <1>1 DEF PassedSoFar
    <2> HIDE DEF all
    <2>3. k = Len(all) /\ DOMAIN all = 1 .. Len(all)
      BY <1>1, <2>1, <2>2 DEF IsSequence
    <2> QED BY <2>1, <2>2, <2>3
  <1>3. /\ \E i \in DOMAIN read : ~read[i].other
        /\ \A i \in DOMAIN read : \/ read[i].other
                                  \/ /\ Readable(read[i].text)
                                     /\ FromText(KeyFor(read[i])) = RecordOf(read[i].text).key
    <2>1. CASE f.kind = "xml"
      <3>1. \E i \in DOMAIN entries : IsOcmf(entries[i])
        BY <1>1, <1>2, <2>1, ClaimedIsLoaded
      <3>2. ASSUME NEW i \in DOMAIN entries, IsOcmf(entries[i])
            PROVE  /\ Readable(entries[i].signed_data)
                   /\ FromText(KeyFor(fromXml[i])) = RecordOf(entries[i].signed_data).key
        <4>1. PICK j \in DOMAIN all : all[j] = Item(entries[i].signed_data, entries[i].public_key)
          <5> HIDE DEF all
          <5> QED BY <1>1, <2>1, <3>2, ClaimedIsLoaded DEF all
        <4>2. Passes(all[j])
          BY <1>2
        <4>3. /\ all[j].text = entries[i].signed_data /\ all[j].key = entries[i].public_key
              /\ fromXml[i].key = entries[i].public_key
          BY <4>1 DEF Item
        <4> HIDE DEF all, fromXml
        <4> QED BY <4>2, <4>3 DEF Passes, KeyFor
      <3>3. read = fromXml
        BY <2>1
      <3>4. DOMAIN fromXml = DOMAIN entries
        OBVIOUS
      <3>5. \A i \in DOMAIN entries : /\ fromXml[i].text = entries[i].signed_data
                                      /\ fromXml[i].other = ~IsOcmf(entries[i])
        OBVIOUS
      <3> HIDE DEF fromXml, read
      <3> QED BY <3>1, <3>2, <3>3, <3>4, <3>5
    <2>2. CASE f.kind # "xml"
      <3>1. IsSequence(f.content) /\ \A t \in Range(f.content) : IsSequence(t)
        BY <1>1, <2>2 DEF IsVerify
      <3>2. \E i \in DOMAIN f.content : Trim(f.content[i]) # <<>> /\ Trim(f.content[i])[1] # "#"
        BY <1>2, <2>2, <3>1, LinesAreLoaded
      <3>3. ASSUME NEW i \in DOMAIN f.content, Trim(f.content[i]) # <<>>, Trim(f.content[i])[1] # "#"
            PROVE  /\ Readable(f.content[i])
                   /\ FromText(KeyFor(fromLines[i])) = RecordOf(f.content[i]).key
        <4>1. PICK j \in DOMAIN all : all[j] = Item(Trim(f.content[i]), NONE)
          <5> HIDE DEF all, f
          <5> QED BY <2>2, <3>1, <3>3, LinesAreLoaded DEF all
        <4>2. Passes(all[j])
          BY <1>2
        <4>3. all[j].text = Trim(f.content[i]) /\ all[j].key = NONE /\ fromLines[i].key = NONE
          BY <4>1 DEF Item
        <4>4. Trim(Trim(f.content[i])) = Trim(f.content[i])
          <5>1. f.content[i] \in Range(f.content)
            BY DEF Range
          <5> QED BY <3>1, <5>1, TrimmedOnce
        <4>5. /\ Readable(Trim(f.content[i])) <=> Readable(f.content[i])
              /\ RecordOf(Trim(f.content[i])) = RecordOf(f.content[i])
          BY <4>4 DEF Readable, IsRecord, RecordOf
        <4> HIDE DEF all, fromLines
        <4> QED BY <4>2, <4>3, <4>5 DEF Passes, KeyFor
      <3>4. read = fromLines
        BY <2>2
      <3>5. DOMAIN fromLines = DOMAIN f.content
        OBVIOUS
      <3>6. \A i \in DOMAIN f.content :
              /\ fromLines[i].text = f.content[i]
              /\ fromLines[i].other = (Trim(f.content[i]) = <<>> \/ Trim(f.content[i])[1] = "#")
        OBVIOUS
      <3> HIDE DEF fromLines, read, f
      <3>7. ASSUME NEW i \in DOMAIN read, ~read[i].other
            PROVE  Readable(read[i].text) /\ FromText(KeyFor(read[i])) = RecordOf(read[i].text).key
        <4>1. i \in DOMAIN f.content /\ read[i].text = f.content[i]
          BY <3>4, <3>5, <3>6
        <4> QED BY <3>3, <3>4, <3>6, <3>7, <4>1
      <3>8. \E i \in DOMAIN read : ~read[i].other
        BY <3>2, <3>4, <3>5, <3>6
      <3> QED BY <3>7, <3>8
    <2> QED BY <2>1, <2>2
  <1> QED BY <1>3 DEF SuccessIsVerified

\* Whatever the tool is asked and whatever document it is given, verify succeeds only if
\* there is something to verify and everything that claims to be a record is one and
\* verifies: no record is passed over, and no failure is forgotten when a later record
\* passes (main.rs, load and verify_cmd).
THEOREM SuccessIsAlwaysVerified == Spec => []SuccessIsVerified
  <1>1. Init => CommandInvariant
    BY DEF Init, NothingCommanded, CommandInvariant, IsSequence, Range
  <1>2. CommandInvariant /\ [Next]_vars => CommandInvariant'
    <2> SUFFICES ASSUME CommandInvariant, [Next]_vars PROVE CommandInvariant'
      OBVIOUS
    <2>1. CASE UNCHANGED using_tool
      <3>1. UNCHANGED <<entries, command, step, files, items, failures, exit>>
        BY <2>1 DEF using_tool, container, document, line
      <3>2. PassedSoFar => PassedSoFar'
        BY <3>1, PassedStays
      <3> QED BY <3>1, <3>2 DEF CommandInvariant, VerifyStands
    <2>2. CASE (\E c \in Commands : Call(c)) /\ UNCHANGED container
      <3>1. PICK c \in Commands : Call(c)
        BY <2>2
      <3>2. IsCommand(c)
        <4>1. c.source = NONE
          BY CommandsAssumption
        <4> QED BY <4>1, CommandsAssumption DEF IsCommand
      <3>3. c.name = "verify" => IsVerify(c)
        BY CommandsAssumption DEF IsVerify, IsSequence
      <3>4. entries' = entries /\ IsSequence(entries)
        BY <2>2 DEF container, document, CommandInvariant
      <3> QED BY <3>1, <3>2, <3>3, <3>4, CallStartsAnew
    <2>3. CASE Run
      <3>1. command' = command /\ step # "idle" /\ IsSequence(entries')
        BY <2>3, RunKeepsTheCommand, EntriesStayASequence DEF CommandInvariant
      <3>2. command.name = "verify" => VerifyStands'
        BY <2>3, RunKeepsVerify
      <3> QED BY <3>1, <3>2 DEF CommandInvariant
    <2>4. CASE Pipe
      <3> DEFINE c == [command EXCEPT !.name = IF printed.kind = "xml" THEN "verify" ELSE "from-ocpp",
                                      !.files = <<printed>>, !.key = NONE,
                                      !.source = [items |-> items, key |-> command.key]]
      <3>1. step # "idle" /\ Call(c) /\ UNCHANGED container
        BY <2>4 DEF Pipe
      <3>2. IsCommand(command)
        BY <3>1 DEF CommandInvariant
      <3>3. /\ IsCommand(c) /\ c.files = <<printed>>
            /\ c.name = IF printed.kind = "xml" THEN "verify" ELSE "from-ocpp"
        <4> DEFINE r == [name |-> command.name, files |-> command.files, key |-> command.key,
                         profile |-> command.profile, source |-> command.source]
        <4>1. command = r
          BY <3>2 DEF IsCommand
        <4> DEFINE n == IF printed.kind = "xml" THEN "verify" ELSE "from-ocpp"
                   from == [items |-> items, key |-> command.key]
        <4>2. c = [r EXCEPT !.name = n, !.files = <<printed>>, !.key = NONE, !.source = from]
          <5> HIDE DEF r
          <5> QED BY <4>1
        <4> HIDE DEF n, from, c
        <4>3. c = [name |-> n, files |-> <<printed>>, key |-> NONE, profile |-> command.profile,
                   source |-> from]
          BY <4>2
        <4> QED BY <4>3 DEF IsCommand, n
      <3> HIDE DEF c
      <3>4. c.name = "verify" => IsVerify(c)
        BY <3>3 DEF IsVerify
      <3>5. entries' = entries /\ IsSequence(entries)
        BY <3>1 DEF container, document, CommandInvariant
      <3> QED BY <3>1, <3>3, <3>4, <3>5, CallStartsAnew
    <2> QED BY <2>1, <2>2, <2>3, <2>4, StepsOfTheTool
  <1> QED BY <1>1, <1>2, PassedIsVerified, PTL DEF Spec

=============================================================================
