------------------------ MODULE CarryForward_proofs ------------------------
(***************************************************************************)
(* Theorems of CarryForward, for every set of items, every limit and every *)
(* length of the array.                                                    *)
(***************************************************************************)
EXTENDS CarryForward, NaturalFacts, TLAPS

-----------------------------------------------------------------------------
(***************************************************************************)
(* One item.                                                               *)
(***************************************************************************)

\* A member that means something was written: it has a text.
LEMMA MeaningIsWritten ==
  ASSUME NEW item \in ReadingObject, NEW f \in ScalarField, item[f].means # NONE
  PROVE  f \in Wrote(item)
  BY DEF ReadingObject, ScalarField, Cell, Wrote, Usable

\* What an item is reported for is a deviation.
LEMMA DeviationsAreTyped ==
  ASSUME NEW item, NEW k \in Nat, NEW r
  PROVE  /\ FieldDeviations(item, k) \subseteq Deviation
         /\ Carried(item, k) \subseteq Deviation
         /\ {<<"MandatoryReadingFieldMissing", k, f>> : f \in Missing(r)} \subseteq Deviation
  <1>1. FieldDeviations(item, k) \subseteq Deviation
    <2>1. {d \in Kind \X {k} \X Field : Deviates(item, d[1], d[3])} \subseteq Deviation
      BY DEF Deviation
    <2>2. "ExtensionInsideReading" \in Kind
      BY DEF Kind
    <2>3. <<"ExtensionInsideReading", k, "extra">> \in Deviation
      BY <2>2 DEF Deviation
    <2> QED BY <2>1, <2>3 DEF FieldDeviations
  <1>2. \A f \in {"TM", "RU", "ST"} : f \in Field
    BY DEF Field, ScalarField
  <1>3. \A f \in {"TM", "RU", "ST"} : /\ <<"CarriedForwardMandatoryField", k, f>> \in Deviation
                                      /\ <<"MandatoryReadingFieldMissing", k, f>> \in Deviation
    BY <1>2 DEF Deviation, Kind
  <1> QED BY <1>1, <1>3 DEF Carried, Missing

-----------------------------------------------------------------------------
(***************************************************************************)
(* Carry-forward, one item at a time.                                      *)
(***************************************************************************)

\* Positions are bounded by the length of the array, so a non-empty set of them
\* has a latest one.
LEMMA LatestOfBounded ==
  ASSUME NEW n \in Nat, NEW K \in SUBSET (1 .. n), K # {}
  PROVE  Latest(K) \in K /\ \A m \in K : m <= Latest(K)
  BY GreatestExists DEF Latest

\* Adding a position behind all others makes it the latest; one that is not added
\* changes nothing.
LEMMA LatestIsTheLast ==
  ASSUME NEW n \in Nat, NEW K \in SUBSET (1 .. n), NEW k \in K, \A m \in K : m <= k
  PROVE  Latest(K) = k
  <1>1. Latest(K) \in K /\ k <= Latest(K)
    BY LatestOfBounded
  <1>2. \A m \in K : m \in Int
    OBVIOUS
  <1>3. Latest(K) <= k
    BY <1>1
  <1>4. \A x, y \in Int : x <= y /\ y <= x => x = y
    OBVIOUS
  <1> QED BY <1>1, <1>2, <1>3, <1>4

\* One more item changes nothing of what was said up to any place before it.
LEMMA AppendKeepsHistory ==
  ASSUME NEW a \in Seq(Items), NEW item \in Items, NEW n \in Nat, n <= Len(a),
         NEW f, NEW default
  PROVE  /\ Kept(Append(a, item), n) = Kept(a, n)
         /\ LastStated(Append(a, item), n, f, default) = LastStated(a, n, f, default)
         /\ LastGroup(Append(a, item), n, f) = LastGroup(a, n, f)
  <1> DEFINE b == Append(a, item)
  <1>1. \A k \in 1 .. n : b[k] = a[k]
    OBVIOUS
  <1> HIDE DEF b
  <1>2. Kept(b, n) = Kept(a, n)
    BY <1>1 DEF Kept
  <1>3. Statements(b, n, f) = Statements(a, n, f) /\ Statements(a, n, f) \in SUBSET (1 .. n)
    BY <1>1, <1>2 DEF Statements, Kept
  <1>4. LastStated(b, n, f, default) = LastStated(a, n, f, default)
    <2>1. CASE Statements(a, n, f) = {}
      BY <1>3, <2>1 DEF LastStated
    <2>2. CASE Statements(a, n, f) # {}
      <3>1. Latest(Statements(a, n, f)) \in 1 .. n
        BY <1>3, <2>2, LatestOfBounded
      <3> QED BY <1>1, <1>3, <3>1 DEF LastStated
    <2> QED BY <2>1, <2>2
  <1>5. Groups(b, n) = Groups(a, n) /\ Groups(a, n) \in SUBSET (1 .. n)
    BY <1>1, <1>2 DEF Groups, Kept
  <1>6. LastGroup(b, n, f) = LastGroup(a, n, f)
    <2>1. CASE Groups(a, n) = {}
      BY <1>5, <2>1 DEF LastGroup
    <2>2. CASE Groups(a, n) # {}
      <3>1. Latest(Groups(a, n)) \in 1 .. n
        BY <1>5, <2>2, LatestOfBounded
      <3> QED BY <1>1, <1>5, <3>1 DEF LastGroup
    <2> QED BY <2>1, <2>2
  <1> QED BY <1>2, <1>4, <1>6 DEF b

\* What was last said at an object within the limit: what it says itself, or else
\* what was last said before it.
LEMMA NextStatement ==
  ASSUME NEW a \in Seq(Items), NEW item \in Items, item.object, Len(a) < Limit,
         NEW f, NEW default
  PROVE  LET b == Append(a, item)
             k == Len(a) + 1
         IN /\ Kept(b, k) = Kept(a, Len(a)) \union {k}
            /\ LastStated(b, k, f, default) = OrElse(item[f].means, LastStated(a, Len(a), f, default))
            /\ LastGroup(b, k, f) = IF OmitsGroup(item) THEN LastGroup(a, Len(a), f)
                                                         ELSE item[f].means
  <1> DEFINE n == Len(a)
             b == Append(a, item)
             k == Len(a) + 1
  <1>0. Limit \in Nat /\ n \in Nat /\ k \in Nat /\ k = n + 1
    BY BoundsAssumption
  <1>1. b[k] = item /\ \A m \in 1 .. n : b[m] = a[m]
    OBVIOUS
  <1>2. Kept(b, n) = Kept(a, n)
    BY AppendKeepsHistory, <1>0
  <1>3. LastStated(b, n, f, default) = LastStated(a, n, f, default)
    BY AppendKeepsHistory, <1>0
  <1>4. LastGroup(b, n, f) = LastGroup(a, n, f)
    BY AppendKeepsHistory, <1>0
  <1>5. Len(a) = n
    OBVIOUS
  <1> HIDE DEF b, k, n
  <1>6. Kept(b, k) = Kept(b, n) \union {k}
    BY <1>0, <1>1, <1>5 DEF Kept
  <1>7. Kept(b, k) \in SUBSET (1 .. k) /\ \A m \in Kept(b, k) : m <= k
    BY <1>0 DEF Kept
  <1>8. LastStated(b, k, f, default) = OrElse(item[f].means, LastStated(b, n, f, default))
    <2>1. CASE item[f].means # NONE
      <3>1. /\ k \in Statements(b, k, f)
            /\ Statements(b, k, f) \in SUBSET (1 .. k)
            /\ \A m \in Statements(b, k, f) : m <= k
        BY <1>1, <1>6, <1>7, <2>1 DEF Statements
      <3>2. Latest(Statements(b, k, f)) = k
        BY <1>0, <3>1, LatestIsTheLast
      <3> QED BY <1>1, <2>1, <3>1, <3>2 DEF LastStated, OrElse
    <2>2. CASE item[f].means = NONE
      <3>1. Statements(b, k, f) = Statements(b, n, f)
        BY <1>1, <1>6, <2>2 DEF Statements
      <3> QED BY <2>2, <3>1 DEF LastStated, OrElse
    <2> QED BY <2>1, <2>2
  <1>9. LastGroup(b, k, f) = IF OmitsGroup(item) THEN LastGroup(b, n, f) ELSE item[f].means
    <2>1. CASE ~OmitsGroup(item)
      <3>1. /\ k \in Groups(b, k)
            /\ Groups(b, k) \in SUBSET (1 .. k)
            /\ \A m \in Groups(b, k) : m <= k
        BY <1>1, <1>6, <1>7, <2>1 DEF Groups, OmitsGroup
      <3>2. Latest(Groups(b, k)) = k
        BY <1>0, <3>1, LatestIsTheLast
      <3> QED BY <1>1, <2>1, <3>1, <3>2 DEF LastGroup
    <2>2. CASE OmitsGroup(item)
      <3>1. Groups(b, k) = Groups(b, n)
        BY <1>1, <1>6, <2>2 DEF Groups, OmitsGroup
      <3> QED BY <2>2, <3>1 DEF LastGroup
    <2> QED BY <2>1, <2>2
  <1> QED BY <1>2, <1>3, <1>4, <1>6, <1>8, <1>9 DEF b, k, n

-----------------------------------------------------------------------------
(***************************************************************************)
(* Type correctness.                                                       *)
(***************************************************************************)

\* The reading before the next one, or the one that says nothing, is typed.
LEMMA PreviousIsTyped ==
  ASSUME out \in Seq(Reading)
  PROVE  /\ previous.time \in Option(Times) /\ previous.tx \in Option(Marker)
         /\ previous.obis \in Option(Registers) /\ previous.unit \in Option(Unit)
         /\ previous.ct \in Option(CurrentType) /\ previous.ef \in SUBSET Flag
         /\ previous.state \in Option(MeterState)
  <1>1. CASE out = <<>>
    BY <1>1 DEF previous, NoReading, Option
  <1>2. CASE out # <<>>
    <2>1. out[Len(out)] \in Reading
      BY <1>2
    <2> QED BY <1>2, <2>1 DEF previous, Reading
  <1> QED BY <1>1, <1>2

\* A reading resolved from an item and the reading before it is a reading.
LEMMA ResolvedIsTyped ==
  ASSUME out \in Seq(Reading), NEW item \in ReadingObject, NEW k \in Nat \ {0}
  PROVE  Resolved(item, previous, k) \in Reading
  <1>1. Wrote(item) \in SUBSET Field
    BY DEF Wrote, Field
  <1>2. /\ item.TM.means \in Option(Times) /\ item.TX.means \in Option(Marker)
        /\ item.RV.means \in Option(Numbers) /\ item.RI.means \in Option(Registers)
        /\ item.RU.means \in Option(Unit) /\ item.RT.means \in Option(CurrentType)
        /\ item.CL.means \in Option(Numbers) /\ item.EF.means \in Option(SUBSET Flag)
        /\ item.ST.means \in Option(MeterState)
    BY DEF ReadingObject, Cell, Option
  <1>3. OrElse(item.EF.means, previous.ef) \in SUBSET Flag
    BY <1>2, PreviousIsTyped DEF OrElse, Option
  <1> QED BY <1>1, <1>2, <1>3, PreviousIsTyped DEF Resolved, Reading, OrElse

\* The variables hold what the types of the code allow, whatever the items.
THEOREM TypeCorrect == Spec => []TypeOK
  <1>1. Init => TypeOK
    BY DEF Init, TypeOK
  <1>2. TypeOK /\ [Next]_vars => TypeOK'
    <2> SUFFICES ASSUME TypeOK, [Next]_vars PROVE TypeOK'
      OBVIOUS
    <2> USE DEF TypeOK
    <2>1. ASSUME NEW item \in Items, SkipItem(item) PROVE TypeOK'
      <3>1. rd' \in Seq(Items) /\ Len(rd') \in Nat /\ out' = out
        BY <2>1 DEF SkipItem, Take
      <3>2. <<"FieldTypeMismatch", Len(rd'), "RD">> \in Deviation
        BY <3>1 DEF Deviation, Kind
      <3> QED BY <2>1, <3>1, <3>2 DEF SkipItem
    <2>2. ASSUME NEW item \in Items, ParseItem(item) PROVE TypeOK'
      <3>1. rd' \in Seq(Items) /\ Len(rd') \in Nat \ {0}
        BY <2>2 DEF ParseItem, Take
      <3>2. item \in ReadingObject
        BY <2>2, ItemsAssumption DEF ParseItem, NotAnObject
      <3>3. Resolved(item, previous, Len(rd')) \in Reading
        BY <3>1, <3>2, ResolvedIsTyped
      <3>4. out' \in Seq(Reading)
        BY <2>2, <3>3 DEF ParseItem
      <3>5. dev' \subseteq Deviation
        BY <2>2, <3>1, DeviationsAreTyped DEF ParseItem
      <3> QED BY <3>1, <3>4, <3>5
    <2>3. ASSUME NEW item \in Surplus, TruncateItem(item) PROVE TypeOK'
      <3>1. item \in Items
        BY ItemsAssumption
      <3>2. rd' \in Seq(Items) /\ out' = out
        BY <2>3, <3>1 DEF TruncateItem, Take
      <3>3. <<"ReadingsTruncated", 0, "RD">> \in Deviation
        BY DEF Deviation, Kind
      <3> QED BY <2>3, <3>2, <3>3 DEF TruncateItem
    <2>4. CASE UNCHANGED vars
      BY <2>4 DEF vars
    <2> QED BY <2>1, <2>2, <2>3, <2>4 DEF Next
  <1> QED BY <1>1, <1>2, PTL DEF Spec

-----------------------------------------------------------------------------
(***************************************************************************)
(* The typed view is what the array last said.                             *)
(***************************************************************************)

\* The number of a reading is the one it was written with: RV is not carried.
ValuesAreOwn == \A i \in DOMAIN out : out[i].value = rd[out[i].object].RV.means

\* The inductive invariant: what is proved of every state, of the types and of
\* the readings made so far.
Invariant == TypeOK /\ FlagsStick /\ ResolvedIsLastStated /\ ValuesAreOwn

\* What the next reading inherits is what the array has last said: the items
\* after the last reading's own became no reading.
LEMMA PreviousIsLastStated ==
  ASSUME TypeOK, ResolvedIsLastStated
  PROVE  LET n == Len(rd)
         IN /\ previous.time  = LastStated(rd, n, "TM", NONE)
            /\ previous.tx    = LastStated(rd, n, "TX", NONE)
            /\ previous.ct    = LastStated(rd, n, "RT", NONE)
            /\ previous.ef    = LastStated(rd, n, "EF", {})
            /\ previous.state = LastStated(rd, n, "ST", NONE)
            /\ previous.obis  = LastGroup(rd, n, "RI")
            /\ previous.unit  = LastGroup(rd, n, "RU")
  <1> DEFINE n == Len(rd)
  <1>1. CASE out = <<>>
    <2>1. Kept(rd, n) = {}
      BY <1>1 DEF ResolvedIsLastStated
    <2>2. Groups(rd, n) = {} /\ \A f : Statements(rd, n, f) = {}
      BY <2>1 DEF Groups, Statements
    <2> QED BY <1>1, <2>2 DEF previous, NoReading, LastStated, LastGroup
  <1>2. CASE out # <<>>
    <2> DEFINE l == Len(out)
               m == out[l].object
    <2>1. l \in DOMAIN out /\ l \in Nat /\ previous = out[l] /\ \A i \in DOMAIN out : i <= l /\ i \in Nat
      BY <1>2 DEF previous, TypeOK
    <2>2. n \in Nat /\ \A i \in DOMAIN out : out[i].object \in Nat
      <3>1. n \in Nat /\ \A i \in DOMAIN out : out[i] \in Reading
        BY DEF TypeOK
      <3> QED BY <3>1 DEF Reading
    <2>3. \A i \in DOMAIN out : out[i].object <= m
      <3>1. SUFFICES ASSUME NEW i \in DOMAIN out PROVE out[i].object <= m
        OBVIOUS
      <3>2. i = l \/ i < l
        BY <2>1
      <3>3. i < l => out[i].object < m
        BY <2>1 DEF ResolvedIsLastStated
      <3> QED BY <2>1, <2>2, <3>2, <3>3
    <2>4. m \in Kept(rd, n) /\ \A k \in Kept(rd, n) : k <= m
      BY <2>1, <2>3 DEF ResolvedIsLastStated
    <2>5. Kept(rd, n) = Kept(rd, m)
      BY <2>2, <2>4 DEF Kept
    <2>6. Groups(rd, n) = Groups(rd, m) /\ \A f : Statements(rd, n, f) = Statements(rd, m, f)
      BY <2>5 DEF Groups, Statements
    <2> QED BY <2>1, <2>6 DEF ResolvedIsLastStated, LastStated, LastGroup
  <1> QED BY <1>1, <1>2

\* The readings made so far keep their meaning whatever item comes next.
LEMMA HistoryStands ==
  ASSUME TypeOK, ResolvedIsLastStated, ValuesAreOwn, NEW item \in Items,
         rd' = Append(rd, item), NEW i \in DOMAIN out
  PROVE  LET r == out[i]
             n == r.object
         IN /\ r.value = rd'[n].RV.means
            /\ r.time  = LastStated(rd', n, "TM", NONE)
            /\ r.tx    = LastStated(rd', n, "TX", NONE)
            /\ r.ct    = LastStated(rd', n, "RT", NONE)
            /\ r.ef    = LastStated(rd', n, "EF", {})
            /\ r.state = LastStated(rd', n, "ST", NONE)
            /\ r.obis  = LastGroup(rd', n, "RI")
            /\ r.unit  = LastGroup(rd', n, "RU")
  <1> DEFINE n == out[i].object
  <1>1. n \in Kept(rd, Len(rd))
    BY DEF ResolvedIsLastStated
  <1>2. n \in Nat /\ n <= Len(rd) /\ n \in 1 .. Len(rd)
    BY <1>1 DEF Kept, TypeOK
  <1>3. rd'[n] = rd[n]
    BY <1>2 DEF TypeOK
  <1>4. \A f, default : /\ LastStated(rd', n, f, default) = LastStated(rd, n, f, default)
                        /\ LastGroup(rd', n, f) = LastGroup(rd, n, f)
    <2> HIDE DEF n
    <2> QED BY <1>2, AppendKeepsHistory DEF TypeOK
  <1> QED BY <1>3, <1>4 DEF ResolvedIsLastStated, ValuesAreOwn

\* An item that becomes no reading changes no property of the readings.
LEMMA NoReadingStep ==
  ASSUME Invariant, TypeOK', NEW item \in Items, rd' = Append(rd, item), out' = out,
         ~(Len(rd) < Limit /\ item.object)
  PROVE  Invariant'
  <1> USE DEF Invariant
  <1>1. FlagsStick'
    BY DEF FlagsStick
  <1>2. Kept(rd', Len(rd')) = Kept(rd, Len(rd))
    <2>1. Kept(rd', Len(rd)) = Kept(rd, Len(rd)) /\ Len(rd) \in Nat
      BY AppendKeepsHistory DEF TypeOK
    <2>2. Len(rd') = Len(rd) + 1 /\ rd'[Len(rd) + 1] = item
      BY DEF TypeOK
    <2>3. ~(Len(rd) + 1 <= Limit /\ item.object)
      BY <2>1, BoundsAssumption
    <2> QED BY <2>1, <2>2, <2>3 DEF Kept
  <1>3. ResolvedIsLastStated'
    BY <1>2, HistoryStands DEF ResolvedIsLastStated
  <1>4. ValuesAreOwn'
    BY HistoryStands DEF ValuesAreOwn
  <1> QED BY <1>1, <1>3, <1>4

\* A new reading.
LEMMA ReadingStep ==
  ASSUME Invariant, TypeOK', NEW item \in Items, rd' = Append(rd, item),
         Len(rd) < Limit, item.object,
         out' = Append(out, Resolved(item, previous, Len(rd')))
  PROVE  Invariant'
  <1> USE DEF Invariant
  <1> DEFINE k == Len(rd) + 1
             l == Len(out) + 1
             r == Resolved(item, previous, k)
  <1>1. Len(rd) \in Nat /\ Len(out) \in Nat /\ Len(rd') = k /\ rd'[k] = item
    BY DEF TypeOK
  <1>2. /\ DOMAIN out' = DOMAIN out \union {l} /\ l \notin DOMAIN out
        /\ out'[l] = r /\ \A i \in DOMAIN out : out'[i] = out[i] /\ i \in Nat /\ i < l
    BY <1>1 DEF TypeOK
  <1>3. r.object = k /\ r.value = item.RV.means
    BY DEF Resolved
  <1>4. item \in ReadingObject
    BY ItemsAssumption DEF NotAnObject
  <1>5. FlagsStick'
    <2>1. SUFFICES ASSUME NEW a \in DOMAIN out, AnyFlag(out[a].ef), ~AnyFlag(r.ef)
                   PROVE  \E c \in a + 1 .. l : "EF" \in out'[c].explicit /\ out'[c].ef = {}
      <3> SUFFICES ASSUME NEW a \in DOMAIN out', NEW b \in DOMAIN out', a < b,
                          AnyFlag(out'[a].ef), ~AnyFlag(out'[b].ef)
                   PROVE  \E c \in a + 1 .. b : "EF" \in out'[c].explicit /\ out'[c].ef = {}
        BY DEF FlagsStick
      <3> HIDE DEF r, k, l
      <3>1. CASE b = l
        <4>1. a \in DOMAIN out
          BY <1>2, <3>1
        <4> QED BY <1>2, <2>1, <3>1, <4>1
      <3>2. CASE b \in DOMAIN out
        <4>1. a \in DOMAIN out
          BY <1>2, <3>2
        <4>2. PICK c \in a + 1 .. b : "EF" \in out[c].explicit /\ out[c].ef = {}
          BY <1>2, <3>2, <4>1 DEF FlagsStick
        <4>3. c \in DOMAIN out
          BY <3>2, <4>1, <4>2 DEF TypeOK
        <4> QED BY <1>2, <4>2, <4>3
      <3> QED BY <1>2, <3>1, <3>2
    <2>2. a \in Nat /\ l \in a + 1 .. l /\ Len(out) \in DOMAIN out /\ out # <<>>
      BY <1>1, <1>2 DEF TypeOK
    <2>3. CASE item.EF.means # NONE
      <3>1. "EF" \in r.explicit
        BY <1>4, <2>3, MeaningIsWritten DEF Resolved, ScalarField
      <3> QED BY <1>2, <2>1, <2>2, <3>1 DEF AnyFlag
    <2>4. CASE item.EF.means = NONE
      <3>1. r.ef = out[Len(out)].ef
        BY <2>2, <2>4 DEF Resolved, OrElse, previous
      <3>2. a # Len(out) /\ a < Len(out)
        BY <1>1, <1>2, <2>1, <2>2, <3>1
      <3>3. PICK c \in a + 1 .. Len(out) : "EF" \in out[c].explicit /\ out[c].ef = {}
        BY <2>1, <2>2, <3>1, <3>2 DEF FlagsStick
      <3>4. c \in DOMAIN out /\ c \in a + 1 .. l
        BY <1>1, <2>2, <3>3 DEF TypeOK
      <3> QED BY <1>2, <3>3, <3>4
    <2> QED BY <2>3, <2>4
  <1>6. ResolvedIsLastStated'
    <2>1. Kept(rd', k) = Kept(rd, Len(rd)) \union {k}
      BY NextStatement DEF TypeOK
    <2>2. {out'[i].object : i \in DOMAIN out'} = Kept(rd', Len(rd'))
      BY <1>1, <1>2, <1>3, <2>1 DEF ResolvedIsLastStated
    <2>3. \A i \in DOMAIN out : out[i].object < k
      <3>1. \A i \in DOMAIN out : out[i].object \in 1 .. Len(rd)
        BY DEF ResolvedIsLastStated, Kept
      <3> QED BY <1>1, <3>1
    <2>4. \A h, i \in DOMAIN out' : h < i => out'[h].object < out'[i].object
      BY <1>2, <1>3, <2>3 DEF ResolvedIsLastStated
    <2>5. \A f, default :
            /\ LastStated(rd', k, f, default)
                 = OrElse(item[f].means, LastStated(rd, Len(rd), f, default))
            /\ LastGroup(rd', k, f) = IF OmitsGroup(item) THEN LastGroup(rd, Len(rd), f)
                                                            ELSE item[f].means
      BY NextStatement DEF TypeOK
    <2>6. /\ r.time  = LastStated(rd', k, "TM", NONE)
          /\ r.tx    = LastStated(rd', k, "TX", NONE)
          /\ r.ct    = LastStated(rd', k, "RT", NONE)
          /\ r.ef    = LastStated(rd', k, "EF", {})
          /\ r.state = LastStated(rd', k, "ST", NONE)
          /\ r.obis  = LastGroup(rd', k, "RI")
          /\ r.unit  = LastGroup(rd', k, "RU")
      BY <2>5, PreviousIsLastStated DEF Resolved
    <2> HIDE DEF r, k, l
    <2> QED BY <1>2, <1>3, <2>2, <2>4, <2>6, HistoryStands DEF ResolvedIsLastStated
  <1>7. ValuesAreOwn'
    <2>1. \A i \in DOMAIN out : out[i].value = rd'[out[i].object].RV.means
      BY HistoryStands
    <2>2. out'[l].value = rd'[out'[l].object].RV.means
      BY <1>1, <1>2, <1>3
    <2> HIDE DEF r, k, l
    <2> QED BY <1>2, <2>1, <2>2 DEF ValuesAreOwn
  <1> QED BY <1>5, <1>6, <1>7

\* The four parts of the invariant hold together.
THEOREM InvariantHolds == Spec => []Invariant
  <1>1. Init => Invariant
    BY DEF Init, Invariant, TypeOK, FlagsStick, ResolvedIsLastStated, ValuesAreOwn, Kept
  <1>2. Invariant /\ TypeOK' /\ [Next]_vars => Invariant'
    <2> SUFFICES ASSUME Invariant, TypeOK', [Next]_vars PROVE Invariant'
      OBVIOUS
    <2>1. ASSUME NEW item \in Items, SkipItem(item) PROVE Invariant'
      BY <2>1, NoReadingStep DEF SkipItem, Take
    <2>2. ASSUME NEW item \in Items, ParseItem(item) PROVE Invariant'
      BY <2>2, ReadingStep DEF ParseItem, Take
    <2>3. ASSUME NEW item \in Surplus, TruncateItem(item) PROVE Invariant'
      <3>1. item \in Items /\ ~(Len(rd) < Limit)
        BY <2>3, ItemsAssumption, BoundsAssumption DEF TruncateItem, Invariant, TypeOK
      <3> QED BY <2>3, <3>1, NoReadingStep DEF TruncateItem, Take
    <2>4. CASE UNCHANGED vars
      BY <2>4 DEF vars, Invariant, TypeOK, FlagsStick, ResolvedIsLastStated, ValuesAreOwn
    <2> QED BY <2>1, <2>2, <2>3, <2>4 DEF Next
  <1> QED BY <1>1, <1>2, TypeCorrect, PTL DEF Spec

\* EF decides money: whatever the items, a fault flag is cleared only by a reading
\* that writes an empty EF for itself.
THEOREM FlagsAlwaysStick == Spec => []FlagsStick
  <1>1. Invariant => FlagsStick
    BY DEF Invariant
  <1> QED BY <1>1, InvariantHolds, PTL

\* Carry-forward is correct for every array: the typed view says what the array
\* last said.
THEOREM ResolutionIsCorrect == Spec => []ResolvedIsLastStated
  <1>1. Invariant => ResolvedIsLastStated
    BY DEF Invariant
  <1> QED BY <1>1, InvariantHolds, PTL

\* A reading that counts towards a bill is backed by the items of the array.
THEOREM BillableIsAlwaysBacked == Spec => []BillableIsBacked
  <1>1. Invariant => BillableIsBacked
    BY DEF Invariant, BillableIsBacked, ResolvedIsLastStated, ValuesAreOwn, IsBillable, AnyFlag
  <1> QED BY <1>1, InvariantHolds, PTL

-----------------------------------------------------------------------------
(***************************************************************************)
(* Where deviations are.                                                   *)
(***************************************************************************)
\* Nothing is reported of an item that was not read yet.
NothingAhead == \A kind \in Kind, f \in Field, k \in Nat : <<kind, k, f>> \in dev => k <= Len(rd)

\* A reading was made of an item that was read.
ReadingsAreOfItems == \A i \in DOMAIN out : out[i].object \in 1 .. Len(rd)

GapsInvariant == NothingAhead /\ ReadingsAreOfItems /\ GapsAreReported

\* What the members of a reading report is neither a gap nor an inheritance.
LEMMA FieldsReportNoGap ==
  ASSUME NEW item, NEW k, NEW m, NEW f \in Field,
         NEW kind \in {"MandatoryReadingFieldMissing", "CarriedForwardMandatoryField"}
  PROVE  <<kind, m, f>> \notin FieldDeviations(item, k)
<1>1. kind # "ExtensionInsideReading" /\ ~Deviates(item, kind, f)
  BY DEF Deviates
<1>2. <<kind, m, f>> \notin {d \in Kind \X {k} \X Field : Deviates(item, d[1], d[3])}
  BY <1>1
<1>3. <<kind, m, f>> \notin {<<"ExtensionInsideReading", k, "extra">> : x \in {item.extra} \ {FALSE}}
  BY <1>1
<1> QED BY <1>2, <1>3 DEF FieldDeviations

\* Whatever is reported of a new reading is reported of its item.
LEMMA NewDeviationsAreOfItem ==
  ASSUME NEW item, NEW k, NEW r, NEW kind \in Kind, NEW m, NEW f \in Field,
         <<kind, m, f>> \in FieldDeviations(item, k) \union Carried(item, k)
                              \union {<<"MandatoryReadingFieldMissing", k, g>> : g \in Missing(r)}
  PROVE  m = k
<1>1. <<kind, m, f>> \in FieldDeviations(item, k) => m = k
  BY DEF FieldDeviations
<1>2. <<kind, m, f>> \in Carried(item, k) => m = k
  BY DEF Carried
<1> QED BY <1>1, <1>2

-----------------------------------------------------------------------------
(***************************************************************************)
(* The steps.                                                              *)
(***************************************************************************)
\* An item that becomes no reading reports no gap.
LEMMA GapsWithoutReading ==
  ASSUME TypeOK, GapsInvariant, NEW item \in Items, rd' = Append(rd, item), out' = out,
         \/ dev' = dev \union {<<"FieldTypeMismatch", Len(rd'), "RD">>}
         \/ dev' = dev \union {<<"ReadingsTruncated", 0, "RD">>}
  PROVE  GapsInvariant'
<1>1. Len(rd') = Len(rd) + 1 /\ Len(rd) \in Nat /\ \A k \in 1 .. Len(rd) : rd'[k] = rd[k]
  BY DEF TypeOK
<1>2. \A kind, k : \A f \in Field : <<kind, k, f>> \in dev' <=> <<kind, k, f>> \in dev
  BY DEF Field, ScalarField, NumberField
<1>3. NothingAhead'
  BY <1>1, <1>2 DEF GapsInvariant, NothingAhead
<1>4. ReadingsAreOfItems'
  BY <1>1 DEF GapsInvariant, ReadingsAreOfItems
<1>5. ASSUME NEW i \in DOMAIN out
      PROVE  out[i].object \in 1 .. Len(rd) /\ rd'[out[i].object] = rd[out[i].object]
  BY <1>1 DEF GapsInvariant, ReadingsAreOfItems
<1>6. GapsAreReported'
  BY <1>2, <1>5 DEF GapsInvariant, GapsAreReported
<1> QED BY <1>3, <1>4, <1>6 DEF GapsInvariant

\* The new reading's own gaps are reported with it.
LEMMA NewGapsAreReported ==
  ASSUME TypeOK, NothingAhead, NEW item \in Items, item.object, ParseItem(item)
  PROVE  LET k == Len(rd')
             r == Resolved(item, previous, k)
             Reported(kind) == {f \in Field : <<kind, k, f>> \in dev'} IN
         /\ Reported("MandatoryReadingFieldMissing") = Missing(r)
         /\ r.time # NONE /\ r.time # item.TM.means
              => "TM" \in Reported("CarriedForwardMandatoryField")
         /\ r.state # NONE /\ r.state # item.ST.means
              => "ST" \in Reported("CarriedForwardMandatoryField")
         /\ r.unit # NONE /\ r.unit # item.RU.means
              => "RU" \in Reported("CarriedForwardMandatoryField")
<1> DEFINE k == Len(rd')
           r == Resolved(item, previous, k)
           Reported(kind) == {f \in Field : <<kind, k, f>> \in dev'}
<1>1. k = Len(rd) + 1 /\ k \in Nat /\ k > Len(rd)
  BY DEF ParseItem, Take, TypeOK
<1>2. dev' = dev \union FieldDeviations(item, k) \union Carried(item, k)
               \union {<<"MandatoryReadingFieldMissing", k, f>> : f \in Missing(r)}
  BY DEF ParseItem
<1> HIDE DEF k
<1>3. \A kind \in Kind, f \in Field : <<kind, k, f>> \notin dev
  BY <1>1 DEF NothingAhead, TypeOK
<1>4. \A f \in Field : <<"MandatoryReadingFieldMissing", k, f>> \notin FieldDeviations(item, k)
  BY FieldsReportNoGap
<1>5. \A f : <<"MandatoryReadingFieldMissing", k, f>> \notin Carried(item, k)
  BY DEF Carried
<1>6. Missing(r) \subseteq Field /\ "MandatoryReadingFieldMissing" \in Kind
  BY DEF Missing, Field, ScalarField, NumberField, Kind
<1>7. Reported("MandatoryReadingFieldMissing") = Missing(r)
  <2> HIDE DEF r
  <2> QED BY <1>2, <1>3, <1>4, <1>5, <1>6
<1>8. Carried(item, k) \subseteq dev'
  BY <1>2
<1>9. {"TM", "ST", "RU"} \subseteq Field
  BY DEF Field, ScalarField
<1>10. ASSUME r.time # NONE, r.time # item.TM.means
       PROVE  "TM" \in Reported("CarriedForwardMandatoryField")
  <2>1. item.TM.means = NONE /\ previous.time # NONE
    BY <1>10 DEF Resolved, OrElse
  <2>2. out # <<>>
    BY <2>1 DEF previous, NoReading
  <2>3. <<"CarriedForwardMandatoryField", k, "TM">> \in Carried(item, k)
    BY <2>1, <2>2 DEF Carried
  <2> QED BY <1>8, <1>9, <2>3
<1>11. ASSUME r.state # NONE, r.state # item.ST.means
       PROVE  "ST" \in Reported("CarriedForwardMandatoryField")
  <2>1. item.ST.means = NONE /\ previous.state # NONE
    BY <1>11 DEF Resolved, OrElse
  <2>2. out # <<>>
    BY <2>1 DEF previous, NoReading
  <2>3. <<"CarriedForwardMandatoryField", k, "ST">> \in Carried(item, k)
    BY <2>1, <2>2 DEF Carried
  <2> QED BY <1>8, <1>9, <2>3
<1>12. ASSUME r.unit # NONE, r.unit # item.RU.means
       PROVE  "RU" \in Reported("CarriedForwardMandatoryField")
  <2>1. OmitsGroup(item) /\ previous.unit # NONE
    BY <1>12 DEF Resolved
  <2>2. out # <<>>
    BY <2>1 DEF previous, NoReading
  <2>3. <<"CarriedForwardMandatoryField", k, "RU">> \in Carried(item, k)
    BY <2>1, <2>2 DEF Carried
  <2> QED BY <1>8, <1>9, <2>3
<1> QED BY <1>7, <1>10, <1>11, <1>12 DEF k

\* A new reading.
LEMMA GapsWithReading ==
  ASSUME TypeOK, GapsInvariant, NEW item \in Items, ParseItem(item)
  PROVE  GapsInvariant'
<1> DEFINE k == Len(rd')
           r == Resolved(item, previous, k)
<1>1. /\ rd' = Append(rd, item) /\ item.object /\ out' = Append(out, r)
      /\ dev' = dev \union FieldDeviations(item, k) \union Carried(item, k)
                  \union {<<"MandatoryReadingFieldMissing", k, f>> : f \in Missing(r)}
  BY DEF ParseItem, Take
<1>2. /\ k = Len(rd) + 1 /\ Len(rd) \in Nat
      /\ rd'[k] = item /\ \A m \in 1 .. Len(rd) : rd'[m] = rd[m]
  BY <1>1 DEF TypeOK
<1>3. r.object = k
  BY DEF Resolved
<1>4. /\ DOMAIN out' = DOMAIN out \union {Len(out) + 1} /\ out'[Len(out) + 1] = r
      /\ \A i \in DOMAIN out : out'[i] = out[i]
  <2> HIDE DEF r
  <2>1. Len(out) \in Nat /\ DOMAIN out = 1 .. Len(out)
    BY DEF TypeOK
  <2> QED BY <1>1, <2>1 DEF TypeOK
<1>5. \A kind \in Kind, m \in Nat, f \in Field :
        <<kind, m, f>> \in dev' => <<kind, m, f>> \in dev \/ m = k
  <2> HIDE DEF k, r
  <2> QED BY <1>1, NewDeviationsAreOfItem
<1>6. NothingAhead'
  <2> HIDE DEF r
  <2> QED BY <1>2, <1>5 DEF GapsInvariant, NothingAhead
<1>7. ReadingsAreOfItems'
  <2> HIDE DEF r
  <2> QED BY <1>2, <1>3, <1>4 DEF GapsInvariant, ReadingsAreOfItems
<1>8. GapsAreReported'
  <2> SUFFICES ASSUME NEW i \in DOMAIN out'
               PROVE  LET q == out'[i]
                          n == q.object
                          Reported(kind) == {f \in Field : <<kind, n, f>> \in dev'} IN
                      /\ Reported("MandatoryReadingFieldMissing") = Missing(q)
                      /\ q.time # NONE /\ q.time # rd'[n].TM.means
                           => "TM" \in Reported("CarriedForwardMandatoryField")
                      /\ q.state # NONE /\ q.state # rd'[n].ST.means
                           => "ST" \in Reported("CarriedForwardMandatoryField")
                      /\ q.unit # NONE /\ q.unit # rd'[n].RU.means
                           => "RU" \in Reported("CarriedForwardMandatoryField")
    BY DEF GapsAreReported, Missing
  <2>1. CASE i = Len(out) + 1
    <3>1. NothingAhead
      BY DEF GapsInvariant
    <3>2. out'[i] = r /\ r.object = k /\ rd'[k] = item
      BY <1>2, <1>3, <1>4, <2>1
    <3>3. LET Reported(kind) == {f \in Field : <<kind, k, f>> \in dev'} IN
          /\ Reported("MandatoryReadingFieldMissing") = Missing(r)
          /\ r.time # NONE /\ r.time # item.TM.means
               => "TM" \in Reported("CarriedForwardMandatoryField")
          /\ r.state # NONE /\ r.state # item.ST.means
               => "ST" \in Reported("CarriedForwardMandatoryField")
          /\ r.unit # NONE /\ r.unit # item.RU.means
               => "RU" \in Reported("CarriedForwardMandatoryField")
      BY <1>1, <3>1, NewGapsAreReported
    <3> HIDE DEF k, r
    <3> QED BY <3>2, <3>3
  <2>2. CASE i \in DOMAIN out
    <3> DEFINE n == out[i].object
    <3>1. n \in 1 .. Len(rd) /\ n \in Nat /\ n # k /\ rd'[n] = rd[n] /\ out'[i] = out[i]
      BY <1>2, <1>4, <2>2 DEF GapsInvariant, ReadingsAreOfItems
    <3>2. ASSUME NEW kind \in {"MandatoryReadingFieldMissing", "CarriedForwardMandatoryField"},
                 NEW f \in Field
          PROVE  <<kind, n, f>> \in dev' <=> <<kind, n, f>> \in dev
      <4>1. kind \in Kind
        BY DEF Kind
      <4> HIDE DEF k, r, n
      <4> QED BY <1>1, <1>5, <3>1, <4>1
    <3> HIDE DEF k, r
    <3> QED BY <2>2, <3>1, <3>2 DEF GapsInvariant, GapsAreReported
  <2> QED BY <1>4, <2>1, <2>2
<1> QED BY <1>6, <1>7, <1>8 DEF GapsInvariant

\* A mandatory field that a reading has not, or has from an earlier one, is reported
\* at that reading, and no other is reported missing: for every array.
THEOREM GapsAreAlwaysReported == Spec => []GapsAreReported
<1>1. Init => GapsInvariant
  BY DEF Init, GapsInvariant, NothingAhead, ReadingsAreOfItems, GapsAreReported
<1>2. TypeOK /\ GapsInvariant /\ [Next]_vars => GapsInvariant'
  <2> SUFFICES ASSUME TypeOK, GapsInvariant, [Next]_vars PROVE GapsInvariant'
    OBVIOUS
  <2>1. ASSUME NEW item \in Items, SkipItem(item) PROVE GapsInvariant'
    BY <2>1, GapsWithoutReading DEF SkipItem, Take
  <2>2. ASSUME NEW item \in Items, ParseItem(item) PROVE GapsInvariant'
    BY <2>2, GapsWithReading
  <2>3. ASSUME NEW item \in Surplus, TruncateItem(item) PROVE GapsInvariant'
    BY <2>3, GapsWithoutReading, ItemsAssumption DEF TruncateItem, Take
  <2>4. CASE UNCHANGED vars
    BY <2>4 DEF vars, GapsInvariant, NothingAhead, ReadingsAreOfItems, GapsAreReported, Missing
  <2> QED BY <2>1, <2>2, <2>3, <2>4 DEF Next
<1>3. GapsInvariant => GapsAreReported
  BY DEF GapsInvariant
<1> QED BY <1>1, <1>2, <1>3, TypeCorrect, PTL DEF Spec

=============================================================================
