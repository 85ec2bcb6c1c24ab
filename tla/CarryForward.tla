---------------------------- MODULE CarryForward ----------------------------
(***************************************************************************)
(* How the RD array of one signed record becomes typed readings:           *)
(* parse_readings of payload/reading.rs, with the truncation that          *)
(* Payload::from_object does before it calls it.                           *)
(*                                                                         *)
(* A reading omits what did not change, so what it means depends on the    *)
(* readings before it.  One step takes one item of the array.  The code    *)
(* reads the array from left to right and never looks ahead, so the state  *)
(* after n steps is exactly what the code returns for the array rd of n    *)
(* items, and every array over Items (and, beyond the limit, over Surplus) *)
(* of at most MaxItems items is reached.                                   *)
(***************************************************************************)
EXTENDS Tables, Sequences

CONSTANTS
  Times, Registers, Numbers,  \* what TM, RI and RV/CL can mean
  Canonical,  \* the registers' spellings that are canonical OBIS codes
  Items,      \* the RD items the array is made of
  Surplus,    \* the items beyond the limit: dropped unread, so few stand for all
  Limit,      \* Limits::readings
  MaxItems    \* bound on the length of the array

(***************************************************************************)
(* A member of a reading object, as obj.get finds it.  A string may not    *)
(* parse (it then means NONE); a literal is a number or a boolean, used as *)
(* the text it was written with; a structure is null, an array or an       *)
(* object, and has no text to take.                                        *)
(***************************************************************************)
Cell(S) == [shape : {"string", "literal"}, means : S]
             \union [shape : {"absent", "structure"}, means : {NONE}]

ScalarField == {"TM", "TX", "RI", "RU", "RT", "EF", "ST"}
NumberField == {"RV", "CL"}
Field       == ScalarField \union NumberField

ReadingObject ==
  [object : {TRUE}, extra : BOOLEAN,
   TM : Cell(Option(Times)), TX : Cell(Marker), RV : Cell(Option(Numbers)),
   RI : Cell(Option(Registers)), RU : Cell(Unit), RT : Cell(CurrentType),
   CL : Cell(Option(Numbers)), EF : Cell(SUBSET Flag), ST : Cell(MeterState)]

NotAnObject == [object : {FALSE}]

\* A deviation: its kind, the item of RD it is about (0: the array), the field.
Kind == {"ScalarFieldNotAString", "FieldTypeMismatch", "TimeMalformed", "ObisMalformed",
         "ObisNonCanonical", "RvIsString", "NumberUnrepresentable", "UndefinedTableValue",
         "ExtensionInsideReading", "CarriedForwardMandatoryField",
         "MandatoryReadingFieldMissing", "ReadingsTruncated"}
Deviation == Kind \X Nat \X (Field \union {"RD", "extra"})

\* A typed reading.  object stands for the reading's own JSON: its place in RD.
Reading ==
  [time : Option(Times), tx : Option(Marker), value : Option(Numbers),
   obis : Option(Registers), unit : Option(Unit), ct : Option(CurrentType),
   loss : Option(Numbers), ef : SUBSET Flag, state : Option(MeterState),
   explicit : SUBSET Field, object : Nat \ {0}]

ASSUME ItemsAssumption ==
  Items \subseteq ReadingObject \union NotAnObject /\ Surplus \subseteq Items
ASSUME BoundsAssumption == Limit \in Nat /\ MaxItems \in Nat /\ Canonical \subseteq Registers
ASSUME NoneAssumption ==
  /\ NONE \notin Times \union Registers \union Numbers
  /\ NONE \notin Marker \union Unit \union CurrentType \union MeterState
  /\ \A flags \in SUBSET Flag : flags # NONE

VARIABLES
  rd,    \* the array, as far as it has been read
  out,   \* the readings made of it
  dev    \* the deviations reported

vars == <<rd, out, dev>>

-----------------------------------------------------------------------------
(***************************************************************************)
(* What one item says for itself.                                          *)
(***************************************************************************)
Usable(c)  == c.shape \in {"string", "literal"}
Present(c) == c.shape # "absent"

\* Mutant of Wrote: every member that is there, the extensions too.
WroteAll(item) == {f \in Field \union {"extra"} : f = "extra" \/ Present(item[f])}

\* Reading::explicit: RV and CL count as written even when nobody can read
\* them, the scalar fields only when they hold something with a text.
Wrote(item) == {f \in ScalarField : Usable(item[f])}
                 \union {f \in NumberField : Present(item[f])}

\* The deviations of TM's own syntax (OcmfTime::parse) are left out.

\* report_undefined: the value is kept and the table does not define it.
Undefined(item, f) ==
  \/ f \in {"TX", "RU", "RT", "ST"} /\ item[f].means = "?"
  \/ f = "EF" /\ item.EF.means # NONE /\ "?" \in item.EF.means

Deviates(item, kind, f) ==
  \/ kind = "ScalarFieldNotAString" /\ f \in ScalarField /\ item[f].shape = "literal"
  \/ kind = "FieldTypeMismatch" /\ f \in ScalarField /\ item[f].shape = "structure"
  \/ kind = "TimeMalformed" /\ f = "TM" /\ Usable(item.TM) /\ item.TM.means = NONE
  \/ kind = "ObisMalformed" /\ f = "RI" /\ Usable(item.RI) /\ item.RI.means = NONE
  \/ kind = "ObisNonCanonical" /\ f = "RI" /\ item.RI.means \in Registers \ Canonical
  \/ kind = "RvIsString" /\ f = "RV" /\ item.RV.shape = "string"
  \/ kind = "NumberUnrepresentable" /\ f \in NumberField
       /\ Present(item[f]) /\ item[f].means = NONE
  \/ kind = "UndefinedTableValue" /\ Undefined(item, f)

FieldDeviations(item, k) ==
  {d \in Kind \X {k} \X Field : Deviates(item, d[1], d[3])}
    \union {<<"ExtensionInsideReading", k, "extra">> : x \in {item.extra} \ {FALSE}}

-----------------------------------------------------------------------------
(***************************************************************************)
(* Carry-forward.  The reading before the first says nothing: NONE in      *)
(* every field, and no error flag.                                         *)
(***************************************************************************)
NoReading == [time |-> NONE, tx |-> NONE, obis |-> NONE, unit |-> NONE,
              ct |-> NONE, ef |-> {}, state |-> NONE]

\* Mutant of previous: the error flags are not carried over.
previousUnflagged == IF out = <<>> THEN NoReading ELSE [out[Len(out)] EXCEPT !.ef = {}]

previous == IF out = <<>> THEN NoReading ELSE out[Len(out)]

OrElse(own, inherited) == IF own # NONE THEN own ELSE inherited

\* Mutant of OmitsGroup: the unit alone decides.
OmitsUnit(item) == item.RU.means = NONE

\* RI and RU are a group: carried together or not at all.
OmitsGroup(item) == item.RI.means = NONE /\ item.RU.means = NONE

Resolved(item, p, k) ==
  [time     |-> OrElse(item.TM.means, p.time),
   tx       |-> OrElse(item.TX.means, p.tx),
   value    |-> item.RV.means,
   obis     |-> IF OmitsGroup(item) THEN p.obis ELSE item.RI.means,
   unit     |-> IF OmitsGroup(item) THEN p.unit ELSE item.RU.means,
   ct       |-> OrElse(item.RT.means, p.ct),
   loss     |-> item.CL.means,
   ef       |-> OrElse(item.EF.means, p.ef),
   state    |-> OrElse(item.ST.means, p.state),
   explicit |-> Wrote(item),
   object   |-> k]

\* Mutant of Carried: only a member that is not there counts as left out.
CarriedIfAbsent(item, k) ==
  {<<"CarriedForwardMandatoryField", k, f>> :
     f \in {g \in {"TM", "RU", "ST"} : out # <<>> /\ item[g].shape = "absent"}}

\* Reported of a reading that has one before it and leaves a mandatory field out.
Carried(item, k) ==
  {<<"CarriedForwardMandatoryField", k, f>> :
     f \in {g \in {"TM", "RU", "ST"} :
              /\ out # <<>>
              /\ IF g = "RU" THEN OmitsGroup(item) ELSE item[g].means = NONE}}

\* The mandatory fields that have no value even after resolution.
Missing(r) == {f \in {"TM", "RU", "ST"} :
                 \/ f = "TM" /\ r.time = NONE
                 \/ f = "ST" /\ r.state = NONE
                 \/ f = "RU" /\ r.value # NONE /\ r.unit = NONE}

-----------------------------------------------------------------------------
Init == rd = <<>> /\ out = <<>> /\ dev = {}

Take(item) == Len(rd) < MaxItems /\ rd' = Append(rd, item)

\* The item is not an object: nothing in it to read, and the array keeps its place.
SkipItem(item) ==
  /\ Take(item)
  /\ Len(rd) < Limit
  /\ ~item.object
  /\ dev' = dev \union {<<"FieldTypeMismatch", Len(rd'), "RD">>}
  /\ UNCHANGED out

ParseItem(item) ==
  /\ Take(item)
  /\ Len(rd) < Limit
  /\ item.object
  /\ LET k == Len(rd')
         r == Resolved(item, previous, k)
     IN /\ out' = Append(out, r)
        /\ dev' = dev \union FieldDeviations(item, k) \union Carried(item, k)
                    \union {<<"MandatoryReadingFieldMissing", k, f>> : f \in Missing(r)}

\* from_object keeps the first Limit items and says so.
TruncateItem(item) ==
  /\ Take(item)
  /\ Len(rd) >= Limit
  /\ dev' = dev \union {<<"ReadingsTruncated", 0, "RD">>}
  /\ UNCHANGED out

Next ==
  \/ \E item \in Items : SkipItem(item) \/ ParseItem(item)
  \/ \E item \in Surplus : TruncateItem(item)

Spec == Init /\ [][Next]_vars

\* Mutant of IsBillable: any unit will do.
IsBillableAnyUnit(r) == r.state = "G" /\ ~AnyFlag(r.ef) /\ r.value # NONE /\ r.unit # NONE

\* Reading::is_billable.
IsBillable(r) == r.state = "G" /\ ~AnyFlag(r.ef) /\ r.value # NONE
                   /\ r.unit # NONE /\ IsEnergy(r.unit)

-----------------------------------------------------------------------------
(***************************************************************************)
(* Properties.                                                             *)
(***************************************************************************)

\* The variables hold what the code's types allow.
TypeOK ==
  /\ rd \in Seq(Items)
  /\ out \in Seq(Reading)
  /\ dev \subseteq Deviation

\* The positions of an array, up to the n-th, that become readings.
Kept(array, n) == {k \in 1 .. n : k <= Limit /\ array[k].object}

\* The reference definition of carry-forward: the latest of the readable
\* statements of field f at or before position n; and, for the group, the latest
\* item that states a register or a unit.
Latest(K) == CHOOSE k \in K : \A m \in K : m <= k

Statements(array, n, f) == {k \in Kept(array, n) : array[k][f].means # NONE}

LastStated(array, n, f, default) ==
  IF Statements(array, n, f) = {} THEN default
  ELSE array[Latest(Statements(array, n, f))][f].means

Groups(array, n) ==
  {k \in Kept(array, n) : array[k].RI.means # NONE \/ array[k].RU.means # NONE}

LastGroup(array, n, f) ==
  IF Groups(array, n) = {} THEN NONE ELSE array[Latest(Groups(array, n))][f].means

\* Every typed reading means what the array last said of each carried field:
\* whatever lies in between (items that are no objects, unreadable or mistyped
\* fields), no reading's field comes from the wrong place, RI and RU come from
\* one item, and no item within the limit is lost or read twice.
ResolvedIsLastStated ==
  /\ {out[i].object : i \in DOMAIN out} = Kept(rd, Len(rd))
  /\ \A h, i \in DOMAIN out : h < i => out[h].object < out[i].object
  /\ \A i \in DOMAIN out :
       LET r == out[i]
           n == r.object
       IN /\ r.time  = LastStated(rd, n, "TM", NONE)
          /\ r.tx    = LastStated(rd, n, "TX", NONE)
          /\ r.ct    = LastStated(rd, n, "RT", NONE)
          /\ r.ef    = LastStated(rd, n, "EF", {})
          /\ r.state = LastStated(rd, n, "ST", NONE)
          /\ r.obis  = LastGroup(rd, n, "RI")
          /\ r.unit  = LastGroup(rd, n, "RU")

\* EF decides money: once a reading is flagged, a later one is free of flags
\* only if some reading from there on wrote an empty EF for itself.  Neither an
\* omitted nor an unreadable EF ever clears a fault.
FlagsStick ==
  \A a, b \in DOMAIN out :
    a < b /\ AnyFlag(out[a].ef) /\ ~AnyFlag(out[b].ef)
      => \E c \in a + 1 .. b : "EF" \in out[c].explicit /\ out[c].ef = {}

\* A reading that may contribute to a bill is backed by what the station wrote:
\* a value of its own, the last state G, no flag standing, and its unit from the
\* item that last named the register.
BillableIsBacked ==
  \A i \in DOMAIN out :
    IsBillable(out[i]) =>
      LET n == out[i].object
      IN /\ rd[n].RV.means = out[i].value /\ rd[n].RV.means # NONE
         /\ LastStated(rd, n, "ST", NONE) = "G"
         /\ LastStated(rd, n, "EF", {}) = {}
         /\ IsEnergy(LastGroup(rd, n, "RU")) /\ LastGroup(rd, n, "RI") = out[i].obis

\* What the typed view lacks, or did not take from the reading itself, is
\* reported at the item it concerns: a mandatory field without a value, and a
\* mandatory field that was inherited.
GapsAreReported ==
  \A i \in DOMAIN out :
    LET r == out[i]
        k == r.object
        Reported(kind) == {f \in Field : <<kind, k, f>> \in dev}
    IN /\ Reported("MandatoryReadingFieldMissing") = Missing(r)
       /\ r.time # NONE /\ r.time # rd[k].TM.means
            => "TM" \in Reported("CarriedForwardMandatoryField")
       /\ r.state # NONE /\ r.state # rd[k].ST.means
            => "ST" \in Reported("CarriedForwardMandatoryField")
       /\ r.unit # NONE /\ r.unit # rd[k].RU.means
            => "RU" \in Reported("CarriedForwardMandatoryField")

(***************************************************************************)
(* What the documentation says and the code does not do.                   *)
(***************************************************************************)

\* deviation.rs: "`TM` is not a timestamp at all, so the reading has no time."
\* The code lets such a reading inherit the instant of the one before it.
MalformedTimeIsNoTime ==
  \A i \in DOMAIN out :
    <<"TimeMalformed", out[i].object, "TM">> \in dev => out[i].time = NONE

\* limits.rs: "A limit is never a truncation: exceeding one is a named
\* ParseError".  The code keeps the record and drops the surplus readings.
LimitIsNeverATruncation ==
  {k \in DOMAIN rd : rd[k].object} = {out[i].object : i \in DOMAIN out}

=============================================================================
