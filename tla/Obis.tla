-------------------------------- MODULE Obis --------------------------------
(***************************************************************************)
(* OBIS codes (obis.rs): A-B:C.D.E, and a billing period after a star or a *)
(* fourth point.  Registers are compared by their canonical form, which    *)
(* several spellings share.  A code is [groups, period, star].             *)
(***************************************************************************)
EXTENDS Catalogue, Characters, FiniteSets

\* is_group.
IsGroup(g) == Len(g) \in 1 .. 4 /\ Range(g) \subseteq Range(UPPER \o LOWER \o DIGITS)

Points(s) == {i \in DOMAIN s : s[i] = "."}

Code(groups, period, star) ==
  IF \A g \in Range(groups \o period) : IsGroup(g)
  THEN [groups |-> groups, period |-> period, star |-> star] ELSE NONE

\* C.D.E: two points, no more.
Body(a, b, body, period, star) ==
  IF Cardinality(Points(body)) # 2 THEN NONE
  ELSE LET i == Min(Points(body))  j == Max(Points(body))
       IN  Code(<<a, b, Before(body, i), SubSeq(body, i + 1, j - 1), After(body, j)>>, period, star)

\* What follows the colon: a star first, then a fourth group after a third point.
Split(a, b, rest, star) ==
  IF star # 0 THEN Body(a, b, Before(rest, star), <<After(rest, star)>>, TRUE)
  ELSE IF Cardinality(Points(rest)) = 3
  THEN Body(a, b, Before(rest, Max(Points(rest))), <<After(rest, Max(Points(rest)))>>, FALSE)
  ELSE Body(a, b, rest, <<>>, FALSE)

Channelled(a, tail, colon) ==
  IF colon = 0 THEN NONE
  ELSE LET rest == After(tail, colon) IN Split(a, Before(tail, colon), rest, FindIn(rest, "*"))

Medium(s, dash) ==
  IF dash = 0 THEN NONE
  ELSE LET tail == After(s, dash) IN Channelled(Before(s, dash), tail, FindIn(tail, ":"))

\* locate.
ParseObis(s) == Medium(s, FindIn(s, "-"))

-----------------------------------------------------------------------------
OrZero(t) == IF t = <<>> THEN <<"0">> ELSE t

\* trimmed_upper.
TrimmedUpper(g) == UpperCase(OrZero(TrimStartOf(g, {"0"})))

\* Mutant of PushGroup: the zeros that are there stay.
PushGroupAsIs(g) == UpperCase(g)

\* push_group: two digits at least.
PushGroup(g) ==
  LET t == TrimmedUpper(g) IN IF Len(t) = 1 THEN <<"0">> \o t ELSE t

Canonical(code) ==
  LET g == [i \in 1 .. 5 |-> PushGroup(code.groups[i])] IN
  g[1] \o <<"-">> \o g[2] \o <<":">> \o g[3] \o <<".">> \o g[4] \o <<".">> \o g[5]
    \o (IF code.period = <<>> THEN <<>> ELSE <<"*">> \o PushGroup(code.period[1]))

IsCanonicalGroup(g) == Len(g) = 2 /\ Range(g) \subseteq Range(UPPER \o DIGITS)
IsCanonical(code) ==
  /\ \A g \in Range(code.groups \o code.period) : IsCanonicalGroup(g)
  /\ code.period # <<>> => code.star

\* register: what the C group says is measured.
RegisterNames ==
  <<"1">> :> "ActiveEnergyImport" @@ <<"2">> :> "ActiveEnergyExport"
    @@ <<"B", "0">> :> "TotalImportMains" @@ <<"B", "1">> :> "TotalImportDevice"
    @@ <<"B", "2">> :> "TransactionImportMains" @@ <<"B", "3">> :> "TransactionImportDevice"
    @@ <<"C", "0">> :> "TotalExportMains" @@ <<"C", "1">> :> "TotalExportDevice"
    @@ <<"C", "2">> :> "TransactionExportMains" @@ <<"C", "3">> :> "TransactionExportDevice"
    @@ [c \in ({"B"} \X (Range(DIGITS \o SubSeq(UPPER, 1, 6)) \ {"0", "1", "2", "3"})) \union ({"C"} \X {"4", "5", "6", "7"})
          |-> "Reserved"]
RegisterOf(code) ==
  LET c == TrimmedUpper(code.groups[3])
  IN  IF c \in DOMAIN RegisterNames THEN RegisterNames[c] ELSE "Other"
IsRegister(code) == TrimmedUpper(code.groups[4]) = <<"8">>

=============================================================================
