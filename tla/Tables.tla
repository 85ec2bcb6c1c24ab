------------------------------- MODULE Tables -------------------------------
(***************************************************************************)
(* The closed value sets of the format and the predicates that the rest of *)
(* the library asks of them (payload/tables.rs, time.rs, payload/mod.rs).  *)
(* A letter the tables do not define is kept, as "?": it is a value, and   *)
(* every predicate that could let money through answers FALSE for it.      *)
(***************************************************************************)
EXTENDS Integers

CONSTANTS
  NONE,         \* Rust's Option::None
  CounterSize   \* 2^w, w the width of the pagination counter (u64 in the code)

ASSUME CounterAssumption == CounterSize \in Nat \ {0, 1}

Option(S) == S \union {NONE}

(***************************************************************************)
(* TX, [OCMF Tab. 7].                                                      *)
(***************************************************************************)
Marker == {"B", "C", "X", "E", "L", "R", "A", "P", "S", "T", "?"}

IsBegin(tx) == tx = "B"
IsEnd(tx)   == tx \in {"E", "L", "R", "A", "P"}
IsFault(tx) == tx \in {"A", "P", "X"}

(***************************************************************************)
(* ST, [OCMF Tab. 10]: G is the only state that is not a fault.            *)
(***************************************************************************)
MeterState == {"N", "G", "T", "D", "R", "M", "X", "I", "O", "S", "E", "F", "?"}

IsOk(st) == st = "G"

(***************************************************************************)
(* EF, [OCMF Tab. 7]: the set of flag characters; Any is "not empty".      *)
(***************************************************************************)
Flag == {"E", "t", "?"}

AnyFlag(ef) == ef # {}

(***************************************************************************)
(* RU, [OCMF Tab. 20].                                                     *)
(***************************************************************************)
Unit == {"kWh", "Wh", "mOhm", "uOhm", "?"}

IsEnergy(u) == u \in {"kWh", "Wh"}

(***************************************************************************)
(* RT, [OCMF Tab. 21].                                                     *)
(***************************************************************************)
CurrentType == {"AC", "DC", "?"}

(***************************************************************************)
(* IL, [OCMF Tab. 11]: the four levels that report a failed assignment.    *)
(***************************************************************************)
IdentificationLevel ==
  {"NONE", "HEARSAY", "TRUSTED", "VERIFIED", "CERTIFIED", "SECURE",
   "MISMATCH", "INVALID", "OUTDATED", "UNKNOWN", "?"}

IsLevelError(il) == il \in {"MISMATCH", "INVALID", "OUTDATED", "UNKNOWN"}

(***************************************************************************)
(* The letter of TM, [OCMF Tab. 19], ordered by what it permits:           *)
(* U < I < R < S.                                                          *)
(***************************************************************************)
TimeStatus == {"U", "I", "R", "S"}

Rank(s) == CASE s = "U" -> 0 [] s = "I" -> 1 [] s = "R" -> 2 [] s = "S" -> 3

DurationIsBillable(s) == s \in {"S", "R"}

Weakest(S)   == CHOOSE s \in S : \A t \in S : Rank(s) <= Rank(t)
Strongest(S) == CHOOSE s \in S : \A t \in S : Rank(t) <= Rank(s)

(***************************************************************************)
(* PG, [OCMF Tab. 2]: a context letter and a counter of fixed width.       *)
(* IsFollowedBy is wrapping_add(1): the successor of the largest counter   *)
(* value is 0.                                                             *)
(***************************************************************************)
Context    == {"T", "F", "?"}
Pagination == [context : Context, number : 0 .. CounterSize - 1]

\* Mutants of IsFollowedBy: the counter only has to change; it does not wrap.
Advances(a, b)          == a.context = b.context /\ b.number # a.number
FollowsUnwrapped(a, b)  == a.context = b.context /\ b.number = a.number + 1

IsFollowedBy(a, b) ==
  /\ a.context = b.context
  /\ b.number = (a.number + 1) % CounterSize

=============================================================================
