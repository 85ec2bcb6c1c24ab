---------------------------- MODULE NaturalFacts ----------------------------
(***************************************************************************)
(* The least and the greatest of a set of naturals.                        *)
(***************************************************************************)
EXTENDS Integers, WellFoundedInduction, TLAPS

\* A non-empty set of naturals has a least element.
LEMMA LeastExists ==
  ASSUME NEW S \in SUBSET Nat, S # {}
  PROVE  \E x \in S : \A y \in S : x <= y
  <1> DEFINE R == OpToRel(<, Nat)
  <1>1. PICK x \in S : \A y \in S : ~ (<<y, x>> \in R)
    <2>1. IsWellFoundedOn(R, Nat)
      BY NatLessThanWellFounded
    <2> HIDE DEF R
    <2> QED BY <2>1, WFMin
  <1>2. \A y \in S : ~ (y < x)
    BY <1>1 DEF OpToRel
  <1> QED BY <1>2

\* A non-empty set of naturals that is bounded has a greatest element.
LEMMA GreatestExists ==
  ASSUME NEW n \in Nat, NEW S \in SUBSET (1 .. n), S # {}
  PROVE  \E x \in S : \A y \in S : y <= x
  <1> DEFINE T == {n - s : s \in S}
  <1>1. \A s \in S : s \in Nat /\ n - s \in Nat
    OBVIOUS
  <1>2. T \in SUBSET Nat /\ T # {}
    BY <1>1
  <1>3. PICK t \in T : \A u \in T : t <= u
    <2> HIDE DEF T
    <2> QED BY <1>2, LeastExists
  <1>4. PICK s \in S : t = n - s
    OBVIOUS
  <1>5. ASSUME NEW y \in S PROVE y <= s
    <2>1. n - y \in T
      OBVIOUS
    <2>2. n - s <= n - y
      BY <1>3, <1>4, <2>1
    <2> HIDE DEF T
    <2> QED BY <1>1, <2>2
  <1> QED BY <1>5

\* The values of a loop over 1 .. n after each of its steps: b before the first, and then
\* what the step makes of the value before it.
Loops(n, V, b, advance) ==
  {u \in [0 .. n -> V] : u[0] = b /\ \A i \in 1 .. n : u[i] = advance[i][u[i - 1]]}

\* Such a loop has a value after every step.
LEMMA LoopExists ==
  ASSUME NEW n \in Nat, NEW V, NEW b \in V, NEW advance \in [1 .. n -> [V -> V]]
  PROVE  Loops(n, V, b, advance) # {}
  <1> DEFINE Upto(m) == \E u \in [0 .. m -> V] : u[0] = b /\ \A i \in 1 .. m : u[i] = advance[i][u[i - 1]]
  <1> DEFINE Failing == {m \in 0 .. n : ~Upto(m)}
  <1>1. Upto(0)
    <2> DEFINE w == [i \in 0 .. 0 |-> b]
    <2>1. w \in [0 .. 0 -> V] /\ w[0] = b
      OBVIOUS
    <2> HIDE DEF w
    <2>2. \A i \in 1 .. 0 : w[i] = advance[i][w[i - 1]]
      OBVIOUS
    <2> QED BY <2>1, <2>2
  <1>2. ASSUME NEW m \in 1 .. n, Upto(m - 1) PROVE Upto(m)
    <2>1. PICK u \in [0 .. m - 1 -> V] : u[0] = b /\ \A i \in 1 .. m - 1 : u[i] = advance[i][u[i - 1]]
      BY <1>2
    <2> DEFINE w == [i \in 0 .. m |-> IF i = m THEN advance[m][u[m - 1]] ELSE u[i]]
    <2>2. u[m - 1] \in V /\ advance[m][u[m - 1]] \in V
      BY <2>1
    <2>3. w \in [0 .. m -> V]
      BY <2>1, <2>2
    <2>4. w[0] = b /\ \A i \in 1 .. m : w[i] = advance[i][w[i - 1]]
      BY <2>1, <2>2
    <2> QED BY <2>3, <2>4
  <1>3. Failing = {}
    <2>1. SUFFICES ASSUME Failing # {} PROVE FALSE
      OBVIOUS
    <2>2. PICK m \in Failing : \A k \in Failing : m <= k
      <3>1. Failing \in SUBSET Nat
        OBVIOUS
      <3> HIDE DEF Failing
      <3> QED BY <2>1, <3>1, LeastExists
    <2>3. m \in 0 .. n /\ ~Upto(m)
      OBVIOUS
    <2> HIDE DEF Upto
    <2>4. m \in 1 .. n
      BY <1>1, <2>3
    <2>5. Upto(m - 1)
      BY <2>2, <2>4
    <2> QED BY <1>2, <2>3, <2>4, <2>5
  <1>4. Upto(n)
    <2> HIDE DEF Upto
    <2> QED BY <1>3
  <1> QED BY <1>4 DEF Loops

=============================================================================
