------------------------ MODULE Verification_proofs ------------------------
(***************************************************************************)
(* Proofs about Verification, for every set of curves, points, texts,      *)
(* signatures and requests.                                                *)
(***************************************************************************)
EXTENDS Verification, TLAPS

-----------------------------------------------------------------------------
(***************************************************************************)
(* The helpers.                                                            *)
(***************************************************************************)
\* What is read of a section is a curve of the table and bytes, or nothing.
LEMMA SectionTypes ==
  ASSUME NEW x \in Section
  PROVE  /\ Algorithm(x) \in Curves \union {NONE}
         /\ SignatureData(x) \in Bytes \union {NONE}
<1>1. x.sa.means \in Named /\ x.se.means \in Encoding \union {NONE}
      /\ x.sd.means \in [Encoding -> Bytes \union {NONE}]
  BY DEF Section, Cell
<1>2. Algorithm(x) \in Curves \union {NONE}
  BY <1>1, CurvesAssumption DEF Algorithm, Named
<1>3. SignatureEncoding(x) \in Encoding \union {NONE}
  BY <1>1 DEF SignatureEncoding, Encoding
<1>4. SignatureData(x) \in Bytes \union {NONE}
  BY <1>1, <1>3 DEF SignatureData
<1> QED BY <1>2, <1>4

\* A key is read whole or not at all.
LEMMA KeyType ==
  ASSUME NEW m \in Material, NEW h \in Curves \union {NONE}
  PROVE  KeyOf(m, h) \in PublicKey \union {NONE}
BY CurvesAssumption DEF KeyOf, Material, PublicKey

\* The scalars that are taken out of bytes are numbers.
LEMMA DecodedType ==
  ASSUME NEW b \in Bytes
  PROVE  Decoded(b) \in Scalars
BY DEF Decoded, Bytes

\* n - s is a number, and where it is not taken s is.
LEMMA NegateType ==
  ASSUME NEW c \in Curves, NEW s \in Nat
  PROVE  Negate(c, s) \in Nat
<1>1. Order[c] \in Nat
  BY CurvesAssumption
<1> QED BY <1>1 DEF Negate

\* Whichever backend answers, it answers with one of these.
LEMMA AnswerType ==
  ASSUME NEW build, NEW c, NEW point, NEW text, NEW x
  PROVE  BackendAnswer(build, c, point, text, x) \in
           {"SignatureScalars", "KeyNotOnCurve", "Unsupported", "NotVerified", "Verified"}
BY DEF BackendAnswer, PureAnswer, OpensslAnswer

\* Whichever backend answers, it takes only what was signed.
LEMMA BackendIsSound ==
  ASSUME NEW build, NEW c, NEW point, NEW text, NEW x,
         BackendAnswer(build, c, point, text, x) = "Verified"
  PROVE  <<c, point, text, x.r, x.s>> \in Signed
BY DEF BackendAnswer, PureAnswer, OpensslAnswer, Matches

-----------------------------------------------------------------------------
(***************************************************************************)
(* The inductive invariant: what each step may rely on.                    *)
(***************************************************************************)
\* The section is the request's, as it was read.
SectionRead ==
  pc # "parse" =>
    section = [algorithm |-> Algorithm(request.section), data |-> SignatureData(request.section)]

\* The key is what the material was taken for ...
KeyRead ==
  pc \in {"algorithm", "split", "normalise", "backend"} =>
    key \in PublicKey /\ key # NONE /\ key = KeyOf(request.material, Hint)

\* ... and from the moment that was checked it is on the record's curve.
CurvesAgree ==
  pc \in {"split", "normalise", "backend"} => key.curve = section.algorithm

\* The scalars are those that the record carries, or once they are normalised
\* those with the other s, which the caller allows.
Taken(x) ==
  /\ section.data \in Bytes /\ section.data # NONE
  /\ section.data.der # NONE \/ section.data.len = 2 * Width[key.curve]
  /\ x = Decoded(section.data)

SigRead ==
  /\ pc = "normalise" => Taken(sig)
  /\ pc = "backend" =>
       \E x \in Scalars :
         /\ Taken(x)
         /\ \/ sig = x /\ ~IsHigh(key.curve, x.s)
            \/ /\ request.malleability = "Accept" /\ IsHigh(key.curve, x.s)
               /\ sig = [x EXCEPT !.s = Negate(key.curve, @)]

Inv == TypeOK /\ SectionRead /\ KeyRead /\ CurvesAgree /\ SigRead

\* A request is one of the declared kind, whichever of its members is asked for.
LEMMA RequestTypes ==
  ASSUME TypeOK
  PROVE  /\ request.section \in Section /\ request.material \in Material
         /\ request.hint \in {"record", NONE} \union Curves
BY RequestsAssumption DEF TypeOK, Request

\* The first step of a check finds nothing read.
LEMMA InvInit == Init => Inv
BY DEF Init, Inv, TypeOK, SectionRead, KeyRead, CurvesAgree, SigRead

\* The section is read.
LEMMA InvParse == Inv /\ Parse => Inv'
<1> SUFFICES ASSUME Inv, Parse PROVE Inv'
  OBVIOUS
<1>1. Algorithm(request.section) \in Curves \union {NONE}
      /\ SignatureData(request.section) \in Bytes \union {NONE}
  BY RequestTypes, SectionTypes DEF Inv
<1>2. TypeOK'
  BY <1>1, CurvesAssumption DEF Inv, TypeOK, Parse, At, Go, Answer, Verdict
<1>3. SectionRead' /\ pc' \in {"key", "done"}
  BY DEF Parse, At, Go, Answer, SectionRead
<1> QED BY <1>2, <1>3 DEF Inv, KeyRead, CurvesAgree, SigRead

\* The key is read.
LEMMA InvReadKey == Inv /\ ReadKey => Inv'
<1> SUFFICES ASSUME Inv, ReadKey PROVE Inv'
  OBVIOUS
<1> USE DEF ReadKey, At, Go, Answer
<1>1. section.algorithm \in Curves \union {NONE}
  BY RequestTypes, SectionTypes DEF Inv, SectionRead
<1>2. Hint \in Curves \union {NONE}
  BY <1>1, RequestTypes DEF Inv, Hint
<1>3. key' = KeyOf(request.material, Hint) /\ key' \in PublicKey \union {NONE}
  BY <1>2, RequestTypes, KeyType DEF Inv
<1>4. Hint' = Hint
  BY DEF Hint
<1>5. TypeOK'
  BY <1>3, CurvesAssumption DEF Inv, TypeOK, Verdict
<1>6. SectionRead'
  BY DEF Inv, SectionRead
<1>7. KeyRead'
  BY <1>3, <1>4 DEF KeyRead
<1>8. pc' \in {"algorithm", "done"}
  OBVIOUS
<1> QED BY <1>5, <1>6, <1>7, <1>8 DEF Inv, CurvesAgree, SigRead

\* The curves are compared.
LEMMA InvCheckAlgorithm == Inv /\ CheckAlgorithm => Inv'
<1> SUFFICES ASSUME Inv, CheckAlgorithm PROVE Inv'
  OBVIOUS
<1> USE DEF CheckAlgorithm, At, Go, Answer
<1>1. Hint' = Hint /\ pc' \in {"split", "done"}
  BY DEF Hint
<1>2. TypeOK'
  BY CurvesAssumption DEF Inv, TypeOK, Verdict
<1>3. SectionRead' /\ KeyRead' /\ CurvesAgree'
  BY <1>1 DEF Inv, SectionRead, KeyRead, CurvesAgree
<1> QED BY <1>1, <1>2, <1>3 DEF Inv, SigRead

\* The scalars are taken out.
LEMMA InvSplit == Inv /\ Split => Inv'
<1> SUFFICES ASSUME Inv, Split PROVE Inv'
  OBVIOUS
<1> USE DEF Split, At, Go, Answer
<1>1. Hint' = Hint /\ pc' \in {"normalise", "done"}
  BY DEF Hint
<1>2. section.data \in Bytes \union {NONE}
  BY RequestTypes, SectionTypes DEF Inv, SectionRead
<1>3. section.data # NONE => Decoded(section.data) \in Scalars
  BY <1>2, DecodedType
<1>4. SplitDeviation(section.data) \subseteq DeviationKind
  BY DEF SplitDeviation, DeviationKind, Departure
<1>5. TypeOK'
  BY <1>3, <1>4, CurvesAssumption DEF Inv, TypeOK, Verdict
<1>6. SectionRead' /\ KeyRead' /\ CurvesAgree'
  BY <1>1 DEF Inv, SectionRead, KeyRead, CurvesAgree
<1>7. SigRead'
  BY <1>1, <1>2 DEF SigRead, Taken
<1> QED BY <1>5, <1>6, <1>7 DEF Inv

\* The low form is taken.
LEMMA InvNormalise == Inv /\ Normalise => Inv'
<1> SUFFICES ASSUME Inv, Normalise PROVE Inv'
  OBVIOUS
<1> USE DEF Normalise, At, Go, Answer
<1>1. Hint' = Hint /\ pc' \in {"backend", "done"}
  BY DEF Hint
<1>2. Taken(sig) /\ key \in PublicKey
  BY DEF Inv, SigRead, KeyRead
<1>3. sig \in Scalars
  BY <1>2, DecodedType DEF Taken
<1>4. Negate(key.curve, sig.s) \in Nat
  BY <1>2, <1>3, NegateType DEF Scalars, PublicKey
<1>5. sig' \in Scalars \union {NONE}
  BY <1>3, <1>4 DEF Scalars
<1>6. TypeOK'
  BY <1>5, CurvesAssumption DEF Inv, TypeOK, DeviationKind, Verdict
<1>7. SectionRead' /\ KeyRead' /\ CurvesAgree'
  BY <1>1 DEF Inv, SectionRead, KeyRead, CurvesAgree
<1>8. SigRead'
  BY <1>1, <1>2, <1>3 DEF SigRead, Taken
<1> QED BY <1>6, <1>7, <1>8 DEF Inv

\* The backend answers.
LEMMA InvAskBackend == Inv /\ AskBackend => Inv'
<1> SUFFICES ASSUME Inv, AskBackend PROVE Inv'
  OBVIOUS
<1> USE DEF AskBackend, At, Answer
<1>1. pc' = "done"
  OBVIOUS
<1>2. TypeOK'
  BY AnswerType, CurvesAssumption DEF Inv, TypeOK, Verdict
<1>3. SectionRead'
  BY DEF Inv, SectionRead
<1> QED BY <1>1, <1>2, <1>3 DEF Inv, KeyRead, CurvesAgree, SigRead

\* A step that changes nothing changes nothing.
LEMMA InvStutter == Inv /\ UNCHANGED vars => Inv'
BY DEF vars, Inv, TypeOK, SectionRead, KeyRead, CurvesAgree, SigRead, Taken, Hint

\* The invariant holds throughout every check.
THEOREM VerificationInvariant == Spec => []Inv
<1>1. Inv /\ [Next]_vars => Inv'
  BY InvParse, InvReadKey, InvCheckAlgorithm, InvSplit, InvNormalise, InvAskBackend, InvStutter
  DEF Next
<1> QED BY InvInit, <1>1, PTL DEF Spec

\* Every request gets one of the verdicts, and none before the check is over.
THEOREM VerificationTypeCorrect == Spec => []TypeOK
<1>1. Inv => TypeOK
  BY DEF Inv
<1> QED BY <1>1, VerificationInvariant, PTL

-----------------------------------------------------------------------------
(***************************************************************************)
(* What is accepted was signed.                                            *)
(***************************************************************************)
\* The twin of a signature is a signature: where n - s was looked up, s was
\* signed.
LEMMA TwinIsSigned ==
  ASSUME NEW c \in Curves, NEW p, NEW t, NEW x \in Scalars,
         <<c, p, t, x.r, Negate(c, x.s)>> \in Signed
  PROVE  <<c, p, t, x.r, x.s>> \in Signed
<1>1. Order[c] \in Nat /\ x.s \in Nat
  BY CurvesAssumption DEF Scalars
<1>2. CASE x.s < Order[c]
  <2>1. Negate(c, x.s) = Order[c] - x.s
    BY <1>2 DEF Negate
  <2>2. <<c, p, t, x.r, Order[c] - (Order[c] - x.s)>> \in Signed
    BY <2>1, SignedAssumption
  <2> QED BY <1>1, <2>2
<1>3. CASE ~(x.s < Order[c])
  BY <1>3 DEF Negate
<1> QED BY <1>2, <1>3

\* The record's algorithm is the curve that its section names.
LEMMA AlgorithmIsNamed ==
  ASSUME NEW c, Algorithm(request.section) = c
  PROVE  Names(c)
BY DEF Algorithm, Names, HasText

\* A key that was read is on the curve it says, or on the one it was taken for.
LEMMA KeyIsOfMaterial ==
  ASSUME NEW c \in Curves, Names(c), section.algorithm = c,
         key \in PublicKey, key # NONE, key = KeyOf(request.material, Hint), key.curve = c
  PROVE  KeyIs(c, key.point)
<1>1. key = [curve |-> c, point |-> key.point]
  BY DEF PublicKey
<1>2. CASE request.material.spki # NONE
  BY <1>1, <1>2 DEF KeyOf, KeyIs
<1>3. CASE request.material.spki = NONE /\ Hint # NONE /\ request.material.bare[Hint] # NONE
  <2>1. key = [curve |-> Hint, point |-> request.material.bare[Hint]]
    BY <1>3 DEF KeyOf
  <2>2. Hint = c /\ request.material.bare[c] = key.point
    BY <2>1
  <2> QED BY <1>3, <2>2 DEF KeyIs, Hint
<1>4. CASE request.material.spki = NONE /\ ~(Hint # NONE /\ request.material.bare[Hint] # NONE)
  BY <1>4 DEF KeyOf
<1> QED BY <1>2, <1>3, <1>4

\* The scalars that were taken are those that the record carries.
LEMMA TakenIsCarried ==
  ASSUME TypeOK, section.data = SignatureData(request.section),
         NEW x, Taken(x)
  PROVE  SignatureIs(key.curve, x) /\ x \in AnyScalars
<1> DEFINE b == section.data
<1>1. request.section.se.means \in Encoding \union {NONE}
  BY RequestTypes DEF Section, Cell
<1>2. SignatureEncoding(request.section) \in Encoding \union {NONE}
  BY <1>1 DEF SignatureEncoding, Encoding
<1>3. b # NONE
  BY DEF Taken
<1>4. /\ HasText(request.section.sd) /\ SignatureEncoding(request.section) # NONE
      /\ b = request.section.sd.means[SignatureEncoding(request.section)]
  BY <1>3 DEF SignatureData
<1>5. b \in AnySD
  BY <1>2, <1>3, <1>4 DEF AnySD
<1>6. Carries(b)
  BY <1>2, <1>3, <1>4 DEF Carries, SignatureEncoding, HasText
<1>7. Holds(b, key.curve, x)
  BY DEF Taken, Decoded, Holds
<1>8. x \in AnyScalars
  BY <1>5 DEF Taken, Decoded, AnyScalars
<1> QED BY <1>5, <1>6, <1>7, <1>8 DEF SignatureIs

\* If the backend takes it, the station signed it.
LEMMA BackendAcceptsAuthentic ==
  ASSUME Inv, pc = "backend",
         BackendAnswer(request.build, key.curve, key.point, request.text, sig) = "Verified"
  PROVE  \E c \in Curves, p \in Points, x \in AnyScalars :
           /\ SignedBy(c, p, x)
           /\ request.malleability = "RejectHighS" => 2 * x.s <= Order[c]
<1>1. /\ key \in PublicKey /\ key # NONE /\ key = KeyOf(request.material, Hint)
      /\ key.curve = section.algorithm
  BY DEF Inv, KeyRead, CurvesAgree
<1>2. key.curve \in Curves /\ key.point \in Points
  BY <1>1 DEF PublicKey
<1>3. Algorithm(request.section) = key.curve /\ section.data = SignatureData(request.section)
  BY <1>1 DEF Inv, SectionRead
<1>4. Names(key.curve)
  BY <1>3, AlgorithmIsNamed
<1>5. KeyIs(key.curve, key.point)
  BY <1>1, <1>2, <1>4, KeyIsOfMaterial
<1>6. PICK x \in Scalars :
        /\ Taken(x)
        /\ \/ sig = x /\ ~IsHigh(key.curve, x.s)
           \/ /\ request.malleability = "Accept"
              /\ sig = [x EXCEPT !.s = Negate(key.curve, @)]
  BY DEF Inv, SigRead
<1>7. SignatureIs(key.curve, x) /\ x \in AnyScalars
  BY <1>3, <1>6, TakenIsCarried DEF Inv
<1>8. <<key.curve, key.point, request.text, sig.r, sig.s>> \in Signed
  BY BackendIsSound
<1>9. <<key.curve, key.point, request.text, x.r, x.s>> \in Signed
  <2>1. CASE sig = x
    BY <1>8, <2>1
  <2>2. CASE sig = [x EXCEPT !.s = Negate(key.curve, @)]
    <3>1. sig.r = x.r /\ sig.s = Negate(key.curve, x.s)
      BY <1>6, <2>2 DEF Scalars
    <3> QED BY <1>2, <1>6, <1>8, <3>1, TwinIsSigned
  <2> QED BY <1>6, <2>1, <2>2
<1>10. request.malleability = "RejectHighS" => 2 * x.s <= Order[key.curve]
  <2>1. Order[key.curve] \in Nat /\ x.s \in Nat
    BY <1>2, <1>6, CurvesAssumption DEF Scalars
  <2> QED BY <1>6, <2>1 DEF IsHigh
<1>11. SignedBy(key.curve, key.point, x)
  BY <1>4, <1>5, <1>7, <1>9 DEF SignedBy
<1> QED BY <1>2, <1>7, <1>10, <1>11

\* A Verified is only ever handed out for what the station of that key signed,
\* on the record's own curve, and in the low form if the caller insists.
THEOREM AcceptedIsAlwaysAuthentic == Spec => []AcceptedIsAuthentic
<1>1. Init => AcceptedIsAuthentic
  BY CurvesAssumption DEF Init, AcceptedIsAuthentic, Verdict
<1>2. Inv /\ AcceptedIsAuthentic /\ [Next]_vars => AcceptedIsAuthentic'
  <2> SUFFICES ASSUME Inv, AcceptedIsAuthentic, [Next]_vars, verdict' = "Verified"
               PROVE  (\E c \in Curves, p \in Points, x \in AnyScalars :
                         /\ SignedBy(c, p, x)
                         /\ request.malleability = "RejectHighS" => 2 * x.s <= Order[c])'
    BY DEF AcceptedIsAuthentic
  <2>1. request' = request
    BY DEF Next, Parse, ReadKey, CheckAlgorithm, Split, Normalise, AskBackend, At, vars
  <2>2. \/ verdict = "Verified"
        \/ /\ pc = "backend"
           /\ BackendAnswer(request.build, key.curve, key.point, request.text, sig) = "Verified"
    BY DEF Next, Parse, ReadKey, CheckAlgorithm, Split, Normalise, AskBackend, At, Go, Answer, vars
  <2>3. \E c \in Curves, p \in Points, x \in AnyScalars :
          /\ SignedBy(c, p, x)
          /\ request.malleability = "RejectHighS" => 2 * x.s <= Order[c]
    BY <2>2, BackendAcceptsAuthentic DEF AcceptedIsAuthentic
  <2>4. AnySD' = AnySD
    BY <2>1 DEF AnySD
  <2>5. AnyScalars' = AnyScalars
    BY <2>4 DEF AnyScalars
  <2>6. ASSUME NEW c \in Curves, NEW p \in Points, NEW x \in AnyScalars, SignedBy(c, p, x)
        PROVE  SignedBy(c, p, x)'
    BY <2>1, <2>4, <2>6 DEF SignedBy, Names, KeyIs, SignatureIs, Carries, Holds
  <2> QED BY <2>1, <2>3, <2>5, <2>6
<1> QED BY <1>1, <1>2, VerificationInvariant, PTL DEF Spec

-----------------------------------------------------------------------------
(***************************************************************************)
(* What a request says is what is read: the other direction of the lemmas  *)
(* AlgorithmIsNamed, KeyIsOfMaterial and TakenIsCarried.                   *)
(***************************************************************************)
\* The curve that the section names is the one that is read.
LEMMA NamedIsAlgorithm ==
  ASSUME NEW c, Names(c)
  PROVE  Algorithm(request.section) = c
BY DEF Algorithm, Names, HasText

\* The key that the material is is the one that is read.
LEMMA MaterialIsKey ==
  ASSUME NEW c \in Curves, NEW p \in Points, KeyIs(c, p), section.algorithm = c
  PROVE  KeyOf(request.material, Hint) = [curve |-> c, point |-> p]
<1>1. [curve |-> c, point |-> p] # NONE
  BY NoneAssumption DEF PublicKey
<1>2. CASE request.material.spki = [curve |-> c, point |-> p]
  BY <1>1, <1>2 DEF KeyOf
<1>3. CASE /\ request.material.spki = NONE /\ request.material.bare[c] = p
           /\ request.hint = c \/ (request.hint = "record" /\ Names(c))
  <2>1. Hint = c
    BY <1>3 DEF Hint
  <2>2. c # NONE /\ p # NONE
    BY CurvesAssumption
  <2> QED BY <1>3, <2>1, <2>2 DEF KeyOf
<1> QED BY <1>2, <1>3 DEF KeyIs

\* Scalars that a request may carry are scalars.
LEMMA AnyScalarsAreScalars ==
  ASSUME TypeOK, NEW x \in AnyScalars
  PROVE  x \in Scalars
<1>1. request.section.sd.means \in [Encoding -> Bytes \union {NONE}]
  BY RequestTypes DEF Section, Cell
<1>2. AnySD \subseteq Bytes
  BY <1>1 DEF AnySD
<1> QED BY <1>2 DEF AnyScalars, Bytes

\* The bytes that the section carries are those that are read.
LEMMA CarriedIsData ==
  ASSUME NEW b, Carries(b)
  PROVE  b = SignatureData(request.section) /\ b # NONE
<1>1. PICK e \in Encoding :
        /\ e = IF HasText(request.section.se) THEN request.section.se.means ELSE "hex"
        /\ b = request.section.sd.means[e]
  BY DEF Carries, HasText
<1>2. e = SignatureEncoding(request.section)
  BY <1>1 DEF SignatureEncoding
<1>3. HasText(request.section.sd) /\ b # NONE
  BY DEF Carries, HasText
<1>4. CASE e # NONE
  BY <1>1, <1>2, <1>3, <1>4 DEF SignatureData
<1>5. e # NONE
  BY NoneAssumption DEF Encoding
<1> QED BY <1>3, <1>4, <1>5

\* The scalars that the section carries are those that are taken.
LEMMA CarriedIsTaken ==
  ASSUME TypeOK, section.data = SignatureData(request.section), section.data \in Bytes \union {NONE},
         NEW c, NEW x \in AnyScalars, SignatureIs(c, x)
  PROVE  LET b == section.data IN
         /\ b # NONE /\ b \in Bytes /\ x = Decoded(b)
         /\ b.der # NONE \/ b.len = 2 * Width[c]
<1>1. PICK b \in AnySD : Carries(b) /\ Holds(b, c, x)
  BY DEF SignatureIs
<1>2. section.data = b /\ b # NONE
  BY <1>1, CarriedIsData
<1>3. x # NONE
  BY AnyScalarsAreScalars, NoneAssumption
<1> QED BY <1>1, <1>2, <1>3 DEF Holds, Decoded

-----------------------------------------------------------------------------
(***************************************************************************)
(* What a station signed is accepted.                                      *)
(***************************************************************************)
\* How the check of such a request may end.
AcceptedOrNot(c, x) ==
  \/ verdict = "Verified"
  \/ verdict = "Deviates" /\ request.profile # "Interop"
  \/ /\ verdict = "Unsupported"
     /\ IsSupported(request.build, c) => c \notin request.build.provides
  \/ verdict = "HighSSignature" /\ request.malleability = "RejectHighS" /\ 2 * x.s > Order[c]

\* How far it has come: the key is p, the scalars are x, and then its low form.
OnTheWay(c, p, x) ==
  /\ pc \in {"algorithm", "split", "normalise", "backend"} => key = [curve |-> c, point |-> p]
  /\ pc = "normalise" => sig = x
  /\ pc = "backend" =>
       /\ sig \in Scalars /\ sig.r = x.r /\ ~IsHigh(c, sig.s)
       /\ sig.s \in {x.s, Order[c] - x.s}
  /\ pc = "done" => AcceptedOrNot(c, x)

\* Every signature is in the range of its curve, and its point is on it.
LEMMA SignedIsInRange ==
  ASSUME NEW c \in Curves, NEW p, NEW t, NEW r, NEW s, <<c, p, t, r, s>> \in Signed
  PROVE  /\ p \in Valid[c] /\ r \in 1 .. Order[c] - 1 /\ s \in 1 .. Order[c] - 1
         /\ <<c, p, t, r, Order[c] - s>> \in Signed
BY SignedAssumption

\* No profile but a strict one minds anything.
LEMMA InteropRejectsNothing == Rejects("Interop") = {}
BY DEF Rejects

\* What the section says was read when it was read.
LEMMA ReadAsSaid ==
  ASSUME Inv, pc # "parse", NEW c, Names(c)
  PROVE  /\ section.algorithm = c /\ section.data = SignatureData(request.section)
         /\ section.data \in Bytes \union {NONE}
BY NamedIsAlgorithm, RequestTypes, SectionTypes DEF Inv, SectionRead

\* The step of the backend.
LEMMA BackendTakes ==
  ASSUME NEW build, NEW c \in Curves, NEW p, NEW t, NEW x,
         <<c, p, t, x.r, x.s>> \in Signed, ~IsHigh(c, x.s)
  PROVE  LET answer == BackendAnswer(build, c, p, t, x) IN
         \/ answer = "Verified"
         \/ answer = "Unsupported" /\ (IsSupported(build, c) => c \notin build.provides)
<1>1. p \in Valid[c] /\ x.r \in 1 .. Order[c] - 1 /\ x.s \in 1 .. Order[c] - 1
  BY SignedIsInRange
<1>2. Order[c] \in Nat
  BY CurvesAssumption
<1>3. InRange(c, x.r) /\ InRange(c, x.s)
  BY <1>1, <1>2 DEF InRange
<1> QED BY <1>1, <1>3 DEF BackendAnswer, PureAnswer, OpensslAnswer, Matches, IsSupported

\* The form that Normalise hands on is a signature too.
LEMMA LowFormIsSigned ==
  ASSUME NEW c \in Curves, NEW p, NEW t, NEW x, <<c, p, t, x.r, x.s>> \in Signed,
         NEW y, y.r = x.r, y.s \in {x.s, Order[c] - x.s}
  PROVE  <<c, p, t, y.r, y.s>> \in Signed
BY SignedIsInRange

\* Of s and n - s, one is low.
LEMMA TwinIsLow ==
  ASSUME NEW c \in Curves, NEW p, NEW t, NEW x, <<c, p, t, x.r, x.s>> \in Signed, IsHigh(c, x.s)
  PROVE  /\ Negate(c, x.s) = Order[c] - x.s /\ Order[c] - x.s \in Nat
         /\ ~IsHigh(c, Order[c] - x.s) /\ 2 * x.s > Order[c]
<1>1. x.s \in 1 .. Order[c] - 1
  BY SignedIsInRange
<1>2. Order[c] \in Nat
  BY CurvesAssumption
<1> QED BY <1>1, <1>2 DEF IsHigh, Negate

\* One step of a check of what was signed.
LEMMA StepOnTheWay ==
  ASSUME Inv, Next, NEW c \in Curves, NEW p \in Points, NEW x \in AnyScalars,
         SignedBy(c, p, x), OnTheWay(c, p, x)
  PROVE  OnTheWay(c, p, x)'
<1> DEFINE k == [curve |-> c, point |-> p]
<1> USE DEF At, Go, Answer, OnTheWay
<1>1. Names(c) /\ KeyIs(c, p) /\ SignatureIs(c, x) /\ <<c, p, request.text, x.r, x.s>> \in Signed
  BY DEF SignedBy
<1>2. x \in Scalars
  BY AnyScalarsAreScalars DEF Inv
<1>3. k # NONE /\ k.curve = c /\ k.point = p
  BY NoneAssumption DEF PublicKey
<1>4. c # NONE
  BY CurvesAssumption
<1>5. CASE Parse
  <2>1. pc' = "key" \/ (pc' = "done" /\ verdict' = "Deviates" /\ Rejects(request.profile) # {})
    BY <1>5 DEF Parse
  <2>2. request' = request
    BY <1>5 DEF Parse
  <2> QED BY <2>1, <2>2, InteropRejectsNothing DEF AcceptedOrNot
<1>6. CASE ReadKey
  <2>1. section.algorithm = c
    BY <1>1, <1>6, ReadAsSaid DEF ReadKey
  <2>2. key' = k
    BY <1>1, <1>6, <2>1, MaterialIsKey DEF ReadKey
  <2>3. pc' = "algorithm"
    BY <1>3, <1>6, <2>2 DEF ReadKey
  <2> QED BY <2>2, <2>3
<1>7. CASE CheckAlgorithm
  <2>1. section.algorithm = c /\ key = k
    BY <1>1, <1>7, ReadAsSaid DEF CheckAlgorithm
  <2>2. pc' = "split" /\ key' = k
    BY <1>3, <1>4, <1>7, <2>1 DEF CheckAlgorithm
  <2> QED BY <2>2
<1>8. CASE Split
  <2>1. key = k /\ section.data = SignatureData(request.section)
        /\ section.data \in Bytes \union {NONE}
    BY <1>1, <1>8, ReadAsSaid DEF Split
  <2>2. /\ section.data # NONE /\ x = Decoded(section.data)
        /\ section.data.der # NONE \/ section.data.len = 2 * Width[c]
    BY <1>1, <2>1, CarriedIsTaken DEF Inv
  <2>3. pc' = "normalise" /\ sig' = x /\ key' = k
    BY <1>3, <1>8, <2>1, <2>2 DEF Split
  <2> QED BY <2>3
<1>9. CASE Normalise
  <2>1. key = k /\ sig = x /\ key' = k /\ request' = request
    BY <1>9 DEF Normalise
  <2>2. CASE ~IsHigh(c, x.s)
    <3>1. pc' = "backend" /\ sig' = x
      BY <1>3, <1>9, <2>1, <2>2 DEF Normalise
    <3> QED BY <1>2, <2>1, <2>2, <3>1 DEF IsHigh
  <2>3. CASE IsHigh(c, x.s) /\ request.malleability = "RejectHighS"
    <3>1. pc' = "done" /\ verdict' = "HighSSignature"
      BY <1>3, <1>9, <2>1, <2>3 DEF Normalise
    <3>2. 2 * x.s > Order[c]
      BY <1>1, <2>3, TwinIsLow
    <3> QED BY <2>1, <2>3, <3>1, <3>2 DEF AcceptedOrNot
  <2>4. CASE IsHigh(c, x.s) /\ request.malleability = "Accept"
    <3>1. /\ pc' = "backend" /\ sig' = [x EXCEPT !.s = Negate(c, @)]
      BY <1>3, <1>9, <2>1, <2>4 DEF Normalise
    <3>2. Negate(c, x.s) = Order[c] - x.s /\ Order[c] - x.s \in Nat /\ ~IsHigh(c, Order[c] - x.s)
      BY <1>1, <2>4, TwinIsLow
    <3>3. sig' \in Scalars /\ sig'.r = x.r /\ sig'.s = Order[c] - x.s
      BY <1>2, <3>1, <3>2 DEF Scalars
    <3> QED BY <2>1, <3>1, <3>2, <3>3 DEF IsHigh
  <2> QED BY <1>3, <1>9, <2>1, <2>2, <2>3, <2>4 DEF Normalise
<1>10. CASE AskBackend
  <2>1. /\ key = k /\ sig.r = x.r /\ ~IsHigh(c, sig.s) /\ sig.s \in {x.s, Order[c] - x.s}
        /\ pc' = "done" /\ request' = request
        /\ verdict' = BackendAnswer(request.build, key.curve, key.point, request.text, sig)
    BY <1>10 DEF AskBackend
  <2>2. <<c, p, request.text, sig.r, sig.s>> \in Signed
    BY <1>1, <2>1, LowFormIsSigned
  <2>3. \/ verdict' = "Verified"
        \/ /\ verdict' = "Unsupported"
           /\ IsSupported(request.build, c) => c \notin request.build.provides
    BY <1>3, <2>1, <2>2, BackendTakes
  <2> QED BY <2>1, <2>3 DEF AcceptedOrNot, IsSupported
<1> QED BY <1>5, <1>6, <1>7, <1>8, <1>9, <1>10 DEF Next

\* The request stays what it is.
LEMMA RequestIsKept ==
  ASSUME [Next]_vars
  PROVE  request' = request
BY DEF Next, Parse, ReadKey, CheckAlgorithm, Split, Normalise, AskBackend, At, vars

\* What a request says does not change.
LEMMA SayingIsKept ==
  ASSUME request' = request
  PROVE  /\ AnySD' = AnySD /\ AnyScalars' = AnyScalars
         /\ \A c, p, x : SignedBy(c, p, x)' <=> SignedBy(c, p, x)
<1>1. AnySD' = AnySD
  BY DEF AnySD
<1>2. AnyScalars' = AnyScalars
  BY <1>1 DEF AnyScalars
<1>3. ASSUME NEW c, NEW p, NEW x
      PROVE  SignedBy(c, p, x)' <=> SignedBy(c, p, x)
  BY <1>1 DEF SignedBy, Names, KeyIs, SignatureIs, Carries, Holds
<1> QED BY <1>1, <1>2, <1>3

\* Every request for what was signed is on its way or was answered as it must be.
SignedIsOnTheWay ==
  \A c \in Curves, p \in Points, x \in AnyScalars : SignedBy(c, p, x) => OnTheWay(c, p, x)

\* What a station signed is accepted, in whatever form it comes and whichever half of
\* the malleable pair it is; only the profile, the build and the caller's wish for a
\* low s stand in the way.
THEOREM AuthenticIsAlwaysAccepted == Spec => []AuthenticIsAccepted
<1>1. Init => SignedIsOnTheWay
  BY DEF Init, SignedIsOnTheWay, OnTheWay
<1>2. Inv /\ SignedIsOnTheWay /\ [Next]_vars => SignedIsOnTheWay'
  <2> SUFFICES ASSUME Inv, SignedIsOnTheWay, [Next]_vars,
                      NEW c \in Curves, NEW p \in Points, NEW x \in AnyScalars', SignedBy(c, p, x)'
               PROVE  OnTheWay(c, p, x)'
    BY DEF SignedIsOnTheWay
  <2>1. x \in AnyScalars /\ SignedBy(c, p, x)
    BY RequestIsKept, SayingIsKept
  <2>2. OnTheWay(c, p, x)
    BY <2>1 DEF SignedIsOnTheWay
  <2>3. CASE Next
    BY <2>1, <2>2, <2>3, StepOnTheWay
  <2>4. CASE UNCHANGED vars
    BY <2>2, <2>4 DEF vars, OnTheWay, AcceptedOrNot, IsHigh
  <2> QED BY <2>3, <2>4
<1>3. SignedIsOnTheWay => AuthenticIsAccepted
  BY DEF SignedIsOnTheWay, OnTheWay, AcceptedOrNot, AuthenticIsAccepted, Done
<1> QED BY <1>1, <1>2, <1>3, VerificationInvariant, PTL DEF Spec

-----------------------------------------------------------------------------
(***************************************************************************)
(* What was forgiven is reported.                                          *)
(***************************************************************************)
\* What the section of the request departs in, and the way its bytes are read.
SectionDeviations == {kind \in DeviationKind : SectionDeviates(request.section, kind)}

HighDeviation(c, s) == IF IsHigh(c, s) THEN {"HighSSignature"} ELSE {}

\* The deviations are those of the section, then those of its bytes too, and
\* then that of s.
DeviationsSoFar ==
  /\ pc \in {"key", "algorithm", "split"} => dev = SectionDeviations
  /\ pc = "normalise" => dev = SectionDeviations \union SplitDeviation(section.data)
  /\ pc = "backend" \/ verdict = "Verified" =>
       /\ key \in PublicKey /\ Names(key.curve) /\ Algorithm(request.section) = key.curve
       /\ section.data = SignatureData(request.section) /\ Taken(Decoded(section.data))
       /\ dev = SectionDeviations \union SplitDeviation(section.data)
                  \union HighDeviation(key.curve, Decoded(section.data).s)

\* One step adds what it forgives.
LEMMA StepReports ==
  ASSUME Inv, DeviationsSoFar, Next
  PROVE  DeviationsSoFar'
<1> USE DEF At, Go, Answer, DeviationsSoFar
<1>1. SectionDeviations' = SectionDeviations /\ request' = request
  BY RequestIsKept DEF SectionDeviations, vars
<1>2. verdict = NONE
  BY DEF Next, Parse, ReadKey, CheckAlgorithm, Split, Normalise, AskBackend, Inv, TypeOK
<1>3. "Verified" # NONE
  BY CurvesAssumption DEF Verdict
<1>4. CASE Parse
  BY <1>1, <1>2, <1>3, <1>4 DEF Parse, SectionDeviations
<1>5. CASE ReadKey
  BY <1>1, <1>2, <1>3, <1>5 DEF ReadKey
<1>6. CASE CheckAlgorithm
  BY <1>1, <1>2, <1>3, <1>6 DEF CheckAlgorithm
<1>7. CASE Split
  BY <1>1, <1>2, <1>3, <1>7 DEF Split
<1>8. CASE Normalise
  <2>1. /\ key \in PublicKey /\ key.curve = section.algorithm
        /\ section = [algorithm |-> Algorithm(request.section), data |-> SignatureData(request.section)]
        /\ Taken(sig) /\ sig = Decoded(section.data)
        /\ dev = SectionDeviations \union SplitDeviation(section.data)
    BY <1>8 DEF Normalise, Inv, KeyRead, CurvesAgree, SectionRead, SigRead, Taken
  <2>2. Algorithm(request.section) = key.curve /\ Names(key.curve)
    BY <2>1, AlgorithmIsNamed
  <2>3. UNCHANGED <<request, section, key>>
    BY <1>8 DEF Normalise
  <2>4. /\ Names(key.curve)' /\ Taken(Decoded(section.data))'
        /\ SplitDeviation(section.data)' = SplitDeviation(section.data)
        /\ Algorithm(request.section)' = Algorithm(request.section)
        /\ SignatureData(request.section)' = SignatureData(request.section)
    BY <2>1, <2>2, <2>3 DEF Names, Taken
  <2>5. pc' = "backend" =>
          dev' = dev \union HighDeviation(key.curve, Decoded(section.data).s)
    BY <1>8, <2>1 DEF Normalise, HighDeviation
  <2>6. verdict' # "Verified" /\ pc' \in {"backend", "done"}
    BY <1>2, <1>3, <1>8 DEF Normalise
  <2> QED BY <1>1, <2>1, <2>2, <2>3, <2>4, <2>5, <2>6
<1>9. CASE AskBackend
  <2>1. UNCHANGED <<request, section, key, dev>> /\ pc = "backend" /\ pc' = "done"
    BY <1>9 DEF AskBackend
  <2> QED BY <1>1, <2>1 DEF Names, Taken
<1> QED BY <1>4, <1>5, <1>6, <1>7, <1>8, <1>9 DEF Next

\* A section in which nothing departs is written as the specification says.
LEMMA NoDepartureIsLawful ==
  ASSUME TypeOK, NEW c \in Curves, Algorithm(request.section) = c,
         SignatureData(request.section) # NONE,
         SectionDeviations \intersect Departure = {}
  PROVE  LET x == request.section IN
         /\ {x.sa.shape, x.se.shape, x.sm.shape} \subseteq {"absent", "string"}
         /\ x.sd.shape = "string" /\ ~x.extra
         /\ x.sa.shape = "string" => x.sa.means.tabular
<1> DEFINE x == request.section
<1>1. \A kind \in Departure : ~SectionDeviates(x, kind)
  BY DEF SectionDeviations, DeviationKind
<1>2. x \in Section
  BY RequestTypes
<1>3. {x.sa.shape, x.se.shape, x.sm.shape, x.sd.shape} \subseteq {"absent", "string", "number", "structure"}
  BY <1>2 DEF Section, Cell
<1>4. "number" \notin Shapes(x) /\ "structure" \notin Shapes(x) /\ ~x.extra
  BY <1>1, <1>2 DEF SectionDeviates, Departure
<1>5. {x.sa.shape, x.se.shape, x.sm.shape, x.sd.shape} \subseteq {"absent", "string"}
  BY <1>3, <1>4 DEF Shapes
<1>6. x.sd.shape = "string"
  BY <1>5 DEF SignatureData, HasText
<1>7. ASSUME x.sa.shape = "string" PROVE x.sa.means.tabular
  <2>1. x.sa.means.curve = c /\ HasText(x.sa)
    BY <1>7 DEF Algorithm, HasText
  <2>2. c # NONE
    BY CurvesAssumption
  <2> QED BY <1>1, <2>1, <2>2 DEF SectionDeviates, Departure
<1> QED BY <1>4, <1>5, <1>6, <1>7

\* The bytes that the scalars were taken from are those that the section carries.
LEMMA DataIsCarried ==
  ASSUME TypeOK, section.data = SignatureData(request.section), section.data # NONE
  PROVE  section.data \in AnySD /\ Carries(section.data)
<1>1. request.section.se.means \in Encoding \union {NONE}
  BY RequestTypes DEF Section, Cell
<1>2. SignatureEncoding(request.section) \in Encoding \union {NONE}
  BY <1>1 DEF SignatureEncoding, Encoding
<1>3. /\ HasText(request.section.sd) /\ SignatureEncoding(request.section) # NONE
      /\ section.data = request.section.sd.means[SignatureEncoding(request.section)]
  BY DEF SignatureData
<1> QED BY <1>2, <1>3 DEF AnySD, Carries, SignatureEncoding, HasText

\* HighSSignature is reported for nothing but s.
LEMMA OnlyHighIsHigh ==
  ASSUME NEW b, NEW c, NEW s
  PROVE  /\ "HighSSignature" \notin SectionDeviations \union SplitDeviation(b)
         /\ "HighSSignature" \in HighDeviation(c, s) <=> IsHigh(c, s)
BY DEF SectionDeviations, SectionDeviates, SplitDeviation, HighDeviation

\* A verified record that reports no departure is written as the specification
\* says, down to the bytes of the signature; and a high s is reported exactly if it
\* was one.
THEOREM ForgivenIsAlwaysReported == Spec => []ForgivenIsReported
<1>1. Init => DeviationsSoFar
  BY CurvesAssumption DEF Init, DeviationsSoFar, Verdict
<1>2. Inv /\ DeviationsSoFar /\ [Next]_vars => DeviationsSoFar'
  <2>1. ASSUME DeviationsSoFar, UNCHANGED vars PROVE DeviationsSoFar'
    BY <2>1 DEF vars, DeviationsSoFar, SectionDeviations, Names, Taken
  <2> QED BY <2>1, StepReports
<1>3. Inv /\ DeviationsSoFar => ForgivenIsReported
  <2> SUFFICES ASSUME Inv, DeviationsSoFar, verdict = "Verified" PROVE ForgivenIsReported
    BY DEF ForgivenIsReported
  <2> DEFINE b == section.data
             d == Decoded(b)
             x == request.section
  <2>1. /\ key \in PublicKey /\ Names(key.curve) /\ Algorithm(x) = key.curve
        /\ b = SignatureData(x) /\ Taken(d)
        /\ dev = SectionDeviations \union SplitDeviation(b) \union HighDeviation(key.curve, d.s)
    BY DEF DeviationsSoFar
  <2>2. key.curve \in Curves /\ b \in Bytes /\ b # NONE /\ TypeOK
    BY <2>1 DEF PublicKey, Taken, Inv
  <2>3. b \in AnySD /\ Carries(b)
    BY <2>1, <2>2, DataIsCarried
  <2>4. ASSUME dev \subseteq {"HighSSignature"}
        PROVE  /\ {x.sa.shape, x.se.shape, x.sm.shape} \subseteq {"absent", "string"}
               /\ x.sd.shape = "string" /\ ~x.extra
               /\ x.sa.shape = "string" => x.sa.means.tabular
               /\ \E y \in AnySD : Carries(y) /\ y.der # NONE /\ y.canonical
    <3>1. SectionDeviations \intersect Departure = {}
      BY <2>1, <2>4 DEF Departure
    <3>2. b.der # NONE /\ b.canonical
      BY <2>1, <2>4 DEF SplitDeviation
    <3> QED BY <2>1, <2>2, <2>3, <3>1, <3>2, NoDepartureIsLawful
  <2>5. "HighSSignature" \in dev <=> IsHigh(key.curve, d.s)
    BY <2>1, OnlyHighIsHigh
  <2>6. SignatureIs(key.curve, d) /\ d \in AnyScalars
    BY <2>1, <2>2, TakenIsCarried
  <2>7. d.s \in Nat /\ Order[key.curve] \in Nat
    BY <2>2, <2>6, AnyScalarsAreScalars, CurvesAssumption DEF Scalars
  <2>8. ASSUME NEW c \in Curves, NEW y \in AnyScalars, Names(c), SignatureIs(c, y)
        PROVE  c = key.curve /\ y = d
    <3>1. c = key.curve
      BY <2>1, <2>8, NamedIsAlgorithm
    <3>2. y = d
      BY <2>1, <2>2, <2>8, CarriedIsTaken
    <3> QED BY <3>1, <3>2
  <2>9. "HighSSignature" \in dev <=>
          \E c \in Curves, y \in AnyScalars : Names(c) /\ SignatureIs(c, y) /\ 2 * y.s > Order[c]
    BY <2>1, <2>2, <2>5, <2>6, <2>7, <2>8 DEF IsHigh
  <2> QED BY <2>4, <2>9 DEF ForgivenIsReported
<1> QED BY <1>1, <1>2, <1>3, VerificationInvariant, PTL DEF Spec

-----------------------------------------------------------------------------
(***************************************************************************)
(* Keys.                                                                   *)
(***************************************************************************)
\* Where no key was read there is none, on any curve.
LEMMA NoKeyIsRead ==
  ASSUME Inv, pc = "key", KeyOf(request.material, Hint) = NONE,
         NEW c \in Curves, NEW p \in Points, KeyIs(c, p)
  PROVE  FALSE
<1>1. [curve |-> c, point |-> p] # NONE
  BY NoneAssumption DEF PublicKey
<1>2. CASE request.material.spki = [curve |-> c, point |-> p]
  BY <1>1, <1>2 DEF KeyOf
<1>3. CASE /\ request.material.spki = NONE /\ request.material.bare[c] = p
           /\ request.hint = c \/ (request.hint = "record" /\ Names(c))
  <2>1. Hint = c
    BY <1>3, ReadAsSaid, HintAssumption DEF Hint
  <2>2. c # NONE /\ p # NONE
    BY CurvesAssumption
  <2> QED BY <1>1, <1>3, <2>1, <2>2 DEF KeyOf
<1> QED BY <1>2, <1>3 DEF KeyIs

\* A key on another curve than the record's is one that the material is.
LEMMA OtherKeyIsOfMaterial ==
  ASSUME key \in PublicKey, key # NONE, key = KeyOf(request.material, Hint),
         section.algorithm # key.curve
  PROVE  KeyIs(key.curve, key.point)
<1>1. key = [curve |-> key.curve, point |-> key.point]
  BY DEF PublicKey
<1>2. CASE request.material.spki # NONE
  BY <1>1, <1>2 DEF KeyOf, KeyIs
<1>3. CASE request.material.spki = NONE /\ Hint # NONE /\ request.material.bare[Hint] # NONE
  <2>1. key = [curve |-> Hint, point |-> request.material.bare[Hint]]
    BY <1>3 DEF KeyOf
  <2>2. Hint = key.curve /\ request.material.bare[key.curve] = key.point
    BY <2>1
  <2> QED BY <1>3, <2>2 DEF KeyIs, Hint
<1>4. CASE request.material.spki = NONE /\ ~(Hint # NONE /\ request.material.bare[Hint] # NONE)
  BY <1>4 DEF KeyOf
<1> QED BY <1>2, <1>3, <1>4

-----------------------------------------------------------------------------
(***************************************************************************)
(* Scalars.                                                                *)
(***************************************************************************)
\* The backend sees the low form of the scalars x.
IsLowFormOf(c, y, x) ==
  \/ y = x /\ ~IsHigh(c, x.s)
  \/ y = [x EXCEPT !.s = Negate(c, @)] /\ IsHigh(c, x.s)

\* The low form is in range exactly if the scalars are, and then it is low.
LEMMA LowFormIsPossible ==
  ASSUME NEW c \in Curves, NEW x \in Scalars, NEW y, IsLowFormOf(c, y, x)
  PROVE  /\ Possible(c, x) <=> InRange(c, y.r) /\ InRange(c, y.s)
         /\ Possible(c, x) => ~IsHigh(c, y.s)
<1>1. x.r \in Nat /\ x.s \in Nat /\ Order[c] \in Nat
  BY CurvesAssumption DEF Scalars
<1>2. Possible(c, x) <=> InRange(c, x.r) /\ InRange(c, x.s)
  BY <1>1 DEF Possible, InRange
<1>3. CASE y = x /\ ~IsHigh(c, x.s)
  BY <1>2, <1>3
<1>4. CASE y = [x EXCEPT !.s = Negate(c, @)] /\ IsHigh(c, x.s)
  <2>1. y.r = x.r /\ y.s = Negate(c, x.s)
    BY <1>4 DEF Scalars
  <2>2. InRange(c, y.s) <=> InRange(c, x.s)
    BY <1>1, <1>4, <2>1 DEF InRange, Negate, IsHigh
  <2>3. InRange(c, x.s) => ~IsHigh(c, y.s)
    BY <1>1, <1>4, <2>1 DEF InRange, Negate, IsHigh
  <2> QED BY <1>2, <2>1, <2>2, <2>3
<1> QED BY <1>3, <1>4 DEF IsLowFormOf

\* What was signed is signed in its low form.
LEMMA LowFormOfSigned ==
  ASSUME NEW c \in Curves, NEW p, NEW t, NEW x \in Scalars, NEW y, IsLowFormOf(c, y, x),
         <<c, p, t, x.r, x.s>> \in Signed
  PROVE  <<c, p, t, y.r, y.s>> \in Signed
<1>1. CASE y = x
  BY <1>1
<1>2. CASE y = [x EXCEPT !.s = Negate(c, @)] /\ IsHigh(c, x.s)
  <2>1. y.r = x.r /\ y.s = Order[c] - x.s
    BY <1>2, TwinIsLow DEF Scalars
  <2> QED BY <2>1, LowFormIsSigned
<1> QED BY <1>1, <1>2 DEF IsLowFormOf

\* What either backend refuses it refuses for the reason it gives.
LEMMA BackendNamesTheCause ==
  ASSUME NEW build, NEW c, NEW p, NEW t, NEW y
  PROVE  LET answer == BackendAnswer(build, c, p, t, y)
             inRange == InRange(c, y.r) /\ InRange(c, y.s) IN
         /\ answer = "SignatureScalars" => ~inRange
         /\ answer = "KeyNotOnCurve" => p \notin Valid[c]
         /\ answer = "NotVerified" =>
              /\ inRange /\ p \in Valid[c]
              /\ <<c, p, t, y.r, y.s>> \notin Signed \/ IsHigh(c, y.s)
BY DEF BackendAnswer, PureAnswer, OpensslAnswer, Matches

\* What goes to the backend is the low form of what the record presents.
LEMMA BackendSeesWhatIsPresented ==
  ASSUME Inv, pc = "backend"
  PROVE  /\ key.curve \in Curves /\ key.point \in Points
         /\ \E x \in AnyScalars : /\ x \in Scalars /\ Presents(key.curve, key.point, x)
                                  /\ IsLowFormOf(key.curve, sig, x)
<1>1. /\ key \in PublicKey /\ key # NONE /\ key = KeyOf(request.material, Hint)
      /\ key.curve = section.algorithm
  BY DEF Inv, KeyRead, CurvesAgree
<1>2. key.curve \in Curves /\ key.point \in Points
  BY <1>1 DEF PublicKey
<1>3. Algorithm(request.section) = key.curve /\ section.data = SignatureData(request.section)
  BY <1>1 DEF Inv, SectionRead
<1>4. Names(key.curve)
  BY <1>3, AlgorithmIsNamed
<1>5. KeyIs(key.curve, key.point)
  BY <1>1, <1>2, <1>4, KeyIsOfMaterial
<1>6. PICK x \in Scalars : Taken(x) /\ IsLowFormOf(key.curve, sig, x)
  BY DEF Inv, SigRead, IsLowFormOf
<1>7. SignatureIs(key.curve, x) /\ x \in AnyScalars
  BY <1>3, <1>6, TakenIsCarried DEF Inv
<1> QED BY <1>2, <1>4, <1>5, <1>6, <1>7 DEF Presents

-----------------------------------------------------------------------------
(***************************************************************************)
(* The steps that end a check.                                             *)
(***************************************************************************)
\* The parts of ErrorNamesTheCause, about a verdict v.
CauseOf(v) ==
  /\ v = "NotVerified" =>
       \E c \in Curves, p \in Points, x \in AnyScalars :
         /\ Presents(c, p, x) /\ Possible(c, x) /\ p \in Valid[c]
         /\ <<c, p, request.text, x.r, x.s>> \notin Signed
  /\ v = "KeyNotOnCurve" =>
       \E c \in Curves, p \in Points, x \in AnyScalars : Presents(c, p, x) /\ p \notin Valid[c]
  /\ v = "SignatureScalars" =>
       \E c \in Curves, p \in Points, x \in AnyScalars : Presents(c, p, x) /\ ~Possible(c, x)
  /\ v = "SignatureShape" => ~ \E c \in Curves, x \in AnyScalars : Names(c) /\ SignatureIs(c, x)
  /\ v = "SignatureEncoding" => ~ \E b \in AnySD : Carries(b)
  /\ v = "AlgorithmKeyMismatch" =>
       \E c, d \in Curves, p \in Points : c # d /\ Names(c) /\ KeyIs(d, p)
  /\ v = "UnknownAlgorithm" => ~ \E c \in Curves : Names(c)
  /\ v = "Key" => ~ \E c \in Curves, p \in Points : KeyIs(c, p)

\* A verdict that a step gives has its cause.
LEMMA VerdictHasCause ==
  ASSUME Inv, Next, pc' = "done"
  PROVE  CauseOf(verdict')
<1> USE DEF At, Go, Answer
<1>1. CASE Parse
  BY <1>1 DEF Parse, CauseOf
<1>2. CASE ReadKey
  <2>1. verdict' = "Key" /\ KeyOf(request.material, Hint) = NONE /\ pc = "key"
    BY <1>2 DEF ReadKey
  <2>2. ~ \E c \in Curves, p \in Points : KeyIs(c, p)
    BY <2>1, NoKeyIsRead
  <2> QED BY <2>1, <2>2 DEF CauseOf
<1>3. CASE CheckAlgorithm
  <2>1. /\ key \in PublicKey /\ key # NONE /\ key = KeyOf(request.material, Hint)
        /\ section.algorithm = Algorithm(request.section)
        /\ section.algorithm \in Curves \union {NONE} /\ pc # "parse"
    BY <1>3, RequestTypes, SectionTypes DEF CheckAlgorithm, Inv, KeyRead, SectionRead
  <2>2. CASE verdict' = "UnknownAlgorithm" /\ section.algorithm = NONE
    <3>1. ASSUME NEW c \in Curves, Names(c) PROVE FALSE
      BY <2>1, <2>2, <3>1, NamedIsAlgorithm, CurvesAssumption
    <3> QED BY <2>2, <3>1 DEF CauseOf
  <2>3. CASE verdict' = "AlgorithmKeyMismatch" /\ section.algorithm \notin {NONE, key.curve}
    <3>1. section.algorithm \in Curves /\ Names(section.algorithm)
      BY <2>1, <2>3, AlgorithmIsNamed
    <3>2. KeyIs(key.curve, key.point) /\ key.curve \in Curves /\ key.point \in Points
      BY <2>1, <2>3, OtherKeyIsOfMaterial DEF PublicKey
    <3> QED BY <2>3, <3>1, <3>2 DEF CauseOf
  <2> QED BY <1>3, <2>2, <2>3 DEF CheckAlgorithm
<1>4. CASE Split
  <2>1. pc = "split" /\ key.curve = section.algorithm
    BY <1>4 DEF Split, Inv, CurvesAgree
  <2>2. section.data = SignatureData(request.section)
    BY <2>1 DEF Inv, SectionRead
  <2>3. CASE verdict' = "SignatureEncoding" /\ section.data = NONE
    <3>1. ~ \E b \in AnySD : Carries(b)
      BY <2>2, <2>3, CarriedIsData
    <3> QED BY <2>3, <3>1 DEF CauseOf
  <2>4. CASE /\ verdict' = "SignatureShape"
             /\ section.data.der = NONE /\ section.data.len # 2 * Width[key.curve]
    <3>1. ASSUME NEW c \in Curves, NEW x \in AnyScalars, Names(c), SignatureIs(c, x)
          PROVE  FALSE
      <4>1. section.algorithm = c /\ section.data \in Bytes \union {NONE}
        BY <2>1, <3>1, ReadAsSaid
      <4> QED BY <2>1, <2>2, <2>4, <3>1, <4>1, CarriedIsTaken DEF Inv
    <3> QED BY <2>4, <3>1 DEF CauseOf
  <2> QED BY <1>4, <2>3, <2>4 DEF Split
<1>5. CASE Normalise
  BY <1>5 DEF Normalise, CauseOf
<1>6. CASE AskBackend
  <2>1. /\ pc = "backend"
        /\ verdict' = BackendAnswer(request.build, key.curve, key.point, request.text, sig)
    BY <1>6 DEF AskBackend
  <2>2. PICK x \in AnyScalars : /\ x \in Scalars /\ Presents(key.curve, key.point, x)
                                /\ IsLowFormOf(key.curve, sig, x)
    BY <2>1, BackendSeesWhatIsPresented
  <2>3. key.curve \in Curves /\ key.point \in Points
    BY <2>1, BackendSeesWhatIsPresented
  <2>4. /\ Possible(key.curve, x) <=> InRange(key.curve, sig.r) /\ InRange(key.curve, sig.s)
        /\ Possible(key.curve, x) => ~IsHigh(key.curve, sig.s)
    BY <2>2, <2>3, LowFormIsPossible
  <2>5. verdict' = "SignatureScalars" => ~Possible(key.curve, x)
    BY <2>1, <2>4, BackendNamesTheCause
  <2>6. verdict' = "KeyNotOnCurve" => key.point \notin Valid[key.curve]
    BY <2>1, BackendNamesTheCause
  <2>7. verdict' = "NotVerified" =>
          /\ Possible(key.curve, x) /\ key.point \in Valid[key.curve]
          /\ <<key.curve, key.point, request.text, x.r, x.s>> \notin Signed
    BY <2>1, <2>2, <2>3, <2>4, BackendNamesTheCause, LowFormOfSigned
  <2>8. verdict' \in {"SignatureScalars", "KeyNotOnCurve", "Unsupported", "NotVerified", "Verified"}
    BY <2>1, AnswerType
  <2> QED BY <2>2, <2>3, <2>5, <2>6, <2>7, <2>8 DEF CauseOf
<1> QED BY <1>1, <1>2, <1>3, <1>4, <1>5, <1>6 DEF Next

\* Causes lie in the request, which does not change.
LEMMA CauseIsKept ==
  ASSUME request' = request, NEW v, CauseOf(v)
  PROVE  CauseOf(v)'
<1>1. AnySD' = AnySD /\ AnyScalars' = AnyScalars
  BY SayingIsKept
<1>2. /\ \A c : Names(c)' <=> Names(c)
      /\ \A c, p : KeyIs(c, p)' <=> KeyIs(c, p)
      /\ \A b : Carries(b)' <=> Carries(b)
  BY DEF Names, KeyIs, Carries
<1>3. \A c, x : SignatureIs(c, x)' <=> SignatureIs(c, x)
  BY <1>1, <1>2 DEF SignatureIs, Holds
<1>4. \A c, p, x : Presents(c, p, x)' <=> Presents(c, p, x)
  BY <1>2, <1>3 DEF Presents
<1> QED BY <1>1, <1>2, <1>3, <1>4 DEF CauseOf, Possible

\* Every error has the cause it names, and NotVerified, which accuses the record, is
\* never the answer to a broken key, to scalars out of range or to a disagreement
\* about the curve.
THEOREM ErrorsAlwaysNameTheirCause == Spec => []ErrorNamesTheCause
<1>1. ErrorNamesTheCause <=> CauseOf(verdict)
  BY DEF ErrorNamesTheCause, CauseOf
<1>2. Init => CauseOf(verdict)
  BY CurvesAssumption DEF Init, CauseOf, Verdict
<1>3. Inv /\ CauseOf(verdict) /\ [Next]_vars => CauseOf(verdict)'
  <2> SUFFICES ASSUME Inv, CauseOf(verdict), [Next]_vars PROVE CauseOf(verdict)'
    OBVIOUS
  <2>1. request' = request
    BY RequestIsKept
  <2>2. verdict' = verdict \/ (Next /\ pc' = "done")
    BY DEF Next, Parse, ReadKey, CheckAlgorithm, Split, Normalise, AskBackend, At, Go, Answer, vars
  <2>3. CauseOf(verdict')
    BY <2>2, VerdictHasCause
  <2> QED BY <2>1, <2>3, CauseIsKept
<1> QED BY <1>1, <1>2, <1>3, VerificationInvariant, PTL DEF Spec

=============================================================================
