---------------------------- MODULE Verification ----------------------------
(***************************************************************************)
(* From the text of a record and some key material to one verdict: the     *)
(* signature section (signature.rs), the profile (deviation.rs), the key   *)
(* (key.rs) and the checks of verify.rs in the order they are made.        *)
(*                                                                         *)
(* An algorithm is its curve: the seven of them pair one to one.  Scalars  *)
(* are integers.  Elliptic curves are the constants Valid, the points that *)
(* lie on a curve, and Signed, the signatures that match.                  *)
(***************************************************************************)
EXTENDS Integers, FiniteSets

CONSTANTS
  NONE,
  Curves,        \* the curves of Table 22 ...
  DefaultCurve,  \* ... and the one that is meant without SA: secp256r1
  Width,         \* Width[c]: bytes in one scalar
  Order,         \* Order[c]: the order of the group
  LowOnly,       \* the curves whose library takes only a low s: secp256k1
  PureCurves,    \* the curves with an implementation in Rust
  Points,
  Valid,         \* Valid[c]: the points on the curve
  Texts,         \* signed spans
  Signed,        \* <<curve, point, text, r, s>> that verify
  Requests       \* the requests to try

Profile      == {"Strict", "Reference", "Interop"}
Malleability == {"Accept", "RejectHighS"}
Encoding     == {"hex", "base64"}

\* A member of the section: how it is written and what its text means.
Cell(Meanings) ==
  [shape : {"absent", "string", "number", "structure"}, means : Meanings]

\* SignatureAlgorithm::parse: the curve, if any, and whether the spelling is
\* the table's.
Named == [curve : Curves \union {NONE}, tabular : BOOLEAN]

\* What is under SD: its length, how it reads as DER and how it splits in two.
Scalars == [r : Nat, s : Nat]
Bytes   == [len : Nat, der : Scalars \union {NONE}, canonical : BOOLEAN, halves : Scalars]

\* SD decodes under an encoding or it does not.  "extra" is a key outside the
\* reserved initials.
Section ==
  [sa : Cell(Named), se : Cell(Encoding \union {NONE}), sm : Cell({NONE}),
   sd : Cell([Encoding -> Bytes \union {NONE}]), extra : BOOLEAN]

\* Bytes that hold a key: the SubjectPublicKeyInfo they are, if they are one,
\* and the SEC1 point they are taken for on each curve (NONE if the length or
\* the prefix is not the curve's).
PublicKey == [curve : Curves, point : Points]
Material  == [spki : PublicKey \union {NONE}, bare : [Curves -> Points \union {NONE}]]

\* A build: the pure curves compiled in, whether OpenSSL is, and the curves
\* that OpenSSL provides.
Build == [pure : SUBSET PureCurves, openssl : BOOLEAN, provides : SUBSET Curves]

\* How a check ends: with an error (of ParseError, KeyError, VerifyError) or with
\* a Verified.
Verdict ==
  {"Deviates", "Key", "UnknownAlgorithm", "AlgorithmKeyMismatch", "SignatureEncoding",
   "SignatureShape", "HighSSignature", "SignatureScalars", "KeyNotOnCurve", "Unsupported",
   "NotVerified", "Verified"}

ASSUME CurvesAssumption ==
  /\ DefaultCurve \in Curves /\ LowOnly \subseteq Curves /\ PureCurves \subseteq Curves
  /\ Width \in [Curves -> Nat] /\ Order \in [Curves -> Nat \ {0}]
  /\ Valid \in [Curves -> SUBSET Points]
  /\ NONE \notin Curves \union Points \union Verdict

\* Nothing that is read is read as nothing, and a hint is one thing or the other.
ASSUME NoneAssumption == NONE \notin Scalars /\ NONE \notin PublicKey /\ NONE \notin Encoding
ASSUME HintAssumption == "record" \notin Curves

\* A signature that verifies has scalars in range and a key on the curve, and
\* its twin verifies too.
ASSUME SignedAssumption ==
  \A sig \in Signed :
    \E c \in Curves : \E p \in Valid[c], t \in Texts, r, s \in 1 .. Order[c] - 1 :
      /\ sig = <<c, p, t, r, s>>
      /\ <<c, p, t, r, Order[c] - s>> \in Signed

\* One check: a record with its section and its signed span, key material and
\* the curve it is taken for ("record" is the record's own, as verify_bytes
\* hints), and what the caller wants.
Request ==
  [section : Section, text : Texts, material : Material,
   hint : {"record", NONE} \union Curves, profile : Profile,
   malleability : Malleability, build : Build]

\* A bare signature that happens to read as DER is not among the inputs: it
\* takes a certain four bytes of a random signature.
ASSUME RequestsAssumption ==
  /\ Requests \subseteq Request
  /\ \A q \in Requests :
       LET x == q.section IN
       /\ x.sa.shape = "number" => x.sa.means.curve = NONE
       /\ x.se.shape = "number" => x.se.means = NONE
       /\ \A e \in Encoding, c \in Curves :
            x.sd.means[e] # NONE /\ x.sd.means[e].len = 2 * Width[c] => x.sd.means[e].der = NONE

VARIABLES
  request,   \* what the caller asks: never changes
  pc,        \* the next step
  section,   \* the signature section as it was read
  key,       \* the public key
  sig,       \* r and s
  dev,       \* the deviations reported so far
  verdict    \* the answer, an error or "Verified"

vars == <<request, pc, section, key, sig, dev, verdict>>

-----------------------------------------------------------------------------
(***************************************************************************)
(* The signature section.                                                  *)
(***************************************************************************)
HasText(c) == c.shape \in {"string", "number"}

\* An SA without a text, mistyped ones included, means the default.
Algorithm(x) == IF HasText(x.sa) THEN x.sa.means.curve ELSE DefaultCurve

SignatureEncoding(x) == IF HasText(x.se) THEN x.se.means ELSE "hex"

SignatureData(x) ==
  IF HasText(x.sd) /\ SignatureEncoding(x) # NONE
  THEN x.sd.means[SignatureEncoding(x)]
  ELSE NONE

Shapes(x) == {x.sa.shape, x.se.shape, x.sm.shape, x.sd.shape}

SectionDeviates(x, kind) ==
  \/ kind = "ScalarFieldNotAString" /\ "number" \in Shapes(x)
  \/ kind = "FieldTypeMismatch" /\ "structure" \in Shapes(x)
  \/ kind = "UndefinedTableValue" /\ NONE \in {Algorithm(x), SignatureEncoding(x)}
  \/ /\ kind = "AlgorithmIdentifierSpelling"
     /\ HasText(x.sa) /\ x.sa.means.curve # NONE /\ ~x.sa.means.tabular
  \/ kind = "SignatureDataMissing" /\ x.sd.shape = "absent"
  \/ /\ kind = "SignatureDataUndecodable"
     /\ HasText(x.sd) /\ SignatureEncoding(x) # NONE /\ SignatureData(x) = NONE
  \/ kind = "UnknownKey" /\ x.extra

\* Departures from the specification; HighSSignature is advisory.
Departure ==
  {"ScalarFieldNotAString", "FieldTypeMismatch", "UndefinedTableValue",
   "AlgorithmIdentifierSpelling", "SignatureDataMissing", "SignatureDataUndecodable",
   "UnknownKey", "NonCanonicalDer", "RawSignatureNotDer"}

DeviationKind == Departure \union {"HighSSignature"}

\* Profile::rejects.
Rejects(profile) ==
  CASE profile = "Strict"    -> Departure
    [] profile = "Reference" -> {"SignatureDataMissing", "SignatureDataUndecodable", "RawSignatureNotDer"}
    [] profile = "Interop"   -> {}

-----------------------------------------------------------------------------
(***************************************************************************)
(* Keys, scalars and the two backends.                                     *)
(***************************************************************************)
\* PublicKey::from_bytes: a SubjectPublicKeyInfo wins; what is none, whatever
\* its first byte, is a point on the curve the caller hints at, if any.
KeyOf(material, hint) ==
  IF material.spki # NONE THEN material.spki
  ELSE IF hint # NONE /\ material.bare[hint] # NONE
       THEN [curve |-> hint, point |-> material.bare[hint]]
       ELSE NONE

InRange(c, x) == 1 <= x /\ x < Order[c]
IsHigh(c, s)  == 2 * s > Order[c]
\* Mutant of Negate: what is high is left high.
Keep(c, s)      == s
\* Mutant of Negate: n - s, whatever s is.
NegateAny(c, s) == Order[c] - s
Negate(c, s)  == IF s < Order[c] THEN Order[c] - s ELSE s

Matches(c, point, text, x) == <<c, point, text, x.r, x.s>> \in Signed

\* Mutant of PureAnswer: a point that is not on the curve is just no match.
PureAnswerMerged(c, point, text, x) ==
  IF ~(InRange(c, x.r) /\ InRange(c, x.s)) THEN "SignatureScalars"
  ELSE IF Matches(c, point, text, x) /\ ~(c \in LowOnly /\ IsHigh(c, x.s)) THEN "Verified"
  ELSE "NotVerified"

\* The backend in Rust looks at the scalars first ...
PureAnswer(c, point, text, x) ==
  IF ~(InRange(c, x.r) /\ InRange(c, x.s)) THEN "SignatureScalars"
  ELSE IF point \notin Valid[c] THEN "KeyNotOnCurve"
  ELSE IF Matches(c, point, text, x) /\ ~(c \in LowOnly /\ IsHigh(c, x.s)) THEN "Verified"
  ELSE "NotVerified"

\* ... and the one over OpenSSL at the key.
OpensslAnswer(build, c, point, text, x) ==
  IF c \notin build.provides THEN "Unsupported"
  ELSE IF point \notin Valid[c] THEN "KeyNotOnCurve"
  ELSE IF ~(InRange(c, x.r) /\ InRange(c, x.s)) THEN "SignatureScalars"
  ELSE IF Matches(c, point, text, x) THEN "Verified"
  ELSE "NotVerified"

\* backend_verify.
BackendAnswer(build, c, point, text, x) ==
  IF c \in build.pure THEN PureAnswer(c, point, text, x)
  ELSE IF build.openssl THEN OpensslAnswer(build, c, point, text, x)
  ELSE "Unsupported"

IsSupported(build, c) == build.openssl \/ c \in build.pure

-----------------------------------------------------------------------------
(***************************************************************************)
(* The check, in the order in which it may end.                            *)
(***************************************************************************)
TypeOK ==
  /\ request \in Requests
  /\ pc \in {"parse", "key", "algorithm", "split", "normalise", "backend", "done"}
  /\ section \in [algorithm : Curves \union {NONE}, data : Bytes \union {NONE}] \union {NONE}
  /\ key \in PublicKey \union {NONE}
  /\ sig \in Scalars \union {NONE}
  /\ dev \subseteq DeviationKind
  /\ verdict \in Verdict \union {NONE}
  /\ verdict # NONE <=> pc = "done"

Init ==
  /\ request \in Requests
  /\ pc = "parse"
  /\ section = NONE /\ key = NONE /\ sig = NONE
  /\ dev = {} /\ verdict = NONE

At(step)  == pc = step /\ UNCHANGED request
Go(step)  == pc' = step /\ UNCHANGED verdict
Answer(v) == pc' = "done" /\ verdict' = v

\* Record::parse_with: the profile is applied to what parsing reports, and
\* never again.
Parse ==
  /\ At("parse")
  /\ section' = [algorithm |-> Algorithm(request.section), data |-> SignatureData(request.section)]
  /\ dev' = {kind \in DeviationKind : SectionDeviates(request.section, kind)}
  /\ IF dev' \intersect Rejects(request.profile) # {} THEN Answer("Deviates") ELSE Go("key")
  /\ UNCHANGED <<key, sig>>

\* The curve that a key without one is taken for.
Hint == IF request.hint = "record" THEN section.algorithm ELSE request.hint

ReadKey ==
  /\ At("key")
  /\ key' = KeyOf(request.material, Hint)
  /\ IF key' = NONE THEN Answer("Key") ELSE Go("algorithm")
  /\ UNCHANGED <<section, sig, dev>>

\* Mutant of CheckAlgorithm: a key that brings its own curve is taken to know.
CheckAlgorithmKnown ==
  /\ At("algorithm")
  /\ IF section.algorithm = NONE THEN Answer("UnknownAlgorithm") ELSE Go("split")
  /\ UNCHANGED <<section, key, sig, dev>>

CheckAlgorithm ==
  /\ At("algorithm")
  /\ \/ section.algorithm = NONE /\ Answer("UnknownAlgorithm")
     \/ section.algorithm \notin {NONE, key.curve} /\ Answer("AlgorithmKeyMismatch")
     \/ section.algorithm = key.curve /\ Go("split")
  /\ UNCHANGED <<section, key, sig, dev>>

\* Mutant of SplitDeviation: every DER is in order.
SplitDeviationRaw(b) == IF b.der = NONE THEN {"RawSignatureNotDer"} ELSE {}

SplitDeviation(b) ==
  IF b.der = NONE THEN {"RawSignatureNotDer"}
  ELSE IF b.canonical THEN {} ELSE {"NonCanonicalDer"}

Decoded(b) == IF b.der # NONE THEN b.der ELSE b.halves

\* split_signature: DER if it reads as DER, else two halves if the length is
\* the curve's.
Split ==
  LET b == section.data IN
  /\ At("split")
  /\ \/ /\ b = NONE
        /\ Answer("SignatureEncoding") /\ UNCHANGED <<sig, dev>>
     \/ /\ b # NONE /\ (b.der # NONE \/ b.len = 2 * Width[key.curve])
        /\ sig' = Decoded(b)
        /\ dev' = dev \union SplitDeviation(b)
        /\ Go("normalise")
     \/ /\ b # NONE /\ b.der = NONE /\ b.len # 2 * Width[key.curve]
        /\ Answer("SignatureShape") /\ UNCHANGED <<sig, dev>>
  /\ UNCHANGED <<section, key>>

\* Of the two forms of a signature the low one goes to the backend.
Normalise ==
  /\ At("normalise")
  /\ \/ ~IsHigh(key.curve, sig.s) /\ Go("backend") /\ UNCHANGED <<sig, dev>>
     \/ /\ IsHigh(key.curve, sig.s) /\ request.malleability = "RejectHighS"
        /\ Answer("HighSSignature") /\ UNCHANGED <<sig, dev>>
     \/ /\ IsHigh(key.curve, sig.s) /\ request.malleability = "Accept"
        /\ sig' = [sig EXCEPT !.s = Negate(key.curve, @)]
        /\ dev' = dev \union {"HighSSignature"}
        /\ Go("backend")
  /\ UNCHANGED <<section, key>>

AskBackend ==
  /\ At("backend")
  /\ Answer(BackendAnswer(request.build, key.curve, key.point, request.text, sig))
  /\ UNCHANGED <<section, key, sig, dev>>

Next == Parse \/ ReadKey \/ CheckAlgorithm \/ Split \/ Normalise \/ AskBackend

Spec == Init /\ [][Next]_vars

-----------------------------------------------------------------------------
(***************************************************************************)
(* Properties.  They compare the verdict with the request itself: what the *)
(* section says, whatever way its members are written, and what was signed.*)
(***************************************************************************)
Done == pc = "done"

\* The section names curve c, or names none and c is the default.
Names(c) ==
  LET sa == request.section.sa IN
  IF sa.shape \in {"string", "number"} THEN sa.means.curve = c ELSE c = DefaultCurve

\* The bytes under SD, in the encoding the section names.
Carries(b) ==
  LET se == request.section.se
      sd == request.section.sd
  IN  /\ sd.shape \in {"string", "number"} /\ b # NONE
      /\ \E e \in Encoding :
           /\ e = IF se.shape \in {"string", "number"} THEN se.means ELSE "hex"
           /\ b = sd.means[e]

AnySD == {request.section.sd.means[e] : e \in Encoding} \ {NONE}

\* Bytes b hold the scalars x on curve c, as DER or as two halves.
Holds(b, c, x) ==
  \/ x = b.der
  \/ b.der = NONE /\ b.len = 2 * Width[c] /\ x = b.halves

SignatureIs(c, x) == \E b \in AnySD : Carries(b) /\ Holds(b, c, x)

\* The key material is point p on curve c: it says so itself, or it says
\* nothing and the caller takes it for one.
KeyIs(c, p) ==
  \/ request.material.spki = [curve |-> c, point |-> p]
  \/ /\ request.material.spki = NONE /\ request.material.bare[c] = p
     /\ request.hint = c \/ (request.hint = "record" /\ Names(c))

AnyScalars == ({b.der : b \in AnySD} \ {NONE}) \union {b.halves : b \in AnySD}

\* The station that holds key p signed this text with the signature x that the
\* record carries, on the curve that the record names.
SignedBy(c, p, x) ==
  /\ Names(c) /\ KeyIs(c, p) /\ SignatureIs(c, x)
  /\ <<c, p, request.text, x.r, x.s>> \in Signed

\* "There is no public constructor: the only way to hold one is to have run
\* verify": a Verified is only ever handed out for what the station of that key
\* signed, on the record's own curve, and in the low form if the caller insists.
AcceptedIsAuthentic ==
  verdict = "Verified" =>
    \E c \in Curves, p \in Points, x \in AnyScalars :
      /\ SignedBy(c, p, x)
      /\ request.malleability = "RejectHighS" => 2 * x.s <= Order[c]

\* And what a station signed is accepted, in whatever form it comes and
\* whichever half of the malleable pair it is.  Only the profile, the build and
\* the caller's own wish for a low s stand in the way.
AuthenticIsAccepted ==
  \A c \in Curves, p \in Points, x \in AnyScalars :
    Done /\ SignedBy(c, p, x) =>
      \/ verdict = "Verified"
      \/ verdict = "Deviates" /\ request.profile # "Interop"
      \/ /\ verdict = "Unsupported"
         /\ IsSupported(request.build, c) => c \notin request.build.provides
      \/ verdict = "HighSSignature" /\ request.malleability = "RejectHighS" /\ 2 * x.s > Order[c]

\* The record carries these scalars and comes with this key, on the curve it names;
\* no signature has others than possible ones.
Presents(c, p, x) == Names(c) /\ KeyIs(c, p) /\ SignatureIs(c, x)
Possible(c, x) == {x.r, x.s} \subseteq 1 .. Order[c] - 1

\* "An operator needs to know which one they have hit": every error has the
\* cause it names.  NotVerified, "the only variant that means the record is not
\* authentic", is never the answer to a broken key, to scalars out of range, to
\* a disagreement about the curve or to a curve nobody can check.
ErrorNamesTheCause ==
  /\ verdict = "NotVerified" =>
       \E c \in Curves, p \in Points, x \in AnyScalars :
         /\ Presents(c, p, x) /\ Possible(c, x) /\ p \in Valid[c]
         /\ <<c, p, request.text, x.r, x.s>> \notin Signed
  /\ verdict = "KeyNotOnCurve" =>
       \E c \in Curves, p \in Points, x \in AnyScalars : Presents(c, p, x) /\ p \notin Valid[c]
  /\ verdict = "SignatureScalars" =>
       \E c \in Curves, p \in Points, x \in AnyScalars : Presents(c, p, x) /\ ~Possible(c, x)
  /\ verdict = "SignatureShape" => ~ \E c \in Curves, x \in AnyScalars : Names(c) /\ SignatureIs(c, x)
  /\ verdict = "SignatureEncoding" => ~ \E b \in AnySD : Carries(b)
  /\ verdict = "AlgorithmKeyMismatch" =>
       \E c, d \in Curves, p \in Points : c # d /\ Names(c) /\ KeyIs(d, p)
  /\ verdict = "UnknownAlgorithm" => ~ \E c \in Curves : Names(c)
  /\ verdict = "Key" => ~ \E c \in Curves, p \in Points : KeyIs(c, p)

\* "Forgiven is never silent": a verified record that reports no departure is
\* written as the specification says, down to the bytes of the signature; and
\* a high s is reported exactly if it was one.
ForgivenIsReported ==
  verdict = "Verified" =>
    LET x == request.section IN
    /\ dev \subseteq {"HighSSignature"} =>
         /\ {x.sa.shape, x.se.shape, x.sm.shape} \subseteq {"absent", "string"}
         /\ x.sd.shape = "string" /\ ~x.extra
         /\ x.sa.shape = "string" => x.sa.means.tabular
         /\ \E b \in AnySD : Carries(b) /\ b.der # NONE /\ b.canonical
    /\ "HighSSignature" \in dev <=>
         \E c \in Curves, y \in AnyScalars : Names(c) /\ SignatureIs(c, y) /\ 2 * y.s > Order[c]

\* VerifyError::SignatureScalars is "distinct from HighSSignature, where the
\* scalars are in range and the caller asked for the other half of the
\* malleable pair": HighSSignature is only answered about scalars in range.
HighSIsInRange ==
  verdict = "HighSSignature" =>
    \E c \in Curves, x \in AnyScalars :
      Names(c) /\ SignatureIs(c, x) /\ {x.r, x.s} \subseteq 1 .. Order[c] - 1
=============================================================================
