--------------------------- MODULE MCVerification ---------------------------
(***************************************************************************)
(* Three curves: cP, the default, and cK have scalars of the same width,   *)
(* so that a bare point or a bare signature can be taken for one of        *)
(* either; cK's library takes only a low s; cB has no implementation in    *)
(* Rust.  Every group has order 7, and scalars go from 0 past it.          *)
(***************************************************************************)
EXTENDS Verification, TLC

CONSTANTS cP, cK, cB, onP, onK, onB, nowhere, signed, other

MCCurves == {cP, cK, cB}
MCPoints == {onP, onK, onB, nowhere}
MCTexts  == {signed, other}
MCOrder  == [c \in MCCurves |-> 7]
MCWidth  == (cP :> 1) @@ (cK :> 1) @@ (cB :> 2)
MCValid  == (cP :> {onP}) @@ (cK :> {onK}) @@ (cB :> {onB})

\* On every curve the signature (3, 2) and its twin (3, 5).
MCSigned ==
  {<<c, CHOOSE q \in MCPoints : q \in MCValid[c], signed, 3, s>> : c \in MCCurves, s \in {2, 5}}

Absent == [shape |-> "absent", means |-> NONE]
Scalar(r, s) == [r |-> r, s |-> s]
Der(r, s, canonical) ==
  [len |-> 6, der |-> Scalar(r, s), canonical |-> canonical, halves |-> Scalar(0, 0)]
Raw(len, r, s) == [len |-> len, der |-> NONE, canonical |-> FALSE, halves |-> Scalar(r, s)]

\* What may be under SD: the signature, its twin, others, scalars out of range
\* on either side, bare ones of two widths, and bytes that are neither.
SomeBytes ==
  {Der(3, s, TRUE) : s \in {0, 1, 2, 5, 6, 7, 8}}
    \union {Der(0, 2, TRUE), Der(7, 5, TRUE), Der(3, 2, FALSE)}
    \union {Raw(len, 3, s) : len \in {2, 4}, s \in {2, 5}} \union {Raw(3, 3, 2)}

NoName == [curve |-> NONE, tabular |-> FALSE]
SA ==
  {[shape |-> "string", means |-> [curve |-> c, tabular |-> t]] : c \in {cP, cK, cB}, t \in {TRUE}}
    \union {[shape |-> "string", means |-> [curve |-> cK, tabular |-> FALSE]]}
    \union {[shape |-> shape, means |-> NoName] : shape \in {"absent", "number", "structure"}}
SD(hex, base64) ==
  [shape |-> "string", means |-> ("hex" :> hex) @@ ("base64" :> base64)]
Plain(sa, sd) == [sa |-> sa, se |-> Absent, sm |-> Absent, sd |-> sd, extra |-> FALSE]

\* Text that is hex may be base64 of other bytes, or of none.
OddSections ==
  {[Plain(sa, [SD(Der(3, 2, TRUE), other64) EXCEPT !.shape = shape]) EXCEPT
       !.se = [shape |-> seShape, means |-> IF seShape = "string" THEN se ELSE NONE],
       !.sm = [shape |-> sm, means |-> NONE], !.extra = (sm = "number")] :
     sa \in {[shape |-> "string", means |-> [curve |-> cK, tabular |-> TRUE]]},
     other64 \in {NONE, Raw(2, 3, 5)}, shape \in {"absent", "string", "number", "structure"},
     seShape \in {"absent", "string", "number", "structure"}, se \in {"hex", "base64", NONE},
     sm \in {"absent", "number"}}

PlainSections == {Plain(sa, SD(bytes, NONE)) : sa \in SA, bytes \in SomeBytes}

Unread == [c \in MCCurves |-> NONE]
Spki(c, q)   == [spki |-> [curve |-> c, point |-> q], bare |-> Unread]
Bare(points) == [spki |-> NONE, bare |-> points]
OfWidthOne(q) == Bare([Unread EXCEPT ![cP] = q, ![cK] = q])
SomeMaterials ==
  {Spki(cP, onP), Spki(cP, nowhere), Spki(cK, onK), Spki(cK, onP), Spki(cB, onB)}
    \union {OfWidthOne(q) : q \in {onP, onK}} \union {Bare([Unread EXCEPT ![cB] = onB])}

Rust    == [pure |-> {cP, cK}, openssl |-> FALSE, provides |-> {}]
Both    == [pure |-> {cP}, openssl |-> TRUE, provides |-> {cP, cK, cB}]
Openssl == [pure |-> {}, openssl |-> TRUE, provides |-> {cP}]

\* Every signature with every key, hint and build, and the odd sections with
\* the key they were signed with under every profile.
MCRequests ==
  [section : PlainSections, text : MCTexts, material : SomeMaterials,
   hint : {"record", NONE}, profile : {"Interop"},
   malleability : Malleability, build : {Rust, Both, Openssl}]
  \union
  [section : {x \in PlainSections : x.sa.means.curve = cK},
   text : {signed}, material : SomeMaterials, hint : {cP, cK},
   profile : Profile, malleability : {"Accept"}, build : {Both}]
  \union
  [section : OddSections, text : {signed}, material : {Spki(cK, onK)}, hint : {"record"},
   profile : Profile, malleability : {"Accept"}, build : {Rust}]
=============================================================================
