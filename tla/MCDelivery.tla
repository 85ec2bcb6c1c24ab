----------------------------- MODULE MCDelivery -----------------------------
(***************************************************************************)
(* Two stations of up to three records each, and three records that        *)
(* arrive; the counters wrap.  The stations are interchangeable.           *)
(***************************************************************************)
EXTENDS Delivery, TLC

CONSTANTS o1, s1, s2, text

MCRegisters == {o1}
MCStations  == {s1, s2}
MCTexts     == {text}
Symmetry    == Permutations(MCStations)
=============================================================================
