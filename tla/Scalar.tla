------------------------------- MODULE Scalar -------------------------------
(***************************************************************************)
(* Big-endian scalars (scalar.rs): what ECDSA asks about s, answered byte  *)
(* by byte on strings of any length.                                       *)
(***************************************************************************)
EXTENDS Integers, SequencesExt

BYTE == 256

\* trim: without its leading zeros.
Magnitude(v) ==
  LET from == {i \in DOMAIN v : v[i] # 0}
  IN  IF from = {} THEN <<>> ELSE SubSeq(v, Min(from), Len(v))

\* cmp is Less: the shorter magnitude, or the one smaller where they first differ.
Smaller(a, b) ==
  \/ Len(a) < Len(b)
  \/ Len(a) = Len(b) /\ \E i \in DOMAIN a : a[i] < b[i] /\ \A j \in 1 .. i - 1 : a[j] = b[j]
IsLess(a, b) == Smaller(Magnitude(a), Magnitude(b))

IsZero(v) == \A i \in DOMAIN v : v[i] = 0

InRange(s, order) == ~IsZero(s) /\ IsLess(s, order)

\* double: one byte wider, carries from the right.
Doubled(wide) ==
  LET carry[i \in 1 .. Len(wide) + 1] ==
        IF i > Len(wide) THEN 0 ELSE (2 * wide[i] + carry[i + 1]) \div BYTE
  IN  [i \in DOMAIN wide |-> (2 * wide[i] + carry[i + 1]) % BYTE]
Double(v) == Doubled(<<0>> \o Magnitude(v))

IsHigh(s, order) == IsLess(order, Double(s))

\* Left-padded to a width, the zero string when it does not fit (byte_at).
Zeros(n) == [i \in 1 .. n |-> 0]
Aligned(m, width) == IF Len(m) > width THEN Zeros(width) ELSE Zeros(width - Len(m)) \o m

\* pad_to: the padded scalar, or <<>> when it does not fit.
PadTo(s, width) == IF Len(Magnitude(s)) > width THEN <<>> ELSE Aligned(Magnitude(s), width)

\* Mutant of Minus: the borrow is forgotten.
MinusNoBorrow(order, s) == [i \in DOMAIN order |-> (order[i] - s[i]) % BYTE]

\* order - s, borrows from the right, for strings of one length.
Minus(order, s) ==
  LET borrow[i \in 1 .. Len(order) + 1] ==
        IF i > Len(order) \/ order[i] - s[i] - borrow[i + 1] >= 0 THEN 0 ELSE 1
  IN  [i \in DOMAIN order |-> (order[i] - s[i] - borrow[i + 1]) % BYTE]

Negate(s, order) ==
  IF ~IsLess(s, order) THEN s ELSE Minus(order, Aligned(Magnitude(s), Len(order)))

=============================================================================
