------------------------------ MODULE DerReader ------------------------------
(***************************************************************************)
(* DER as the reference verifier reads it (der.rs): longer lengths than    *)
(* needed, integers without a sign byte or with too many, and bytes after  *)
(* the end are read, and make the encoding not canonical.  What is written *)
(* is canonical.                                                           *)
(***************************************************************************)
EXTENDS Catalogue, Integers, SequencesExt

TAG_INTEGER    == 2
TAG_BIT_STRING == 3
TAG_OID        == 6
TAG_SEQUENCE   == 48

OctetStrings  == Seq(0 .. 255)
Tlvs          == [tag : 0 .. 255, value : OctetStrings, len : Nat, canonical : BOOLEAN]
DerSignatures == [r : OctetStrings, s : OctetStrings, canonical : BOOLEAN]

ASSUME NoneIsNotRead == NONE \notin Tlvs /\ NONE \notin DerSignatures

\* The place values of octets.  Lengths here stay below 256^3, where TLC can count them.
PLACES == <<1, 256, 65536, 16777216>>
TOO_LONG == PLACES[4]

\* What up to four octets amount to.
OctetsValue(v) ==
  LET octet(k) == IF k <= Len(v) THEN v[Len(v) - k + 1] * PLACES[k] ELSE 0
  IN  octet(1) + octet(2) + octet(3) + octet(4)

MinimalLengthOctets(v) == Min({n \in 0 .. 3 : v < PLACES[n + 1]})

Tlv(b, value_len, header, canonical) ==
  IF Len(b) < header + value_len THEN NONE
  ELSE [tag |-> b[1], value |-> SubSeq(b, header + 1, header + value_len),
        len |-> header + value_len, canonical |-> canonical]

LongTlv(b, n, value_len) ==
  Tlv(b, value_len, 2 + n, value_len >= 128 /\ MinimalLengthOctets(value_len) = n)

ReadTlv(b) ==
  IF Len(b) < 2 THEN NONE
  ELSE IF b[2] < 128 THEN Tlv(b, b[2], 2, TRUE)
  ELSE IF b[2] - 128 \notin 1 .. 4 \/ Len(b) < 2 + b[2] - 128 THEN NONE
  ELSE LongTlv(b, b[2] - 128, OctetsValue(SubSeq(b, 3, b[2] - 126)))

\* The value of the given kind at the head of b, or NONE.
ReadTagged(b, tag) == LET tlv == ReadTlv(b) IN IF tlv = NONE \/ tlv.tag = tag THEN tlv ELSE NONE
RestOf(b, tlv) == SubSeq(b, tlv.len + 1, Len(b))

-----------------------------------------------------------------------------
\* How many leading zeros can go, if one octet has to stay.
Stripped(v) == Max({i \in 0 .. Len(v) - 1 : \A k \in 1 .. i : v[k] = 0})
WithoutZeros(v) == IF v = <<>> THEN v ELSE SubSeq(v, Stripped(v) + 1, Len(v))

\* Mutant of IsMinimal: a zero in front is always a sign byte.
IsMinimalOrPadded(v) == v[1] < 128 /\ Stripped(v) <= 1

\* trim_integer: a sign byte where the top bit asks for one, and no other.
IsMinimal(v) == v[1] < 128 /\ (Stripped(v) = 0 \/ (Stripped(v) = 1 /\ v[2] >= 128))

DerSignature(seq, r, s, whole) ==
  IF r.value = <<>> \/ s.value = <<>> THEN NONE
  ELSE [r |-> WithoutZeros(r.value), s |-> WithoutZeros(s.value),
        canonical |-> /\ whole /\ seq.canonical /\ r.len + s.len = Len(seq.value)
                      /\ r.canonical /\ s.canonical
                      /\ IsMinimal(r.value) /\ IsMinimal(s.value)]

SecondInteger(seq, r, whole) ==
  IF r = NONE THEN NONE
  ELSE LET s == ReadTagged(RestOf(seq.value, r), TAG_INTEGER)
       IN  IF s = NONE THEN NONE ELSE DerSignature(seq, r, s, whole)

ReadEcdsaSignature(bytes) ==
  LET seq == ReadTagged(bytes, TAG_SEQUENCE)
  IN  IF seq = NONE THEN NONE
      ELSE SecondInteger(seq, ReadTagged(seq.value, TAG_INTEGER), seq.len = Len(bytes))

-----------------------------------------------------------------------------
LengthOctets(len, k) == <<128 + k>> \o [i \in 1 .. k |-> (len \div PLACES[k - i + 1]) % 256]
PushLength(len) == IF len < 128 THEN <<len>> ELSE LengthOctets(len, MinimalLengthOctets(len))
PushTlv(tag, v) == <<tag>> \o PushLength(Len(v)) \o v

\* A sign byte goes in front of a top bit.
Signed(v) == IF v # <<>> /\ v[1] >= 128 THEN <<0>> \o v ELSE v
PushInteger(v) == PushTlv(TAG_INTEGER, Signed(WithoutZeros(v)))

WriteEcdsaSignature(r, s) == PushTlv(TAG_SEQUENCE, PushInteger(r) \o PushInteger(s))

-----------------------------------------------------------------------------
(***************************************************************************)
(* SubjectPublicKeyInfo: the answer is the curve's OID and the point, or   *)
(* the KeyError.                                                           *)
(***************************************************************************)
KeyError(name) == [error |-> name]

OID_EC_PUBLIC_KEY == <<42, 134, 72, 206, 61, 2, 1>>

SpkiPoint(params, bits) ==
  IF bits = NONE \/ bits.value = <<>> \/ bits.value[1] # 0 THEN KeyError("Der")
  ELSE [curve |-> params.value, key |-> Tail(bits.value)]

SpkiParameters(outer, alg, alg_oid) ==
  IF alg_oid = NONE THEN KeyError("Der")
  ELSE IF alg_oid.value # OID_EC_PUBLIC_KEY THEN KeyError("NotEcdsa")
  ELSE LET params == ReadTagged(RestOf(alg.value, alg_oid), TAG_OID)
       IN  IF params = NONE THEN KeyError("Der")
           ELSE SpkiPoint(params, ReadTagged(RestOf(outer.value, alg), TAG_BIT_STRING))

SpkiAlgorithm(outer, alg) ==
  IF alg = NONE THEN KeyError("Der") ELSE SpkiParameters(outer, alg, ReadTagged(alg.value, TAG_OID))

ReadSpki(bytes) ==
  LET outer == ReadTagged(bytes, TAG_SEQUENCE)
  IN  IF outer = NONE THEN KeyError("Der")
      ELSE SpkiAlgorithm(outer, ReadTagged(outer.value, TAG_SEQUENCE))

WriteSpki(curve_oid, point) ==
  PushTlv(TAG_SEQUENCE,
          PushTlv(TAG_SEQUENCE, PushTlv(TAG_OID, OID_EC_PUBLIC_KEY) \o PushTlv(TAG_OID, curve_oid))
            \o PushTlv(TAG_BIT_STRING, <<0>> \o point))

=============================================================================
