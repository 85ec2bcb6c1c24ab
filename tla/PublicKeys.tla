----------------------------- MODULE PublicKeys -----------------------------
(***************************************************************************)
(* Public keys (key.rs): a point on a known curve, read from a structure   *)
(* that names the curve, from a point whose curve the record claims, and   *)
(* from text in any encoding of either.  A key is [curve, sec1]; what      *)
(* cannot be read is a KeyError.                                           *)
(***************************************************************************)
EXTENDS DerReader, Encoding

CONSTANTS
  CurveNames,
  FieldBytes, \* the width of a coordinate, by curve
  OidOf       \* the curve's object identifier

IsError(answer) == "error" \in DOMAIN answer

Key(curve, sec1) == [curve |-> curve, sec1 |-> sec1]

\* Uncompressed, compressed, or the two coordinates with the prefix chopped off.
FromSec1(curve, b) ==
  IF b = <<>> THEN KeyError("InvalidPoint")
  ELSE IF b[1] = 4 /\ Len(b) = 1 + 2 * FieldBytes[curve] THEN Key(curve, b)
  ELSE IF b[1] \in {2, 3} /\ Len(b) = 1 + FieldBytes[curve] THEN Key(curve, b)
  ELSE IF Len(b) = 2 * FieldBytes[curve] THEN Key(curve, <<4>> \o b)
  ELSE KeyError("InvalidPoint")

OnCurve(named, b) == IF named = {} THEN KeyError("UnknownCurve") ELSE FromSec1(CHOOSE c \in named : TRUE, b)

SpkiKey(spki) ==
  IF IsError(spki) THEN spki ELSE OnCurve({c \in CurveNames : OidOf[c] = spki.curve}, spki.key)
FromSpki(b) == SpkiKey(ReadSpki(b))

\* The error of a structure that is not one, unless the bytes are a point.
OrPoint(key, point) == IF IsError(key) /\ ~IsError(point) THEN point ELSE key

\* Mutant of FromKeyBytes: the first byte decides what the bytes are.
FromKeyBytesByTag(b, hint) ==
  IF b # <<>> /\ b[1] = TAG_SEQUENCE THEN FromSpki(b)
  ELSE IF hint = NONE THEN KeyError("Unrecognised") ELSE FromSec1(hint, b)

\* from_bytes: the first byte says which shape to try first, and no more.
FromKeyBytes(b, hint) ==
  IF b # <<>> /\ b[1] = TAG_SEQUENCE
  THEN IF hint = NONE THEN FromSpki(b) ELSE OrPoint(FromSpki(b), FromSec1(hint, b))
  ELSE IF hint = NONE THEN KeyError("Unrecognised") ELSE FromSec1(hint, b)

FromPrinted(b, hint) == IF b = NONE THEN KeyError("OcaComposition") ELSE FromKeyBytes(b, hint)

OCA == <<"o", "c", "a", ":">>
BASE16_NAME == <<"B", "A", "S", "E", "1", "6">>
BASE64_NAME == <<"B", "A", "S", "E", "6", "4">>
ASN1_NAME   == <<"A", "S", "N", "1">>

\* <encoding>:<content-type>:<key>, with the two names in any case.
OcaParts(encoding, content_type, printed, hint) ==
  IF UpperCase(content_type) # ASN1_NAME THEN KeyError("OcaComposition")
  ELSE IF UpperCase(encoding) = BASE16_NAME THEN FromPrinted(HexDecodeLossy(printed), hint)
  ELSE IF UpperCase(encoding) = BASE64_NAME THEN FromPrinted(Base64Decode(printed), hint)
  ELSE KeyError("OcaComposition")

OcaTyped(encoding, rest, colon, hint) ==
  IF colon = 0 THEN KeyError("OcaComposition")
  ELSE OcaParts(encoding, Before(rest, colon), After(rest, colon), hint)

OcaEncoded(rest, colon, hint) ==
  IF colon = 0 THEN KeyError("OcaComposition")
  ELSE LET typed == After(rest, colon)
       IN  OcaTyped(Before(rest, colon), typed, FindIn(typed, ":"), hint)

FromOca(text, hint) ==
  LET rest == SubSeq(text, 5, Len(text)) IN OcaEncoded(rest, FindIn(rest, ":"), hint)

FromBase64(b, hint) ==
  IF b = NONE THEN KeyError("NotEncoded")
  ELSE IF IsPrefix(OCA, AsText(b)) THEN FromOca(AsText(b), hint)
  ELSE FromKeyBytes(b, hint)

\* Hexadecimal is tried before Base64: a text that is both is hexadecimal.
FromHex(text, b, hint) ==
  IF b # NONE THEN FromKeyBytes(b, hint) ELSE FromBase64(Base64Decode(text), hint)

FromTrimmed(text, hint) ==
  IF IsPrefix(OCA, text) THEN FromOca(text, hint) ELSE FromHex(text, HexDecode(text), hint)
FromKeyText(text, hint) == FromTrimmed(TrimEndOf(TrimStartOf(text, AsciiSpace), AsciiSpace), hint)

-----------------------------------------------------------------------------
ToSpki(key) == WriteSpki(OidOf[key.curve], key.sec1)
ToOcaBase64(key) ==
  Base64Encode(AsBytes(OCA \o <<"b", "a", "s", "e", "1", "6", ":", "a", "s", "n", "1", ":">>
                         \o HexEncode(ToSpki(key))))

=============================================================================
