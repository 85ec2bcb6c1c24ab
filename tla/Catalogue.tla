----------------------------- MODULE Catalogue -----------------------------
(***************************************************************************)
(* The catalogue of deviations (deviation.rs): for each kind, whether it   *)
(* departs from the specification or is a note to the reader, and whether  *)
(* the reference verifier refuses a record for it.  A profile refuses a    *)
(* record for the kinds it rejects, and for nothing else.                  *)
(***************************************************************************)
EXTENDS TLC

CONSTANT NONE \* Rust's Option::None, here and in the readers

StructureKinds ==
  {"PrettyPrintedPayload", "DuplicateKey", "FourthSectionPublicKey", "ControlCharacterInString",
   "NonCanonicalNumber", "InvalidStringEscape"}

\* What the fields of the payload are missing ...
PresenceKinds ==
  {"FormatVersionMissing", "ScalarFieldNotAString", "MeterSerialMissing",
   "IdentificationFlagsMissing", "IdentificationTypeMissing", "IdentificationStatusMissing",
   "IdentificationFlagsCardinality", "SourceUnidentifiable", "IdentificationFlagsDuplicateGroup"}

\* ... what is wrong with those that are there ...
FieldKinds ==
  {"PaginationLeadingZero", "FieldTooLong", "UnknownKey", "UndefinedTableValue",
   "FieldTypeMismatch", "PaginationMissing", "PaginationMalformed", "ReadingsTruncated"}

\* ... and with those whose table prescribes a form.
FormKinds ==
  {"LossCompensationIncomplete", "ReadingsMissing", "FormatVersionMalformed",
   "IdentificationDataFormat", "ChargePointIdFormat", "ExtensionInsideReading",
   "FormatVersionAheadOfReference"}

ReadingKinds ==
  {"RvIsString", "MandatoryReadingFieldMissing", "TimeOffsetWithColon", "TimeDotMilliseconds",
   "TimeStatusMissing", "TimeMalformed", "TimeSubSecondDigits", "ObisMalformed",
   "NumberUnrepresentable", "ObisNonCanonical", "CarriedForwardMandatoryField"}

SignatureKinds ==
  {"RawSignatureNotDer", "SignatureDataUndecodable", "SignatureDataMissing", "NonCanonicalDer",
   "AlgorithmIdentifierSpelling", "HighSSignature"}

\* What the specification permits and a reader should know of ...
Advisory ==
  {"PrettyPrintedPayload", "DuplicateKey", "FormatVersionMissing", "IdentificationFlagsDuplicateGroup",
   "ReadingsTruncated", "FormatVersionAheadOfReference", "CarriedForwardMandatoryField",
   "HighSSignature"}

\* ... and what the reference verifier refuses.
ReferenceRejects ==
  {"FormatVersionMissing", "FormatVersionAheadOfReference", "RawSignatureNotDer",
   "SignatureDataUndecodable", "SignatureDataMissing"}

DeviationKind ==
  [kind \in StructureKinds \union PresenceKinds \union FieldKinds \union FormKinds
              \union ReadingKinds \union SignatureKinds |->
     [departure |-> IF kind \in Advisory THEN "Advisory" ELSE "Specification",
      reference_rejects |-> kind \in ReferenceRejects]]

\* Profile::rejects.
Rejects(profile, kind) ==
  CASE profile = "Strict"    -> DeviationKind[kind].departure = "Specification"
    [] profile = "Reference" -> DeviationKind[kind].reference_rejects
    [] profile = "Interop"   -> FALSE

\* rejected: the deviations that a profile refuses.
Rejected(profile, dev) == {kind \in dev : Rejects(profile, kind)}

=============================================================================
