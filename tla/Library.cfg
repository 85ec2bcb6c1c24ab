CONSTANTS
  NONE = NONE
  cP = cP
  cK = cK
  cB = cB
  Limits <- MCLimits
  HARD_DEPTH = 512
  Symbols <- MCSymbols
  Size <- MCSize
  HexWords = {"uid4", "uid7", "uid8", "uid5"}
  Counters = {"T1", "F1", "T01", "X1"}
  ContextOf <- MCContextOf
  Padded = {"T01"}
  Versions <- MCVersions
  Instants = {"t1", "t2", "unsynchronised"}
  InstantStatus <- MCInstantStatus
  Codes = {"code", "old"}
  CanonicalCodes = {"code"}
  Reserved = {"U"}
  Curves = {cP, cK, cB}
  DefaultCurve = cP
  Verifiable = {cP, cK}
  SignTasks <- MCSignTasks
  ReadTasks <- MCReadTasks
  Commands <- MCCommands
  Questions <- MCQuestions
  CurveNames = {"c1", "c2", "c3"}
  FieldBytes <- MCFieldBytes
  OidOf <- MCOidOf
  OrderOf <- MCOrderOf
  Holds <- MCHolds
  Keys = {k1, k2}
  MaxEntries = 3
  MaxText = 8
  k1 = k1
  k2 = k2
SPECIFICATION Spec
INVARIANTS SpansAreBetweenBars DepthIsNesting SyntaxIsReported StrictLosesNothing SignedIsWhatWasGiven DerivedVersionIsTaken SelfCheckIsExplained StrictIsBuildable DocumentIsRead TransactionsAreWhole SuccessIsVerified ContainerReadsBack PackagingKeepsTheVerdict SignedScalarsAreRead CanonicalIsAsWritten KeyReadsBack DaysAreCounted TimesAreReadAsSpelled CodesShareAForm DecodingIsExact
PROPERTY ReadingEnds
CHECK_DEADLOCK FALSE
