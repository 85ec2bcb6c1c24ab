CONSTANTS
  NONE = NONE
  cP = cP
  cK = cK
  cB = cB
  onP = onP
  onK = onK
  onB = onB
  nowhere = nowhere
  signed = signed
  other = other
  Curves <- MCCurves
  DefaultCurve = cP
  Width <- MCWidth
  Order <- MCOrder
  LowOnly = {cK}
  PureCurves = {cP, cK}
  Points <- MCPoints
  Valid <- MCValid
  Texts <- MCTexts
  Signed <- MCSigned
  Requests <- MCRequests
SPECIFICATION Spec
INVARIANTS TypeOK AcceptedIsAuthentic AuthenticIsAccepted ErrorNamesTheCause ForgivenIsReported
CHECK_DEADLOCK FALSE
