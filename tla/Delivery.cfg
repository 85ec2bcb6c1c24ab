CONSTANTS
  NONE = NONE
  o1 = o1
  s1 = s1
  s2 = s2
  text = text
  CounterSize = 4
  Registers <- MCRegisters
  Serials <- MCStations
  Stations <- MCStations
  Texts <- MCTexts
  Inputs = {}
  Base = 2
  MaxStream = 3
  MaxInbox = 3
SYMMETRY Symmetry
SPECIFICATION DeliverySpec
INVARIANTS
  CleanIsOneWholeTransaction
  WholeTransactionIsClean
  CleanBillsTheTransaction
CHECK_DEADLOCK FALSE
