CONSTANTS
  NONE = NONE
  o1 = o1
  o2 = o2
  m1 = m1
  m2 = m2
  text = text
  CounterSize = 4
  Registers <- MCRegisters
  Serials <- MCSerials
  Texts <- MCTexts
  Inputs <- MCInputs
SPECIFICATION Spec
INVARIANT UnitIsOfBothReadings
CHECK_DEADLOCK FALSE
