CONSTANTS
  NONE = NONE
  t1 = t1
  t2 = t2
  o1 = o1
  o2 = o2
  v1 = v1
  CounterSize = 4
  Times <- MCTimes
  Registers <- MCRegisters
  Numbers = {v1}
  Canonical <- MCCanonical
  Items <- MCItems
  Surplus <- MCSurplus
  Limit = 3
  MaxItems = 4
SPECIFICATION Spec
INVARIANT MalformedTimeIsNoTime
CHECK_DEADLOCK FALSE
