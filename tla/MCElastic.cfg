SPECIFICATION Spec
CONSTANTS
  s1 = s1
  s2 = s2
  Subs = {s1, s2}
  Leavers = {s1, s2}
  MaxPut = 2
INVARIANTS InOrder NoOrphan NoLostWakeup
PROPERTIES DrainReturnsLate AllDelivered DrainReturns ImplementsLog
CHECK_DEADLOCK FALSE
