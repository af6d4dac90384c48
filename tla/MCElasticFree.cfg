SPECIFICATION Safety
CONSTANTS
  s1 = s1
  Subs = {s1}
  Leavers = {s1}
  MaxPut = 1
INVARIANTS SignalOnLiveCond
CHECK_DEADLOCK FALSE
