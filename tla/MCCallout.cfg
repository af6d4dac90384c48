SPECIFICATION Spec
CONSTANTS
  t1 = t1
  t2 = t2
  tx = tx
  Sleepers = {t1, t2}
  Durations = {3}
  Shots = {tx}
  Delays = {2}
  Costs = {1, 3}
  PitRepeat = 2
  RtcRepeat = 3
  Instants <- MCInstants
INVARIANTS OnTime RtcCounts
PROPERTIES SleepNotShort SleepEnds
