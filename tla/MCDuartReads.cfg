SPECIFICATION Spec
CONSTANTS
  Twice = 2
  MaxRx = 3
  MaxTx = 2
  MaxReads = 0
  MaxCount = 2
  Width = 3
INVARIANTS SecondReadSame
CHECK_DEADLOCK FALSE
