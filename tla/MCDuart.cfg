SPECIFICATION Spec
CONSTANTS
  Twice = 1
  MaxRx = 2
  MaxTx = 2
  MaxReads = 1
  MaxCount = 1
  Width = 2
INVARIANTS RxInOrder TxInOrder
PROPERTIES TxEnds PitExact
CHECK_DEADLOCK FALSE
