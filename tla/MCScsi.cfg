SPECIFICATION Spec
CONSTANTS
  Items <- MCItems
  MaxLen = 2
  Eom = 99
  NSectors = 2
  Cdbs <- MCCdbs
  MaxResets = 2
  MaxWrites = 2
INVARIANTS IntIsIrq MediaIsTrue
PROPERTIES ServesWhatIsWritten Answered
CHECK_DEADLOCK FALSE
