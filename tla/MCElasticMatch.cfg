SPECIFICATION MatchSpec
CONSTANTS
  a = a
  b = b
  x = x
  Patterns <- MCPatterns
  Chunks <- MCChunks
  MaxBytes = 5
  MaxArms = 2
INVARIANTS MatchIsFresh FoundAfterBreak
PROPERTIES WaitReturns
CHECK_DEADLOCK FALSE
