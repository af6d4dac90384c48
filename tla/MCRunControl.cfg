SPECIFICATION Spec
CONSTANTS
  Counts = {0, 1, 2}
  Endless = 9
  Amounts = {1, 2}
  MaxTime = 3
INVARIANTS ResetIsAlone
PROPERTIES StepIsExact CliReturns QuotaSimulated
CHECK_DEADLOCK FALSE
