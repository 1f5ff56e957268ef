CONSTANTS
  LastStep = 3
  Products = {long}
  Totals <- MCTotals
  MaxBytes = 1
  MaxLines = 1
  Faults = FALSE
  Repeats = FALSE
  Haste = FALSE
  short = short
  long = long
SPECIFICATION Spec
PROPERTY StartKeepsWork
CHECK_DEADLOCK FALSE
