CONSTANTS
  LastStep = 2
  Products = {short, long}
  Totals <- MCTotals
  MaxBytes = 1
  MaxLines = 1
  Faults = TRUE
  Repeats = FALSE
  Haste = TRUE
  short = short
  long = long
SPECIFICATION FairSpec
INVARIANTS
  TypeOK
  InStep
  LedsShowWork
PROPERTIES
  PressesCount
  CheckIsAnswered
CHECK_DEADLOCK FALSE
