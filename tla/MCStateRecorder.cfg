CONSTANTS
  Products = {p1, p2}
  Events = {"step_pass", "manual_defect", "other"}
  EventIds = {e1, e2, e3}
  Reports <- MCReports
  MaxTotal = 2
  MaxEdits = 1
SPECIFICATION Spec
SYMMETRY Symmetry
INVARIANTS
  TypeOK
  OneUnfinishedRun
  FinishedRunIsClosed
  ResumedStepIsOpen
  OneVerdictPerReport
PROPERTY FinishedRunIsFrozen
CHECK_DEADLOCK FALSE
