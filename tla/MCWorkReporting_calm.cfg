CONSTANTS
  Products = {p1, p2}
  Events = {"init", "restore", "start", "pause", "resume", "manual_defect", "ai_fail", "step_pass", "complete"}
  Totals <- MCTotals
  MaxTotal = 2
  MaxReports = 7
  MaxLogins = 2
  MaxFaults = 0
  p1 = p1
  p2 = p2
SPECIFICATION Spec
INVARIANT PassedRunIsComplete
CHECK_DEADLOCK FALSE
