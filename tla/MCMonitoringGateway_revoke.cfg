CONSTANTS
  Employees = {ann, bob}
  Addresses = {ip1, ip2}
  Threads = {th1, th2}
  MaxTokens = 2
  MaxRecords = 1
  MaxRestarts = 0
SPECIFICATION Spec
INVARIANT RevokedIsAbsent
CHECK_DEADLOCK FALSE
