CONSTANTS
  Employees = {ann, bob}
  Addresses = {ip1, ip2}
  Threads = {th1, th2}
  MaxTokens = 3
  MaxRecords = 1
  MaxRestarts = 1
SPECIFICATION FairSpec
INVARIANTS
  TypeOK
  RegistryMatchesSessions
  LoggedInIsPresent
  HandedWorkIsCurrent
  GatewayInv
PROPERTIES
  AttendanceEndsWithSession
  LocksAreReleased
CHECK_DEADLOCK FALSE
