CONSTANTS
  Raw <- MCRaw
  NotANumber = NotANumber
  MaxFlow = 1
  MaxErrors = 10
  SlowThread = FALSE
  ServerFails = TRUE
  MaxWrites = 2
SPECIFICATION FairSpec
CHECK_DEADLOCK FALSE
INVARIANTS
  ServedIsHeard
  NoServerAfterExit
PROPERTIES
  FallsBack
  OffPumpDrivenOnce
  ZeroBeforeGivingUp
  EndsOnRequest
