CONSTANTS
  Raw <- MCRaw
  NotANumber = NotANumber
  MaxFlow = 1
  MaxErrors = 2
  SlowThread = TRUE
  ServerFails = FALSE
  MaxWrites = 3
SPECIFICATION Spec
CHECK_DEADLOCK FALSE
INVARIANTS
  TypeOK
PROPERTIES
  NeverDrivenWhileOff
