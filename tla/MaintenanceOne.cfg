SPECIFICATION FairSpec
CONSTANTS
  Client = {c1}
  Param = {"ref", "ref+1000"}
  Commands <- MCCommands
  WaitsForCoil = TRUE
  NoCommand = NoCommand
  NoOutcome = NoOutcome
  Unknown = Unknown
  Fitted <- MCFitted
  MaxCommands = 4
INVARIANTS
  ServedInOrder
PROPERTIES
  ServesAtomically
  ClientReturns

CHECK_DEADLOCK FALSE
