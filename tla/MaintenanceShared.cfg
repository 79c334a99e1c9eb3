SPECIFICATION Spec
CONSTANTS
  Client = {c1, c2}
  Param = {"ref", "ref+1000"}
  Commands <- MCTwoCommands
  WaitsForCoil = FALSE
  NoCommand = NoCommand
  NoOutcome = NoOutcome
  Unknown = Unknown
  Fitted <- MCFitted
  MaxCommands = 2
INVARIANTS
  EchoConsistent
  AtMostOnce

CHECK_DEADLOCK FALSE
