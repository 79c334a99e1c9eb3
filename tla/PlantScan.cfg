SPECIFICATION Spec
CONSTANTS
  Fitted <- MCFitted
  WarmUp <- MCWarmUp
  Delay = 2
  DelaySeconds = 2
  Margin = 1
  LeastRoom = 6
  MaxLag = 1
  MaxScan = 6
  MaxFaults = 1
  MaxServices = 2
INVARIANTS
  SettledSample
  StampTellsAge
PROPERTY
  SamplesInOrder
CHECK_DEADLOCK FALSE
