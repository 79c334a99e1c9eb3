SPECIFICATION FairSpec
CONSTANTS
  Fitted <- MCFitted
  Unknown = Unknown
  WarmUp <- MCWarmUp
  Validity <- MCValidity
  DriftLimit = 4
  Old = 5
  MaxLag = 2
  Top = 5
  Deadband = 2
  Stiction = 3
  StuckError = 3
INVARIANTS
  DeliversAsStroked
PROPERTIES
  TroubleIsShown
  OnlyServiceHeals
  Settles
