SPECIFICATION Spec
CONSTANTS
  Profile <- MCProfile
  Scenario <- MCScenario
  IdOrder <- MCIdOrder
  WithLogs = TRUE
  StartupDelay = TRUE
  MaxInterrupts = 2
  NodeOrder <- MCNodeOrder
  Observers = {"passive-observer"}
  MaxWord = 3
  Paced = TRUE
  MaxTime = 2
  Selections <- MCSelections
  LastPort = 2
  Scripts <- MCScripts
INVARIANTS
  NoOrphans
  NobodyForgotten
  ReplayIsFaithful
  NeverEarly
PROPERTY
  LauncherEnds
