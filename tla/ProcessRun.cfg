\* The run ends after MaxSteps, MaxWrites and MaxErrors.
SPECIFICATION Spec
CHECK_DEADLOCK FALSE
CONSTANTS
  TopLevel = 1
  Zones = 3
  MixRate = 2
  DesignFlow = 1
  Stratified = TRUE
  Ratio = 2
  BufferWeight = 2
  HeatLoss = 1
  Den = 16
  Parts = {2}
  Site <- MCSite
  StockStrength = 3
  AcidStrength = 8
  TopAcidity = 8
  Orders <- MCOrders
  MaxSteps = 3
  MaxWrites = 2
  MaxErrors = 1
INVARIANTS ChlorineBalanced StaysPhysical NothingHidden
