SPECIFICATION Spec
CONSTANTS
  TopLevel = 1
  HttpClient = {h1}
  ModbusClient = {m1}
  Ticker = ticker
  NoActor = none
  NoProcess = noProcess
  WritableNumeric <- MCWritableNumeric
  WritableCoil <- MCWritableCoil
  MaxAbandoned = 0
INVARIANTS AnswersMatch ViewCoherent
PROPERTIES OkMeansApplied PublishesIntent
