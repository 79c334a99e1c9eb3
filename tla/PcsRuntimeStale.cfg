SPECIFICATION Spec
CONSTANTS
  TopLevel = 1
  HttpClient = {h1}
  ModbusClient = {}
  Ticker = ticker
  NoActor = none
  NoProcess = noProcess
  WritableNumeric <- MCWritableNumeric
  WritableCoil <- MCLiveCoil
  MaxAbandoned = 1
INVARIANTS ViewCoherent
