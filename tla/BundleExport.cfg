SPECIFICATION Spec
CONSTANTS
  CustomFiles <- MCCustomFiles
  Byte = 255
  Word = 65535
  ClientPort = 40000
  Exporters = {"e1", "e2"}
  Requests <- MCRequests
  Artifacts = 2
  MaxRetries = 2
INVARIANTS
  SealedIsWhole
  SealedAgrees
PROPERTY
  NeverRewritten
