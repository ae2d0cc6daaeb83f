SPECIFICATION FairSpec
CONSTANTS
  Kinds = {"upload", "write", "download"}
  Total = 2
  PipeSize = 1
  MaxNoise = 1
INVARIANTS DiagnosticsKept NoTempLeft
PROPERTIES KeepsItsPromise CallReturns
