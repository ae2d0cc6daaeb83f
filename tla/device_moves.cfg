SPECIFICATION Spec
CONSTANTS
  Paths <- TwoPdfs
  NumDocs = 6
  Options <- TwoWayResolving
  FolderActs = {"write", "remove"}
  TabletActs = {"remove", "move", "create"}
  BundleKinds = {"rmdoc"}
  MaxEdits = 2
  MaxCrashes = 0
  TornWrites = FALSE
  QuietRuns = FALSE
INVARIANTS OnlyDeviceMovesDragFiles UndisturbedRunSucceeds MappedOnce
