SPECIFICATION Spec
CONSTANTS
  Paths <- TwoPdfs
  NumDocs = 5
  Options <- TwoWaySkip
  FolderActs = {"rename"}
  TabletActs = {}
  BundleKinds = {"rmdoc"}
  MaxEdits = 1
  MaxCrashes = 0
  TornWrites = FALSE
  QuietRuns = TRUE
INVARIANTS OnlyDeviceMovesDragFiles
