SPECIFICATION Spec
CONSTANTS
  Paths <- TwoPdfs
  NumDocs = 6
  Options <- TwoWaySkip
  FolderActs = {}
  TabletActs = {"move"}
  BundleKinds = {"rmdoc"}
  MaxEdits = 1
  MaxCrashes = 1
  TornWrites = FALSE
  QuietRuns = TRUE
INVARIANTS NoLeftoverCopies
