SPECIFICATION Spec
CONSTANTS
  Paths <- TwoPdfs
  NumDocs = 6
  Options <- TwoWaySkip
  FolderActs = {"touch"}
  TabletActs = {"move"}
  BundleKinds = {"rmdoc"}
  MaxEdits = 2
  MaxCrashes = 0
  TornWrites = FALSE
  QuietRuns = TRUE
INVARIANTS UndisturbedRunSucceeds
