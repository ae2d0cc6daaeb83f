SPECIFICATION Spec
CONSTANTS
  Paths <- TwoPdfs
  NumDocs = 6
  Options <- SkipOptions
  FolderActs = {"write", "remove", "rename", "copy"}
  TabletActs <- AllTabletActs
  BundleKinds = {"rmdoc"}
  MaxEdits = 2
  MaxCrashes = 0
  TornWrites = FALSE
  QuietRuns = TRUE
INVARIANTS TypeOK NoVersionLost
