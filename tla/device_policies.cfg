SPECIFICATION Spec
CONSTANTS
  Paths <- OnePdf
  NumDocs = 5
  Options <- AllOptions
  FolderActs <- AllFolderActs
  TabletActs <- AllTabletActs
  BundleKinds = {"rmdoc"}
  MaxEdits = 2
  MaxCrashes = 1
  TornWrites = FALSE
  QuietRuns = TRUE
INVARIANTS ArchiveVouches FinishedRunAgrees SecondRunIdle
