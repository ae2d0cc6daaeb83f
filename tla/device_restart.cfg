SPECIFICATION Spec
CONSTANTS
  Paths <- OnePdf
  NumDocs = 3
  Options <- PushSkip
  FolderActs = {}
  TabletActs = {}
  BundleKinds = {"rmdoc"}
  MaxEdits = 0
  MaxCrashes = 1
  TornWrites = FALSE
  QuietRuns = TRUE
INVARIANTS FinishedRunIsVisible
