SPECIFICATION Spec
CONSTANTS
  Paths <- OnePdf
  NumDocs = 3
  Options <- PushSkip
  FolderActs = {"write"}
  TabletActs = {}
  BundleKinds = {"rmdoc"}
  MaxEdits = 1
  MaxCrashes = 0
  TornWrites = FALSE
  QuietRuns = FALSE
INVARIANTS ArchiveVouches
