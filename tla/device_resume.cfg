SPECIFICATION Spec
CONSTANTS
  Paths <- OnePdf
  NumDocs = 4
  Options <- PushSkip
  FolderActs = {"write"}
  TabletActs = {}
  BundleKinds = {"rmdoc"}
  MaxEdits = 1
  MaxCrashes = 1
  TornWrites = FALSE
  QuietRuns = TRUE
INVARIANTS ConflictsAreReal
