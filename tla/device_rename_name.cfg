SPECIFICATION Spec
CONSTANTS
  Paths <- BundleAndPdfs
  NumDocs = 7
  Options <- PushSkip
  FolderActs = {"write", "rename"}
  TabletActs = {}
  BundleKinds = {"rmdoc"}
  MaxEdits = 2
  MaxCrashes = 0
  TornWrites = FALSE
  QuietRuns = TRUE
PROPERTIES MakesNoDuplicates
