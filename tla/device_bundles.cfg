SPECIFICATION Spec
CONSTANTS
  Paths <- BundleAndPdfs
  NumDocs = 7
  Options <- TwoWaySkip
  FolderActs = {"write"}
  TabletActs = {"annotate", "move"}
  BundleKinds = {"rmdoc"}
  MaxEdits = 2
  MaxCrashes = 1
  TornWrites = TRUE
  QuietRuns = TRUE
INVARIANTS NoVersionLost
PROPERTIES MakesNoDuplicates
