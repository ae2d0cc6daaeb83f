SPECIFICATION Spec
CONSTANTS
  NumKeys = 2
  FolderKeys <- FirstKey
  NumDocs = 6
  NumFolders = 2
  Options <- TwoWaySkipBoth
  TabletActs <- AllActs
  InitialDocs <- NoCopies
  MaxEdits = 2
  MaxCrashes = 1
  QuietRuns = TRUE
INVARIANTS TypeOK DocumentsSurvive StateVouches SuccessorHasParent
PROPERTIES MakesNoDuplicates
