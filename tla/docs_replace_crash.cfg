SPECIFICATION Spec
CONSTANTS
  NumKeys = 1
  FolderKeys <- NoKeys
  NumDocs = 6
  NumFolders = 1
  Options <- TwoWayPreferB
  TabletActs <- AnnotateActs
  InitialDocs <- AnyDocs
  MaxEdits = 2
  MaxCrashes = 1
  QuietRuns = TRUE
INVARIANTS DocumentsSurvive
