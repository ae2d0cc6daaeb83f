SPECIFICATION Spec
CONSTANTS
  NumKeys = 1
  FolderKeys <- NoKeys
  NumDocs = 6
  NumFolders = 1
  Options <- TwoWaySkip
  TabletActs <- AnnotateActs
  InitialDocs <- NoCopies
  MaxEdits = 2
  MaxCrashes = 0
  QuietRuns = FALSE
PROPERTIES NeverSilentlyOverwritten
