SPECIFICATION Spec
CONSTANTS
  Paths <- TwoTrees
  NumDocs = 8
  NumFolders = 8
  Synced <- SomeSynced
  Options <- TwoWayDelete
  FolderActs = {"rename", "remove"}
  TabletActs = {}
  MaxEdits = 2
  Interrupts = FALSE
  UsersRest = TRUE
PROPERTIES DeletesOnlyEmptyFolders
