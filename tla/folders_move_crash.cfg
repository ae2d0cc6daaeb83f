SPECIFICATION Spec
CONSTANTS
  Paths <- TwoTrees
  NumDocs = 8
  NumFolders = 8
  Synced <- SomeSynced
  Options <- OneWayDelete
  FolderActs = {"renameDir"}
  TabletActs = {}
  MaxEdits = 2
  Interrupts = TRUE
  UsersRest = TRUE
PROPERTIES DeletesOnlySurplus
