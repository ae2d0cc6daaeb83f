SPECIFICATION Spec
CONSTANTS
  Paths <- TwoTrees
  NumDocs = 8
  NumFolders = 8
  Synced <- SomeSynced
  Options <- OneWayDelete
  FolderActs = {"rename", "renameDir", "remove", "create"}
  TabletActs = {"move", "remove", "create"}
  MaxEdits = 2
  Interrupts = TRUE
  UsersRest = TRUE
INVARIANTS TypeOK NothingLost
PROPERTIES RenamesKeepDocuments OnlyTrackedFoldersGo
