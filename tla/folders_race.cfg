SPECIFICATION Spec
CONSTANTS
  Paths <- TwoTrees
  NumDocs = 8
  NumFolders = 8
  Synced <- SomeSynced
  Options <- OneWayDelete
  FolderActs = {"remove"}
  TabletActs = {"move", "create"}
  MaxEdits = 2
  Interrupts = FALSE
  UsersRest = FALSE
INVARIANTS NothingLost
