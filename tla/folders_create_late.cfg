SPECIFICATION Spec
CONSTANTS
  Paths <- TwoTrees
  NumDocs = 8
  NumFolders = 8
  Synced <- OneSynced
  Options <- OneWayDelete
  FolderActs = {"renameDir", "create"}
  TabletActs = {}
  MaxEdits = 2
  Interrupts = FALSE
  UsersRest = TRUE
INVARIANTS UndisturbedRunSucceeds
