SPECIFICATION Spec
CONSTANTS
  Paths <- PdfBundle
  NumDocs = 4
  Options <- TwoWaySkip
  FolderActs = {}
  TabletActs = {}
  BundleKinds = {"pdf"}
  MaxEdits = 0
  MaxCrashes = 0
  TornWrites = FALSE
  QuietRuns = TRUE
INVARIANTS OnlyDeviceMovesDragFiles
