SPECIFICATION Spec
CONSTANTS
  NumPaths = 1
  Options <- PushSkip
  MaxEdits = 1
  MaxCrashes = 1
  TornWrites = FALSE
  QuietDestination = TRUE
INVARIANTS ConflictsAreReal
