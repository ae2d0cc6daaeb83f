SPECIFICATION Spec
CONSTANTS
  NumPaths = 1
  Options <- PushMirror
  MaxEdits = 1
  MaxCrashes = 0
  TornWrites = FALSE
  QuietDestination = TRUE
INVARIANTS DeleteRunMirrors
