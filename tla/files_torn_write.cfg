SPECIFICATION Spec
CONSTANTS
  NumPaths = 1
  Options <- TwoWaySkip
  MaxEdits = 2
  MaxCrashes = 1
  TornWrites = TRUE
  QuietDestination = TRUE
INVARIANTS NoVersionLost
