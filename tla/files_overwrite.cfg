SPECIFICATION Spec
CONSTANTS
  NumPaths = 1
  Options <- PushSkip
  MaxEdits = 2
  MaxCrashes = 0
  TornWrites = FALSE
  QuietDestination = FALSE
PROPERTIES NeverSilentlyOverwritten
