SPECIFICATION FairSpec
CONSTANTS
  NumPaths = 1
  Options <- AllOptions
  MaxEdits = 2
  MaxCrashes = 1
  TornWrites = TRUE
  QuietDestination = TRUE
INVARIANTS TypeOK ArchiveVouches SecondRunIdle
PROPERTIES SourceUntouched NeverSilentlyOverwritten SkipLosesNothing RunEnds
