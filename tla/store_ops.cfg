SPECIFICATION Spec
CONSTANTS
  GlobNames <- MCGlobNames
  Names <- MCNames
  FirstTrees <- MCTrees
  Segments <- MCSegments
  Pairs <- MCPairs
  NumItems = 5
  MaxOps = 1
  MaxEdits = 1
  NoItem = NoItem
  Same = Same
  a = a
  b = b
SYMMETRY Symmetric
CHECK_DEADLOCK FALSE
INVARIANTS TypeOK NoBrokenDocument StaysATree DoesWhatItSays
PROPERTIES TabletActsSurvive
