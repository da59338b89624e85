SPECIFICATION SpecCube
CONSTANTS
  MaxDepth = 20
  Alphabet <- MCAlphabet
  Starts <- MCStarts
  Grow = 3
  Wrappings = {1, 16, 37}
  EdgePlaces = {8, 9, 10, 11}
  CornerSwaps = {0, 1, 2}
  CountedTurns = {0, 1, 2047}
CHECK_DEADLOCK FALSE
INVARIANTS
  CanonicalKeepsCube
  CanonicalIsUnique
  SlotGivesBack
  ParseReadsBack
  CoordinatesFollow
  NeighborsWrap
  CubeReadsBack
  HashIsPerfect
  EdgesListedOnce
  CubesAreCounted
