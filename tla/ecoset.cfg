SPECIFICATION FairSpec
CONSTANTS
  near = near
  mid = mid
  root = root
  far = far
  w1 = w1
  w2 = w2
  Worker = {w1, w2}
  N = 3
  Cube <- MCCube
  CosetOf <- MCCosetOf
  Lengths <- MCLengths
  Depths = {1, 3}
  SeedDepth = 1
  Unsolved = Unsolved
  NoCoset = NoCoset
INVARIANTS
  DoneMeansSearched
  LastShown
PROPERTIES
  ImplementsOptimalStore
  RunEnds
