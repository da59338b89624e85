SPECIFICATION FairSpec
CONSTANTS
  a1 = a1
  a2 = a2
  b = b
  c = c
  w1 = w1
  w2 = w2
  Worker = {w1, w2}
  N = 3
  Cube <- MCCube
  CosetOf <- MCCosetOf
  Dist <- MCDist
  Bound = {1, 2, 3}
  Move <- MCMove
  From <- MCFrom
  To <- MCTo
  There <- MCThere
  Back <- MCBack
  Unsolved = Unsolved
  NoWorker = NoWorker
  NoCoset = NoCoset
INVARIANTS
  DoneCoversNeighbors
PROPERTIES
  ImplementsOptimalStore
  RunEnds
