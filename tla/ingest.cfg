SPECIFICATION Spec
CONSTANTS
  a = a
  b = b
  c = c
  a1 = a1
  a2 = a2
  a3 = a3
  b1 = b1
  c1 = c1
  bad = bad
  w1 = w1
  w2 = w2
  Worker = {w1, w2}
  Coset = {0, 1}
  Cube <- MCCube
  CosetOf <- MCCosetOf
  Dist <- MCDist
  Bound = {1, 2}
  Line <- MCLine
  CubeOf <- MCCubeOf
  RawSize <- MCRawSize
  Size <- MCSize
  Inputs <- MCInputs
  NoCube = NoCube
  NoLine = NoLine
  NoWorker = NoWorker
  Unsolved = Unsolved
CHECK_DEADLOCK FALSE
INVARIANTS
  LinesCountOnce
PROPERTIES
  ImplementsOptimalStore
