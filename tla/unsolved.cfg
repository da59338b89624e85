SPECIFICATION FairSpec
CONSTANTS
  w1 = w1
  w2 = w2
  w3 = w3
  Worker = {w1, w2, w3}
  N = 4
  Corner <- MCCorner
  Orbit <- MCOrbit
  CornerSets <- MCCornerSets
  NoWorker = NoWorker
  NoCoset = NoCoset
CHECK_DEADLOCK FALSE
PROPERTIES
  ImplementsOrderedOutput
  CommandEnds
