SPECIFICATION Spec
CONSTANTS
  p1 = p1
  p2 = p2
  w1 = w1
  w2 = w2
  w3 = w3
  Process = {p1, p2}
  Worker = {w1, w2, w3}
  ProcessOf <- MCProcessOf
  Coset <- MCCoset
  Corner <- MCCorner
  CornerInit <- MCCornerInit
  Orbit <- MCOrbit
  Offset <- MCOffset
  NCubes <- MCNCubes
  Prune <- MCPrune
  SlotCount <- MCSlotCount
  Moves <- MCMoves
  CornerOf <- MCCornerOf
  SizeOf <- MCSizeOf
  Recode <- MCRecode
  MaxDepth = 1
  PassDepths = {1}
  Empty = Empty
  NoWorker = NoWorker
  NoCoset = NoCoset
SYMMETRY MCSymmetry
INVARIANTS
  SolvedBounded
  NoOrbitTwice
  HeadersTrue
  CacheCoherent
  TodoAgrees
PROPERTY
  ImplementsStore
