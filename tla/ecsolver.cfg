SPECIFICATION FairSpec
CONSTANTS
  NMoves = 4
  Face <- MCFace
  Edge <- MCEdge
  Corner <- MCCorner
  Home <- MCHome
  EMove <- MCEMove
  CMove <- MCCMove
  Times <- MCTimes
  Sym <- MCSym
  ESym <- MCESym
  CSym <- MCCSym
  MSym <- MCMSym
  RepOf <- MCRepOf
  EDist <- MCEDist
  CDist <- MCCDist
  Dist <- MCDist
  Involution <- MCInvolution
  Hash <- MCHash
  Starts <- MCStarts
  SeedDepth = 3
  MaxDepths = {6, 9}
  FirstBounds = {0, 2, 5}
  Unsolved = Unsolved
INVARIANTS
  OptimalLengths
  BoundIsProven
  NodesExact
PROPERTY SolveEnds
CHECK_DEADLOCK FALSE
