SPECIFICATION FairSpec
CONSTANTS
  NWorkers = 3
  NPerm = 7
  NRep = 4
  NSym = 2
  Image <- MCImage
  SymInv <- MCSymInv
  NMoves = 4
  Moved <- MCMoved
  MaxKills = 2
  NOrient = 3
  Turned <- MCTurned
  Symi <- MCSymi
  CL = 2
  STRIPE = 2
  Nobody = Nobody
CHECK_DEADLOCK FALSE
INVARIANTS
  CoordinatesAreReal
  TodoCountsEmpty
  IndexIsRight
PROPERTIES
  GenerationEnds
