SPECIFICATION Spec
CONSTANTS
  NRows = 3
  NOrient = 3
  Move <- MCMove
  RawMove <- MCRawMove
  OrientMove <- MCOrientMove
  SelfSym <- MCSelfSym
  SeedSets <- MCSeedSets
  w1 = w1
  w2 = w2
  Worker = {w1, w2}
  Capacity = 3
  Null = Null
  Nobody = Nobody
INVARIANTS
  PruneIsExact
  ArenaSuffices
