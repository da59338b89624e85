SPECIFICATION Spec
CONSTANTS
  MaxDepth = 20
  Alphabet <- RedundantAlphabet
  Starts <- EmptyStart
  Grow = 6
CHECK_DEADLOCK FALSE
INVARIANTS
  SlotGivesBackAnyMoves
