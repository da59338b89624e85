SPECIFICATION SpecShm
CONSTANTS
  e1 = e1
  e2 = e2
  c1 = c1
  s1 = s1
  s2 = s2
  s3 = s3
  s4 = s4
  b1 = b1
  b2 = b2
  b3 = b3
  Ecoset = {e1, e2}
  Create = {c1}
  Segment = {s1, s2, s3, s4}
  Block = {b1, b2, b3}
  NoSegment = NoSegment
  MaxKilled = 2
INVARIANTS
  UsersSeeFull
