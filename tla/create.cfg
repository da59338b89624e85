SPECIFICATION FairSpec
CONSTANTS
  p1 = p1
  i1 = i1
  i2 = i2
  i3 = i3
  i4 = i4
  i5 = i5
  Process = {p1}
  Inode = {i1, i2, i3, i4, i5}
  NoInode = NoInode
  MaxKills = 2
  MaxSolutions = 2
CHECK_DEADLOCK FALSE
INVARIANTS
  DatabaseWhole
PROPERTIES
  CreatedAtLast
