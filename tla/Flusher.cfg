SPECIFICATION Spec
CONSTANTS
  None = None
  Inode = {i1, i2}
  Slave = {s1, s2}
  Client = {c1}
  SeqSpan = 16
  WorkMax = 1
  GroupLimit = 1
  MaxTries = 4
  Errors = TRUE
  Unmounts = TRUE
INVARIANTS GroupsExclusive UnmountDrains
VIEW RelView
SYMMETRY Symmetry
CHECK_DEADLOCK FALSE
