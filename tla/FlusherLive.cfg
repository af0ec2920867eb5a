SPECIFICATION FairSpec
CONSTANTS
  None = None
  Inode = {i1, i2}
  Slave = {s1}
  Client = {c1}
  SeqSpan = 10
  WorkMax = 1
  GroupLimit = 0
  MaxTries = 4
  Errors = FALSE
  Unmounts = TRUE
INVARIANTS SyncFlushesQueued
PROPERTIES WaitReturns UnmountEnds
VIEW SeqView
CHECK_DEADLOCK FALSE
