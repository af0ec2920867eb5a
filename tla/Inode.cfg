SPECIFICATION FairSpec
CONSTANTS
  NULL = NULL
  Inode = {1, 2, 3, 4}
  Root = 1
  Dirs = {1, 2}
  RecId = {1, 2, 3, 4}
  Names = {0, 1}
  MaxIter = 2
  Blocks = {0, 1}
  GroupLimit = 2
  Slaves = 2
  Proc <- MCProc
  Scenarios <- MCScenarios
CHECK_DEADLOCK FALSE
INVARIANTS  ViewExact DataExact MediaConsistent NothingLost
PROPERTIES ReaddirComplete EventuallySettled FsyncReturns FsyncReaches
