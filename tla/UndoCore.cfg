SPECIFICATION Spec
CONSTANTS
  b1 = b1
  b2 = b2
  st = st
  bm = bm
  Loc <- MCLoc
  VolLoc <- MCVolLoc
  OpSets <- PairOps
  Serialized <- MCLoc
  BlkMap = bm
  Val = {0, 1}
  Thread = {t1, t2}
  UndoSlots = 5
  UndoReserve = 0
  HistMax = 1
  DirtyLimit = 1
  WriteErrors = {}
  MaxPos = 12
  MaxOps = 2
  MaxTid = 3
  MaxCrash = 1
INVARIANTS UndoLogIntact CrashImageIsCommitted OperationsAtomic QuiescentClean
PROPERTIES MountRestoresBoundary
CHECK_DEADLOCK FALSE
SYMMETRY Symmetry
