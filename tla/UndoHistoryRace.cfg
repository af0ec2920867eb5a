SPECIFICATION Spec
CONSTANTS
  b1 = b1
  b2 = b2
  st = st
  bm = bm
  Loc <- MCLoc
  VolLoc <- MCVolLoc
  OpSets <- StatOps
  Serialized <- NoLoc
  BlkMap = bm
  Val = {0, 1}
  Thread = {t1, t2}
  UndoSlots = 6
  UndoReserve = 0
  HistMax = 2
  DirtyLimit = 1
  WriteErrors = {}
  MaxPos = 12
  MaxOps = 2
  MaxTid = 3
  MaxCrash = 0
INVARIANTS CrashImageIsCommitted
CHECK_DEADLOCK FALSE
