SPECIFICATION Spec
CONSTANTS
  b1 = b1
  b2 = b2
  st = st
  bm = bm
  Loc <- SmallLoc
  VolLoc <- MCVolLoc
  OpSets <- OneOps
  Serialized <- SmallLoc
  BlkMap = bm
  Val = {0}
  Thread = {t1}
  UndoSlots = 5
  UndoReserve = 0
  HistMax = 1
  DirtyLimit = 9
  WriteErrors = {}
  MaxPos = 12
  MaxOps = 5
  MaxTid = 2
  MaxCrash = 0
INVARIANTS FlushTid1Durable
CHECK_DEADLOCK FALSE
