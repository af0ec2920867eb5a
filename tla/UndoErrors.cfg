SPECIFICATION FairSpec
CONSTANTS
  b1 = b1
  b2 = b2
  st = st
  bm = bm
  Loc <- SmallLoc
  VolLoc <- MCVolLoc
  OpSets <- AllocOps
  Serialized <- SmallLoc
  BlkMap = bm
  Val = {0, 1}
  Thread = {t1}
  UndoSlots = 20
  UndoReserve = 0
  HistMax = 2
  DirtyLimit = 1
  WriteErrors = {"up"}
  MaxPos = 12
  MaxOps = 2
  MaxTid = 3
  MaxCrash = 2
INVARIANTS CrashImageIsCommitted FlushTid1Durable
PROPERTIES RecoveryTerminates FinalizeTerminates
CHECK_DEADLOCK FALSE
