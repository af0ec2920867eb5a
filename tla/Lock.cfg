SPECIFICATION FairSpec
CONSTANTS
  Thread = {t1, t2, t3, t4}
  Handle = {h1, h2}
  NULL = NULL
  MaxDepth = 2
INVARIANTS Exclusion NoLostWakeup NoSelfWait
PROPERTIES SharedWaiterWakes
