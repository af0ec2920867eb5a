SPECIFICATION Spec
CONSTANTS
  NULL = NULL
  Node <- MCNode
  LEAF_ELMS = 4
  INT_ELMS = 3
  MaxKey = 9
  MaxTid = 5
  Proc = {"a", "b", "c"}
  Scenarios <- MCScenarios
INVARIANTS TreeOK NoPanic NoStaleNode ScanComplete
PROPERTIES PruneKeepsSnapshots Refines
