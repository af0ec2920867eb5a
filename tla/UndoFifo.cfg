SPECIFICATION Spec
CONSTANTS
  BufSize = 7
  NumBufs = 4
  HeadSize = 2
  DataSizes = {0, 1}
  Reserve = 14
INVARIANTS EntriesIntact ScanFindsAll
