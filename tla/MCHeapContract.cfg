SPECIFICATION khSpec
CONSTANTS
  Page = 8
  Bits = 8
  Start = 8
  InitialEnd = 32
  HeapMax = 40
  MinSize = 16
  Requests <- MCRequests
  MaxBlocks = 5
INVARIANT
  BlocksBelowEnd
CHECK_DEADLOCK FALSE
