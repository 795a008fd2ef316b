SPECIFICATION khSpec
CONSTANTS
  Page = 8
  Bits = 8
  Start = 8
  InitialEnd = 32
  HeapMax = 40
  MinSize = 16
  Requests <- MCRequests
  MaxBlocks = 5
INVARIANTS
  khTypeOK
  HeapIsTiled
  DataIsKept
PROPERTIES
  RefinesAllocator
  ExpandsOnce
CONSTRAINT
  Sound
CHECK_DEADLOCK FALSE
