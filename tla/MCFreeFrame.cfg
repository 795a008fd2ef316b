SPECIFICATION pgSpec
CONSTANTS
  PageUnits = 2
  TableSpan = 16
  Base = 2
  MarginPages = 7
  HeapStart = 24
  HeapMax = 34
  InitialPages = 4
  MinPages = 2
  NFrames = 28
  ClearedBits = 28
  FrameDivisor = 16
  WildPages = 15
  HeapShrinks = TRUE
INVARIANT
  NoFrameShared
CHECK_DEADLOCK FALSE
