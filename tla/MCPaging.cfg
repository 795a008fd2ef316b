SPECIFICATION pgFairSpec
CONSTANTS
  PageUnits = 2
  TableSpan = 16
  Base = 2
  MarginPages = 7
  HeapStart = 27
  HeapMax = 34
  InitialPages = 4
  MinPages = 2
  NFrames = 25
  ClearedBits = 17
  FrameDivisor = 16
  WildPages = 15
  HeapShrinks = TRUE
INVARIANTS
  pgTypeOK
  IdentityMapped
  OnlyLowFramesShared
  ExhaustionPanics
  FaultsOnlyWhenExhausted
PROPERTY
  BootEnds
CHECK_DEADLOCK FALSE
