SPECIFICATION conSpec
CONSTANTS
  COLS = 6
  ROWS = 2
  TabStop = 3
  BufLen = 4
  ByteSize = 4
  Messages <- MCMessages
  Names <- MCNames
  Rebooting <- MCRebooting
  MaxCalls = 2
  MaxInterrupts = 2
INVARIANTS
  conTypeOK
  CursorOnScreen
  ShowsText
  HardwareCursorFollows
PROPERTY
  HaltIsFinal
CHECK_DEADLOCK FALSE
