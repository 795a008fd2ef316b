SPECIFICATION shFairSpec
CONSTANTS
  Keys <- MCKeys
  NUL = "NUL"
  Size = 2
  CliSize = 3
  HaltLine <- MCHaltLine
  GuiLine <- MCGuiLine
INVARIANT
  shTypeOK
PROPERTIES
  RefinesTerminal
  EnterIsRun
CHECK_DEADLOCK FALSE
