SPECIFICATION intFairSpec
CONSTANTS
  Lines <- MCLines
  MaxEvents = 2
  EarlyKeys = TRUE
  MayFault = FALSE
PROPERTY
  KeyboardIsRead
CHECK_DEADLOCK FALSE
