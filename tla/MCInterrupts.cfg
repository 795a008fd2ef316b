SPECIFICATION intFairSpec
CONSTANTS
  Lines <- MCLines
  MaxEvents = 4
  EarlyKeys = FALSE
  MayFault = TRUE
INVARIANTS
  intTypeOK
  ServiceEndsBeforeHandler
  NeverNested
  ByteHasEdge
PROPERTY
  RequestsAreTaken
CHECK_DEADLOCK FALSE
