SPECIFICATION kbdSpec
CONSTANTS
  Keys <- QueuedKeys
  NUL = "NUL"
  Size = 2
  PhysKeys <- MCPhysKeys
  MaxWire = 2
INVARIANTS
  kbdTypeOK
  NoStuckModifier
  LedsFollowLocks
PROPERTY
  HandlerFeedsBuffer
