SPECIFICATION bufFairSpec
CONSTANTS
  k1 = k1
  k2 = k2
  k3 = k3
  NUL = NUL
  Keys <- MCKeys
  Size = 3
INVARIANTS
  bufTypeOK
  MaskedIffLocked
  NeverHandedNUL
PROPERTIES
  RefinesBoundedQueue
  FullBufferDrains
