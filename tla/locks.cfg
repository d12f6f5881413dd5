CONSTANTS
  Threads = {1, 2, 3}
  NChunks = 4
  MinChunk = 2
  Size = 9
  Locks <- MixedLocks
  Nobody = Nobody
SPECIFICATION Spec
INVARIANTS
  NoAbort
  CountsMatch
  NoLostWakeup
PROPERTIES
  LocksRegions
CHECK_DEADLOCK FALSE
