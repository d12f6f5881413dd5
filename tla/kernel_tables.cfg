CONSTANTS
  NPages = 8
  PidMax = 3
  LowTables = 1
  HighVA = 2
  MemSize = 4
  Limit = 6
  Values = {0, 1}
  Image <- EmptyImage
  NInit = 1
  MmapCalls <- TableMmaps
  AllocCalls = {}
  UnmapCalls <- TableUnmaps
  KillCalls <- KillOthers
  SleepCalls = {}
SPECIFICATION Spec
INVARIANTS
  RefcountExact
  RunsLiveProcess
PROPERTIES
  PrivateMemories
CHECK_DEADLOCK FALSE
