CONSTANTS
  NPages = 8
  PidMax = 2
  LowTables = 0
  HighVA = 5
  MemSize = 5
  Limit = 6
  Values = {0}
  Image <- TextImage
  NInit = 1
  MmapCalls <- HalfMmaps
  AllocCalls = {2}
  UnmapCalls = {}
  KillCalls = {}
  SleepCalls = {}
SPECIFICATION Spec
PROPERTIES
  MmapTakesHoles
CHECK_DEADLOCK FALSE
