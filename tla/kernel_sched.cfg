CONSTANTS
  NPages = 4
  PidMax = 4
  LowTables = 0
  HighVA = 2
  MemSize = 2
  Limit = 2
  Values = {0}
  Image <- EmptyImage
  NInit = 1
  MmapCalls = {}
  AllocCalls = {}
  UnmapCalls = {}
  KillCalls <- KillOthers
  SleepCalls = {1, 2}
SPECIFICATION FairSpec
PROPERTIES
  AwakeRuns
  SleeperWakes
CHECK_DEADLOCK FALSE
