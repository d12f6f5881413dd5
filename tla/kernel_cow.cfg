CONSTANTS
  NPages = 5
  PidMax = 4
  LowTables = 0
  HighVA = 3
  MemSize = 3
  Limit = 3
  Values = {0, 1}
  Image <- EmptyImage
  NInit = 1
  MmapCalls = {}
  AllocCalls = {1}
  UnmapCalls = {}
  KillCalls = {}
  SleepCalls = {}
SPECIFICATION Spec
INVARIANTS
  TypeOK
  NoPanic
  NoSharedWrites
  RefcountExact
PROPERTIES
  PrivateMemories
CHECK_DEADLOCK FALSE
