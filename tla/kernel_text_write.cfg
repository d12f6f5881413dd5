CONSTANTS
  NPages = 6
  PidMax = 3
  LowTables = 0
  HighVA = 3
  MemSize = 3
  Limit = 3
  Values = {0}
  Image <- TextImage
  NInit = 1
  MmapCalls = {}
  AllocCalls = {}
  UnmapCalls = {}
  KillCalls = {}
  SleepCalls = {}
SPECIFICATION Spec
INVARIANTS
  TextStaysReadOnly
CHECK_DEADLOCK FALSE
