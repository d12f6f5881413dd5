CONSTANTS
  Threads = {1, 2}
  Nobody = Nobody
  NChunks = 2
  MinChunk = 4
  NAccounts = 3
  ASize = 4
  PerWindow = 2
  NOps = 2
  Distinguished = {1}
  NOurs = 2
  Amounts = {1, 2}
  MaxBalance = 2
  Opening <- Unequal
SPECIFICATION FairSpec
INVARIANTS
  TypeOK
  LedgerCovered
  Reconciles
PROPERTIES
  Serializable
  Finishes
CHECK_DEADLOCK FALSE
