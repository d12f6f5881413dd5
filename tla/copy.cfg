SPECIFICATION Spec
CHECK_DEADLOCK FALSE
CONSTANTS
  CbufSize = 2
  Runs <- MCRuns
  ReadFaults = {"intr", "again"}
  WriteFaults = {"intr"}
  MaxSize = 9
INVARIANTS
 
 NoAssertFails
 FlushedInStep
PROPERTIES
 Ends
