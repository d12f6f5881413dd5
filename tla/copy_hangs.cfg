SPECIFICATION Spec
CHECK_DEADLOCK FALSE
CONSTANTS
  CbufSize = 2
  Runs <- MCCarefulRuns
  ReadFaults = {"intr", "again"}
  WriteFaults = {"intr"}
  MaxSize = 9
PROPERTIES
 Ends
