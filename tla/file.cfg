SPECIFICATION Spec
CHECK_DEADLOCK FALSE
CONSTANTS
  CbufSize = 2
  Kinds <- MCKinds
  Wants = {0, 1, 3}
  Texts <- MCTexts
  Offsets = {0, 3, 4, 5}
  ReadFaults = {"intr", "again", "other"}
  WriteFaults = {"intr", "other"}
  Retries = FALSE
  MaxSize = 6
INVARIANTS
 TypeOK
 CrashesBeyond
 KernelInStep
PROPERTIES
 ReadsAndWrites
 Returns
