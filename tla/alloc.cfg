SPECIFICATION Spec
CHECK_DEADLOCK FALSE
CONSTANTS
  Align = 2
  Size = 8
  Requests <- MCRequests
  Arrays <- MCArrays
  Bytes = {m, z, x}
  Marker = m
  Zero = z
  Outside = outside
  Strays <- MCStrays
  MaxTotal = 4
  MaxFail = 1
INVARIANTS
 TypeOK
 Tiles
 Coalesced
 MarkersIntact
 StatsCover
PROPERTIES
 OwnMemory
