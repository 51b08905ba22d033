CONSTANTS
  NDIRECT = 1
  NINDIRECT = 1
  BSIZE = 2
  NDATA = 1
  NINODES = 4
  Names = {"x", "y"}
  Bytes = {a}
  RootEntries = 1
  MaxChunk = 2
  MaxCrashes = 0
  None = None
SPECIFICATION Spec
CHECK_DEADLOCK FALSE
INVARIANT WrittenIsStored
