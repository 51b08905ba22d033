CONSTANTS
  NDIRECT = 1
  NINDIRECT = 2
  BSIZE = 3
  NDATA = 10
  NINODES = 5
  Names = {"x", "y", "z"}
  None = None
  Name <- NameOf
  MaxFiles = 3
  MaxLen = 10
SPECIFICATION Spec
INVARIANTS
  ImageConsistent
  ImageHoldsFiles
  EmptyImageIsInit
CHECK_DEADLOCK FALSE
