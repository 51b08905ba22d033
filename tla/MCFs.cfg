CONSTANTS
  NDIRECT = 1
  NINDIRECT = 1
  BSIZE = 2
  NDATA = 4
  NINODES = 4
  Names = {"x", "y"}
  Bytes = {a, b}
  RootEntries = 1
  MaxChunk = 2
  MaxCrashes = 1
  None = None
SPECIFICATION Spec
CHECK_DEADLOCK FALSE
SYMMETRY Symmetry
INVARIANTS
  BitmapCovers
  NoSharedBlock
  EntriesValid
  NoHoles
  DropLosesNothing
PROPERTY ImplementsFileStore
