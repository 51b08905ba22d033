CONSTANTS
  NINODE = 3
  NFILE = 3
  NOFILE = 2
  NINODES = 3
  MAXSIZE = 3
  MaxChunk = 1
  MaxCount = 2
  MaxOffset = 2
  Image <- NoImage
  RootSize = 2
  Paths <- FewPaths
  Modes <- AllModes
  Devices = {"T_DEV", "T_CONSOLE"}
  Calls = {"open", "mknod", "exec", "read", "write", "close", "exit"}
  nil = nil
SPECIFICATION FairSpec
INVARIANTS
  DescriptorsValid
PROPERTIES
  ImplementsFdTable
  CallsReturn
CHECK_DEADLOCK FALSE
