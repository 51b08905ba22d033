CONSTANTS
  NINODE = 4
  NFILE = 3
  NOFILE = 2
  NINODES = 5
  MAXSIZE = 5
  MaxChunk = 1
  MaxCount = 2
  MaxOffset = 2
  Image <- MCImage
  RootSize = 3
  Paths <- MCPaths
  Modes <- FewModes
  Devices = {"T_DEV"}
  Calls = {"open", "mknod", "exec", "close"}
  nil = nil
SPECIFICATION Spec
INVARIANTS
  RefsExact
  OneEntryPerInode
  OpensWhatPathDenotes
  NoWildPointer
