CONSTANTS
  WORD = 12
  KERNBASE = 6
  INTSIZE = 2
  STATSIZE = 2
  NARGV = 2
  Sizes = {2, 6}
  Nums = {0, 1, 4, 5, 8}
  Exceptions = {0}
  Stray = {12}
  MaxReads = 1
  MaxEvents = 2
SPECIFICATION FairSpec
INVARIANTS
  AckedWhenEnabled
  StackBounded
  TouchesInside
PROPERTIES
  ReturnsIntact
  SyscallEnds
  InterruptsServed
CHECK_DEADLOCK FALSE
