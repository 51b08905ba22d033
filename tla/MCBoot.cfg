CONSTANTS
  SECTSIZE = 2
  ELF = 0
  ELFSIZE = 4
  MEM = 14
  Images <- SmallImages
SPECIFICATION Spec
INVARIANTS
  KernelLoaded
CHECK_DEADLOCK FALSE
