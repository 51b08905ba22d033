CONSTANTS
  NPAGES = 11
  PGSIZE = 2
  NPTE = 2
  NUPDE = 2
  NKPDE = 1
  WORD = 13
  MaxSegs = 2
SPECIFICATION FairSpec
INVARIANTS
  PageInv
  NoLeak
  Backed
  LoadFindsPages
  ImageComplete
PROPERTY ExecReturns
