CONSTANTS
  NBUF = 3
  Blocks = {n1, n2, n3, n4}
  NoBlock = NoBlock
  Data = {d0, d1}
  Zero = d0
  MaxHeld = 2
SPECIFICATION Spec
INVARIANTS
  Coherent
  Bookkeeping
  NeverOutOfBuffers
PROPERTY ImplementsBlockStore
