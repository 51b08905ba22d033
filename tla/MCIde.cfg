CONSTANTS
  Blocks = {n1, n2}
  Super = n1
  Data = {d0, e}
  Eeee = e
  Typed = {"TESTIDEW", "TESTIDER"}
  ReadErrors = TRUE
  nil = nil
SPECIFICATION FairSpec
CHECK_DEADLOCK FALSE
INVARIANTS
  QueueExact
  DeviceServesHead
  ReturnsInSync
PROPERTY MainReturns
