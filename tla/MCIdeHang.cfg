CONSTANTS
  Blocks = {n1, n2}
  Super = n1
  Data = {d0, e}
  Eeee = e
  Typed = {"TESTIDEW", "TESTIDER"}
  ReadErrors = FALSE
  nil = nil
SPECIFICATION FairSpec
CHECK_DEADLOCK FALSE
PROPERTY KeyboardReturns
