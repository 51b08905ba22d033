CONSTANTS
  MAX_COLS = 2
  MAX_ROWS = 2
  BYTE = 3
  Keys = {"j", "k"}
  CLS <- MCCLS
  PAGE <- MCPAGE
  END <- MCEND
  Chars <- MCChars
  Messages <- MCMessages
  MaxLine = 3
  MaxKeys = 3
SPECIFICATION Spec
CHECK_DEADLOCK FALSE
INVARIANTS
  EchoMatches
  OnlyTornLosesCursor
PROPERTY CursorRecovers
