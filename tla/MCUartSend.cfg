CONSTANTS
  Depth = 2
  Char <- MCChar
  Newline = 2
  Return = 3
  PutChars = {1, 2}
  Size = 3
  InTime = TRUE
SPECIFICATION FairSpec
INVARIANTS AccessOnce ThreHonest PutcComplete
PROPERTIES TxInOrder PutcReturns BufferDrained
