SPECIFICATION FairSpec
CONSTANTS
  Vector = 8
  NumChunks = 1
  DataType = "double"
  RowShapes <- Rows8
  ColumnShapes <- Columns8
  TailRow <- NoTail
  TailColumn <- NoTail
  Key <- Keys
  NoKey = NoKey
  HashOf <- IdealHash
INVARIANT NoExit
CHECK_DEADLOCK FALSE
