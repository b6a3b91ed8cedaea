SPECIFICATION FairSpec
CONSTANTS
  Vector = 8
  NumChunks = 2
  DataType = "double"
  RowShapes <- CollidingRows
  ColumnShapes <- CollidingColumns
  TailRow <- NoTail
  TailColumn <- NoTail
  Key <- Keys
  NoKey = NoKey
  HashOf <- RealHash
INVARIANT ResultCorrect
CHECK_DEADLOCK FALSE
