SPECIFICATION FairSpec
CONSTANTS
  Vector = 8
  NumChunks = 3
  DataType = "float"
  RowShapes <- Rows8
  ColumnShapes <- Columns8
  TailRow <- TailRowZero
  TailColumn <- TailColumnTwo
  Key <- Keys
  NoKey = NoKey
  HashOf <- IdealHash
INVARIANT SumInv
INVARIANT StreamsFit
INVARIANT ResultCorrect
PROPERTY Termination
CHECK_DEADLOCK FALSE
