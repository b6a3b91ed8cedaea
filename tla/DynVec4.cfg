SPECIFICATION Spec
CONSTANTS
  Vector = 4
  NumChunks = 4
  DataType = "double"
  RowShapes <- Rows4
  ColumnShapes <- Columns4
  TailRow <- TailRowZero
  TailColumn <- TailColumnTwo
  Key <- Keys
  NoKey = NoKey
  HashOf <- IdealHash
INVARIANT TypeOK
INVARIANT StreamsInStep
INVARIANT StreamsConsumed
PROPERTY AddsEveryElementOnce
CHECK_DEADLOCK FALSE
