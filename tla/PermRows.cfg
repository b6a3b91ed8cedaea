SPECIFICATION Spec
CONSTANTS
  Builds <- AllBuilds
  First = 16
  Step = 32
  Nnz = 64
  Garbage <- GarbageRows
  End = End
  Unset = Unset
INVARIANT EveryCheckPasses
