SPECIFICATION Spec
CONSTANTS
  Name <- Names
  Given <- Starts
  Loose <- LooseTokens
  Free = 7
CHECK_DEADLOCK FALSE
INVARIANT ParserInv
INVARIANT HandsOver
INVARIANT TreeIsText
INVARIANT SetsMatchTree
