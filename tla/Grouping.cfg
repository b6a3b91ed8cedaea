SPECIFICATION Spec
CONSTANTS
  NumChunks = 5
  Key = {k1, k2}
  Local = {y1, y2}
  NoKey = NoKey
INVARIANT TypeOK
INVARIANT GroupsIncreasing
INVARIANT ExactlyOnce
INVARIANT RangesAreRuns
INVARIANT MatchesReference
CHECK_DEADLOCK FALSE
