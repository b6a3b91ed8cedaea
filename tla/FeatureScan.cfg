SPECIFICATION FairSpec
CONSTANTS
  Vector = 8
  First = 24
  Steps <- EightSteps
  Chunks <- StepChunks
INVARIANT TypeOK
INVARIANT ScanInv
INVARIANT ScanMatchesFeature
INVARIANT LayoutMatchesCode
INVARIANT EveryLaneGathered
INVARIANT EveryLaneAddedOnce
PROPERTY Termination
CHECK_DEADLOCK FALSE
