SPECIFICATION FullSpec
CONSTANTS
  StageCounts = {1, 2, 3, 4, 5}
  MicrobatchCounts = {0, 1, 2, 3, 4}
INVARIANTS
  FullIfFilled
  ForwardFirst
CHECK_DEADLOCK FALSE
