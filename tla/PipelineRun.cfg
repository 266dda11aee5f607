SPECIFICATION FairSpec
CONSTANTS
  Stages = {0, 1, 2}
  Links <- MCLinks
  MaxCalls = 6
INVARIANTS
  IInv
  SearchIsRight
  NoDeadlock
PROPERTY RunsToEnd
CHECK_DEADLOCK FALSE
