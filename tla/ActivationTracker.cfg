SPECIFICATION TrackerSpec
CONSTANTS
  StageCounts = {1, 2, 3, 4}
  MicrobatchCounts = {0, 1, 2, 3, 4, 5, 6}
INVARIANTS
  TrackerInv
  FullSchedule
  ActivationsLive
  ActivationWindow
PROPERTIES
  ImplementsPipeline
  WalkCompletes
CHECK_DEADLOCK FALSE
