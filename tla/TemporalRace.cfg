SPECIFICATION Spec
CONSTANTS
  Menu <- MCAll
  MaxOps = 4
  Handles = {"h1", "h2"}
  NoHandle = NoHandle
  DEFAULT_STREAM = "default"
  COMPUTE_STREAM = "compute"
INVARIANT RacesAreFound
CHECK_DEADLOCK FALSE
