SPECIFICATION Spec
CONSTANTS
  Menu <- MCAll
  MaxOps = 4
  Handles = {"h1", "h2"}
  NoHandle = NoHandle
  DEFAULT_STREAM = "default"
  COMPUTE_STREAM = "compute"
INVARIANTS
  IInv
  ConstraintsSatisfiable
  InOrder
  NothingLeftInFlight
CHECK_DEADLOCK FALSE
