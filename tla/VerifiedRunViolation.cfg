SPECIFICATION Spec
CONSTANTS
  MeshNdim = 1
  NoDim = NoDim
  Menu <- MCLayerMenu
  Inputs = {"x", "w"}
  MaxOps = 3
  Size = 2
  InputValue <- MCInputValue
  PartialShare <- MCPartialShare
INVARIANTS
  ProvedEquivalent
CHECK_DEADLOCK FALSE
