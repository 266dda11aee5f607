SPECIFICATION Spec
CONSTANTS
  MeshNdim = 1
  NoDim = NoDim
  Menu <- MCMenu
  Inputs = {"x", "w"}
  MaxOps = 3
  Size = 2
  InputValue <- MCInputValue
  PartialShare <- MCPartialShare
INVARIANTS
  IInv
  ReplayIsRun
  RenamedApart
  OutputsReplicate
  EquivalentIfRulesHold
CHECK_DEADLOCK FALSE
