SPECIFICATION Spec
CONSTANTS
  MeshNdim = 1
  NoDim = NoDim
  Inputs = {"x", "w"}
  InputTensors <- MCInputTensors
  Menu <- MCMenu
  MaxOps = 3
  MaxGenerations = 2
INVARIANTS
  ChainRule
  DualsFound
  SendsFirst
  GradientsPlaced
CHECK_DEADLOCK FALSE
