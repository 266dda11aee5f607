SPECIFICATION Spec
CONSTANTS
  MeshNdim = 2
  NoDim = NoDim
  Meshes <- MCMeshes
  Setups <- MCSetups
  Menu <- MCMenu
  MaxOps = 0
  MaxResets = 1
  FreeSizes = {1, 6}
INVARIANT RegisteredSlicesTile
CHECK_DEADLOCK FALSE
