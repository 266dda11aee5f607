SPECIFICATION Spec
CONSTANTS
  MeshNdim = 2
  NoDim = NoDim
  Meshes <- MCMeshes
  Setups <- MCSetups
  Menu <- MCMenu
  MaxOps = 2
  MaxResets = 1
  FreeSizes = {1, 6}
INVARIANTS
  ExecutorTypeOK
  DevicesAgree
  QuietRunsAgree
  MovesByMessagesOnly
  RingMeetsAll
  SlicesTile
  ShapesAsRun
CHECK_DEADLOCK FALSE
