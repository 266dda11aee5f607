SPECIFICATION Spec
CONSTANTS
  MeshNdim = 1
  NoDim = NoDim
  FreshName <- MCFreshName
  mesh <- MCMesh
  DefaultOutput <- MCDefaultOutput
  Answers <- MCAnswers
  TensorStates <- MCTensorStates
  MaxIterations = 3
INVARIANT AcceptedIsSound
PROPERTY EndsWithNoneWasted
CHECK_DEADLOCK FALSE
