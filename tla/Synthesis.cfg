SPECIFICATION SynthesisSpec
CONSTANTS
  MeshNdim = 1
  NoDim = NoDim
  FreshName <- MCFreshName
  Programs <- MCPrograms
  InputNames <- MCInputNames
  InputSpecs <- MCInputSpecs
  MaxDepth = 3
  BeamWidth = 10
  MaxRewrites = 10
INVARIANTS
  SoundSynthesis
  MeaningKept
  CheapestOfAll
  NothingRemoved
  OptimizedIsRight
PROPERTY
  Ends
CHECK_DEADLOCK FALSE
