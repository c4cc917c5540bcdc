SPECIFICATION Spec
CONSTANTS
  Bits = 8
  MaxOffset = 100
  Inputs <- MCInputs
  Colorings <- MCColorings
  MaxSize = 4
  BufferSize = 2
  BufferDegree = 3
  MaxSamples = 1
INVARIANTS
  PipelineIsExact
  MassIsCount
  OccurrenceIsCopy
CHECK_DEADLOCK FALSE
