SPECIFICATION SliceSpec
CONSTANTS
  Kernels <- MCKernels
  Seeds <- MCSeeds
  Messages <- MCMessages
  MinLen <- MCMinLen
INVARIANTS
  SlicedIsByteLoop
  ReturnsByteFold
CHECK_DEADLOCK FALSE
