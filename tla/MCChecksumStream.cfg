SPECIFICATION Spec
CONSTANTS
  Inputs <- MCInputs
  CHUNK = 3
  Algos <- MCAlgos
INVARIANTS
  AnyChunking
PROPERTIES
  CallIsOneShot
CHECK_DEADLOCK FALSE
