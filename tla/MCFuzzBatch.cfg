SPECIFICATION MCSpec
CONSTANTS
  Seeds   <- MCSeeds
  Indices <- MCIndices
  DRAWS = 10
  Batches <- MCHarnessBatches
  Fixed <- MCFixed
  WORD = 10007
  Stream <- MCStream
  Limit <- MCLimit
  LONG = 20
  BOUNDARY_LENS <- MCBoundary
  Pairs <- MCPairs
  Cases <- MCCases
  TRIGGER <- MCTrigger
INVARIANTS
  AllTyped
  NeverZero
  RunningIsOneShot
  DiffsAreReal
  WalksToItsSpans
  ReplaysAnywhere
PROPERTIES
  IsOneRun
CHECK_DEADLOCK FALSE
