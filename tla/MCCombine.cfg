SPECIFICATION CombineSpec
CONSTANTS
  Names <- FoldedCrcs
  FirstParts <- MCFirstParts
  LastParts <- MCLastParts
INVARIANTS
  SplitIdentity
  CombinedIsConcatenation
CHECK_DEADLOCK FALSE
