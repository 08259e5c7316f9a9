SPECIFICATION FairSpec
CONSTANTS
  Manifests <- MCManifests
  Contents <- MCContents
  Empty = "empty"
  Sum <- MCSum
INVARIANTS
  LogInOrder
  EachPathReadOnce
  EveryEntryJudged
  ExitTellsMismatch
PROPERTIES
  Terminates
CHECK_DEADLOCK FALSE
