SPECIFICATION Spec
CONSTANTS
  Manifests <- MCManifests
  Contents <- MCContents
  Empty = "empty"
  Sum <- MCSum
INVARIANTS
  ExitNonZeroOnMismatch
CHECK_DEADLOCK FALSE
