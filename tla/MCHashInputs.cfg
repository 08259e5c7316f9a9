SPECIFICATION Spec
CONSTANTS
  FileLists <- MCFileLists
  Algos <- MCAlgos
INVARIANTS
  LogInOrder
  CompleteOnExit
  ExitTellsFailure
CHECK_DEADLOCK FALSE
