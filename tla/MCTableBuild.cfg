SPECIFICATION BuildSpec
CONSTANTS
  Builders <- MCBuilders
INVARIANTS
  TwoRegistersAreOne
  RowsAreRows
  TranscribedIsComputed
CHECK_DEADLOCK FALSE
