SPECIFICATION FairSpec
CONSTANTS
  Inputs <- MCInputs
  Faults <- MCFaults
  ZERO = 0
  MAX_SHRINK_CALLS = 7
INVARIANTS
  BudgetKept
  LastByteIsNeeded
PROPERTIES
  IsMinimisation
  Returns
CHECK_DEADLOCK FALSE
