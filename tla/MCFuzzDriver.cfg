SPECIFICATION FairSpec
CONSTANTS
  Fuzzers = {"p1", "p2"}
  Plans <- MCPlans
  Faults <- MCFaults
  FIXED = 1
  MaxCases = 4
  MAX_RECORDED_DIVERGENCES = 2
  MAX_SHRINK_CALLS = 2
INVARIANTS
  StreamIsConsecutive
  CountIsExact
  FirstRecorded
  ExitTellsOutcome
PROPERTIES
  Ends
CHECK_DEADLOCK FALSE
