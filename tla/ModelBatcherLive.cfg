SPECIFICATION FairSpec
CONSTANTS
  r1 = r1
  r2 = r2
  a1 = a1
  a2 = a2
  a3 = a3
  Requests = {r1,r2}
  Addresses = {a1,a2,a3}
  Mode = "ab_test"
  MaxBatch = 2
  MaxSwaps = 1
  MaxFaults = 1
INVARIANTS
  StrandedBySwap
PROPERTIES
  RunningOnesAnswer
CHECK_DEADLOCK FALSE
