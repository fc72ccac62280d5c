SPECIFICATION Spec
CONSTANTS
  r1 = r1
  r2 = r2
  a1 = a1
  a2 = a2
  a3 = a3
  Requests = {r1,r2}
  Addresses = {a1,a2,a3}
  Mode = "shadow"
  MaxBatch = 1
  MaxSwaps = 2
  MaxFaults = 1
INVARIANTS
  TypeOK
  TableRuns
  InOnePlace
PROPERTIES
  ScoringSpec
SYMMETRY Symmetry
CHECK_DEADLOCK FALSE
