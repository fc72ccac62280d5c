SPECIFICATION Spec
CONSTANTS
  r1 = r1
  r2 = r2
  Payloads <- TwoPayloads
  Requests = {r1, r2}
  Hour = 1
  Day = 2
  Travel = 1
  Grace = 1
  FeatureTTL = 4
  CacheTTL = 2
  Ahead = 1
  Lag = 1
  Bounds <- ThreeInstances
INVARIANTS
  TypeOK
  SnapshotsExact
  CountsOthersOnce
  StaleAtMost
SYMMETRY Symmetry
CHECK_DEADLOCK FALSE
