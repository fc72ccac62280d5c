SPECIFICATION SpecRegistry
CONSTANTS
  m1 = m1
  m2 = m2
  m3 = m3
  m4 = m4
  m5 = m5
  m6 = m6
  Versions = {m1,m2,m3,m4,m5,m6}
  Aucs = {1, 2, 3}
  Pool = 3
  Serve = 2
  MaxRunning = 2
INVARIANTS
  PoolKeepsBest
  HistoricalBestServed
  ActiveBounded
SYMMETRY Symmetry
CHECK_DEADLOCK FALSE
