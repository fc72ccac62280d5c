SPECIFICATION FairSpec
CONSTANTS
  m1 = m1
  m2 = m2
  m3 = m3
  w1 = w1
  Versions = {m1,m2,m3}
  Aucs = {1, 2, 3}
  Pool = 2
  Serve = 2
  MaxRunning = 2
  Workers = {w1}
  Callers = {"startup", "poll", "admin"}
  Unloadable = {m1}
  MaxFaults = 2
INVARIANTS
  TypeOK
  AlwaysServes
PROPERTIES
  SwapsKeepBest
  FailureShown
  ServesBest
CHECK_DEADLOCK FALSE
