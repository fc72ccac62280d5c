SPECIFICATION Spec
CONSTANTS
  v1 = v1
  r1 = r1
  m1 = m1
  Valid = {v1}
  Rejected = {r1}
  Malformed = {m1}
  Undecodable = {}
  BatchSize = 2
  FlushSize = 2
  PageSize = 1
  MaxLog = 3
  MaxFaults = 2
  MaxStops = 1
INVARIANTS
  TypeOK
  Accounted
  MalformedNeverLost
  RowsHeldOnce
  SnapshotsAreBacked
PROPERTIES
  CleanRunLosesOnlyInFlight
  RowsLeaveOnlyStored
  DeliverySpec
CHECK_DEADLOCK FALSE
