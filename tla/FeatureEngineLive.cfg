SPECIFICATION FairSpec
CONSTANTS
  v1 = v1
  m1 = m1
  Valid = {v1}
  Rejected = {}
  Malformed = {m1}
  Undecodable = {}
  BatchSize = 2
  FlushSize = 2
  PageSize = 1
  MaxLog = 2
  MaxFaults = 2
  MaxStops = 1
PROPERTIES
  EverythingSettles
CHECK_DEADLOCK FALSE
