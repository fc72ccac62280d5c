SPECIFICATION FairSpec
CONSTANTS
  v1 = v1
  r1 = r1
  Valid = {v1}
  Rejected = {r1}
  Malformed = {}
  Undecodable = {}
  BatchSize = 2
  FlushSize = 2
  PageSize = 1
  MaxLog = 2
  MaxFaults = 0
  MaxStops = 0
PROPERTIES
  ValidSettles
CHECK_DEADLOCK FALSE
