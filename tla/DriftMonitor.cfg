SPECIFICATION FairSpec
CONSTANTS
  Interval = 1
  LiveWindow = 1
  BaseWindow = 2
  Cooldown = 3
  Timeout = 2
  MaxModels = 3
  MaxFaults = 2
  NumBuckets = 4
  EpsInv = 3
  MaxValue = 3
  MaxRows = 5
INVARIANTS
  TypeOK
  MeasureSound
PROPERTIES
  ChecksGoOn
  DriftRetrains
