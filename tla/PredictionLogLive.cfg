SPECIFICATION FairSpec
CONSTANTS
  q1 = q1
  l1 = l1
  a = a
  Requests = {q1}
  Models = {a}
  Labellers = {l1}
  Txns = {1, 2}
  Refused = {}
  MinDelay = 0
  MaxDelay = 1
  Limit = 1
  MaxNow = 3
  MaxFaults = 1
PROPERTIES
  EveryTransactionLabelled
  TallyCatchesUp
CHECK_DEADLOCK FALSE
