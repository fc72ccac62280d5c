SPECIFICATION Spec
CONSTANTS
  q1 = q1
  q2 = q2
  l1 = l1
  l2 = l2
  a = a
  Requests = {q1, q2}
  Models = {a}
  Labellers = {l1, l2}
  Txns = {1, 2}
  Refused = {2}
  MinDelay = 0
  MaxDelay = 1
  Limit = 1
  MaxNow = 2
  MaxFaults = 1
INVARIANTS
  TypeOK
  AnsweredIsLogged
  FlaggedIsExplained
  ConfirmedHasLabel
  TallyIsBacked
PROPERTIES
  LabelsStable
SYMMETRY Symmetry
CHECK_DEADLOCK FALSE
