SPECIFICATION Spec
CONSTANTS
  Ids = {i1, i2}
  Names = {n1}
  Standard = {}
  Limit = 2
  Requests = {r1, r2}
  Ops = {"create", "expiration"}
  Faults = {}
  NoId = NoId
  NoName = NoName
PROPERTIES
  SweepSparesOthers
CHECK_DEADLOCK FALSE
