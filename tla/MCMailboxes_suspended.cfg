SPECIFICATION Spec
CONSTANTS
  Ids = {i1, i2}
  Names = {n1}
  Standard = {}
  Limit = 2
  Requests = {r1}
  Ops = {"create", "suspend", "password"}
  Faults = {}
  NoId = NoId
  NoName = NoName
INVARIANTS
  SuspendedIsBlocked
CHECK_DEADLOCK FALSE
