SPECIFICATION ResetSpec
CONSTANTS
  Ids = {i1, i2, i3}
  Names = {n1, n2, n3}
  Standard = {}
  Limit = 1
  Requests = {r1, r2}
  Ops = {"create", "delete"}
  Faults = {}
  NoId = NoId
  NoName = NoName
  Tokens = {t1}
  Resets = {s1, s2}
  ResetFaults = {"call", "answer", "record"}
  NoToken = NoToken
  MaxUses = 3
SYMMETRY Symmetry
INVARIANTS
  ResetInv
  RacedUses
  PlanOvershoot
PROPERTIES
  OwnPasswordOrNewer
CHECK_DEADLOCK FALSE
