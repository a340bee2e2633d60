SPECIFICATION ResetSpec
CONSTANTS
  Ids = {i1, i2}
  Names = {n1}
  Standard = {}
  Limit = 2
  Requests = {r1}
  Ops = {"create", "delete"}
  Faults = {"call"}
  NoId = NoId
  NoName = NoName
  Tokens = {t1, t2}
  Resets = {s1, s2}
  ResetFaults = {}
  NoToken = NoToken
  MaxUses = 3
SYMMETRY Symmetry
INVARIANTS
  UsedOnce
CHECK_DEADLOCK FALSE
