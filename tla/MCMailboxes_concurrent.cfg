SPECIFICATION Spec
CONSTANTS
  Ids = {i1, i2, i3, i4}
  Names = {n1, n2, n3, n4}
  Standard = {n4}
  Limit = 1
  Requests = {r1, r2}
  Ops = {"create", "delete", "repair"}
  Faults = {"call", "answer", "record"}
  NoId = NoId
  NoName = NoName
SYMMETRY Symmetry
INVARIANTS
  IndInv
  LostOnlyByDeletion
  PlanOvershoot
CHECK_DEADLOCK FALSE
