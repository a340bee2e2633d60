CONSTANTS
  id1 = id1
  id2 = id2
  c1 = c1
  c2 = c2
  NoId = NoId
  Ids = {id1, id2}
  Calls = {c1, c2}
  MaxOps = 2
  PageSet <- AllPages
SPECIFICATION Spec
SYMMETRY Symmetry
INVARIANTS
  LateAnswersOnly
  OwnFormSaved
  Converges
  RightTarget
  NoLockLeft
