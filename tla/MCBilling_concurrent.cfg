SPECIFICATION Spec
CONSTANTS
  Customers = {c1, c2}
  Plans = {go, pro}
  Free = free
  Payers = {k1, k2}
  Subs = {s1, s2}
  Requests = {r1, r2}
  Given = {free, go}
  Ops = {"checkout", "admin"}
  Faults = {"answer", "record", "reorder"}
  MaxEvents = 2
  MaxSessions = 1
  None = None
SYMMETRY Same
INVARIANTS
  IndInv
  OwnSubscription
  PlanExplained
  DriftExplained
CHECK_DEADLOCK FALSE
