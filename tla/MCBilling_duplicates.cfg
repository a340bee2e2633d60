SPECIFICATION Spec
CONSTANTS
  Customers = {c1}
  Plans = {go, pro}
  Free = free
  Payers = {k1, k2}
  Subs = {s1, s2}
  Requests = {r1, r2}
  Given = {free, go, pro}
  Ops = {"checkout", "admin"}
  Faults = {"lookup", "reorder", "duplicate"}
  MaxEvents = 2
  MaxSessions = 1
  None = None
SYMMETRY Same
INVARIANTS
  TypeOK
  OwnSubscription
  PlanExplained
  DriftExplained
CHECK_DEADLOCK FALSE
