SPECIFICATION Spec
CONSTANTS
  Customers = {c1}
  Plans = {go, pro}
  Free = free
  Payers = {k1}
  Subs = {s1}
  Requests = {r1}
  Given = {free, go, pro}
  Ops = {"checkout", "admin"}
  Faults = {}
  MaxEvents = 2
  MaxSessions = 1
  None = None
INVARIANTS
  NotLeftPointing
CHECK_DEADLOCK FALSE
