SPECIFICATION Spec
CONSTANTS
  Mailboxes = {m1, m2}
  Lists = {l1}
  Captures = {b1}
  Rewrites = {w1}
  Requests = {r1, r2}
  Ops = {"add", "drop", "toggle", "catchall", "maintain"}
  Faults = {"call", "statement", "crash"}
  MaxBegins = 3
  NoBox = NoBox
  NoRule = NoRule
SYMMETRY Symmetry
INVARIANTS
  RebuiltInForce
CHECK_DEADLOCK FALSE
