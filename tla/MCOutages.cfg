CONSTANTS
  d1 = d1
  d2 = d2
  e1 = e1
  e2 = e2
  m1 = m1
  m2 = m2
  i1 = i1
  i2 = i2
  w1 = w1
  w2 = w2
  b1 = b1
  b2 = b2
  n1 = n1
  n2 = n2
  c1 = c1
  Boxes = {b1, b2}
  Names = {n1, n2}
  Saves = {c1}
  None = None
  RetryDelays = 3
  Domains = {d1, d2}
  Edits = {e1, e2}
  Messages = {m1, m2}
  Isolates = {i1, i2}
  MaxRetries = 1
  MaxDeliveries = 2
  Runs = {w1, w2}
  RetryLimit = 2
  Parts = {"session", "list", "queue", "workflow", "context"}
SPECIFICATION Spec
CHECK_DEADLOCK FALSE
INVARIANTS
  SettledListIsStored
  AckedIsVerified
  SentAwayOnlyWhenRefused
  ContextIsStored
PROPERTIES
  ChecksEnd
  MessagesEnd
  WorkflowEnds
