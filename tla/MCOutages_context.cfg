CONSTANTS
  d1 = d1
  e1 = e1
  m1 = m1
  i1 = i1
  w1 = w1
  b1 = b1
  b2 = b2
  n1 = n1
  n2 = n2
  c1 = c1
  c2 = c2
  Boxes = {b1, b2}
  Names = {n1, n2}
  Saves = {c1, c2}
  None = None
  RetryDelays = 0
  Domains = {d1}
  Edits = {e1}
  Messages = {m1}
  Isolates = {i1}
  MaxRetries = 0
  MaxDeliveries = 1
  Runs = {w1}
  RetryLimit = 0
  Parts = {"context"}
SPECIFICATION Spec
SYMMETRY Symmetry
INVARIANT
  ContextIsStored
