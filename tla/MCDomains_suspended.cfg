SPECIFICATION Spec
CONSTANTS
  Ids = {i1, i2}
  Names = {n1}
  Boxes = {b1}
  Limit = 2
  Requests = {r1}
  Ops = {"create", "delete", "check", "deactivate", "reactivate", "mailbox", "repair", "verify"}
  Faults = {"call", "answer", "record", "crash"}
  NoId = NoId
  NoName = NoName
PROPERTIES
  SuspendedUntilReactivated
CHECK_DEADLOCK FALSE
