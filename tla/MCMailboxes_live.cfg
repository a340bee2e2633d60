SPECIFICATION FairSpec
CONSTANTS
  Ids = {i1, i2}
  Names = {n1}
  Standard = {n1}
  Limit = 2
  Requests = {r1, r2}
  Ops = {"create", "delete", "suspend", "activate", "password", "repair", "expiration"}
  Faults = {"call", "answer", "record", "crash"}
  NoId = NoId
  NoName = NoName
INVARIANTS
  IndInv
  InStep
  LostOnlyByDeletion
PROPERTIES
  ExpiredDealtWith
CHECK_DEADLOCK FALSE
