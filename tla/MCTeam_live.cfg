SPECIFICATION FairSpec
CONSTANTS
  Customers = {c1, c2, c3}
  Orgs = {o1, o2}
  OrgOf <- TwoOrgs
  Domains = {d1, d2}
  Requests = {r1, r2}
  Kinds = {"remove", "terminate", "transfer"}
  InputRoles = {"owner"}
  NoOne = NoOne
  NoDomain = NoDomain
  outsider = c3
  home = o1
  elsewhere = o2
PROPERTIES
  RequestsEnd
  OthersLeftAlone
CHECK_DEADLOCK FALSE
