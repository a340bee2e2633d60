SPECIFICATION Spec
CONSTANTS
  Customers = {c1, c2, c3}
  Orgs = {o1}
  OrgOf <- OneOrg
  Domains = {d1}
  Requests = {r1, r2}
  Kinds = {"remove", "create"}
  InputRoles = {"owner", "admin"}
  NoOne = NoOne
  NoDomain = NoDomain
  outsider = outsider
  home = home
  elsewhere = elsewhere
PROPERTIES
  RemovalKeepsDomains
CHECK_DEADLOCK FALSE
