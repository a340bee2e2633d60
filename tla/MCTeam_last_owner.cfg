SPECIFICATION Spec
CONSTANTS
  Customers = {c1, c2, c3}
  Orgs = {o1}
  OrgOf <- OneOrg
  Domains = {d1}
  Requests = {r1, r2}
  Kinds = {"role"}
  InputRoles = {"owner", "admin"}
  NoOne = NoOne
  NoDomain = NoDomain
  outsider = outsider
  home = home
  elsewhere = elsewhere
INVARIANTS
  OrganizationKeepsOwner
CHECK_DEADLOCK FALSE
