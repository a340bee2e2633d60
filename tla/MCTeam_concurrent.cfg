SPECIFICATION Spec
CONSTANTS
  Customers = {c1, c2, c3}
  Orgs = {o1}
  OrgOf <- OneOrg
  Domains = {d1}
  Requests = {r1, r2}
  Kinds = {"role", "remove", "invite", "terminate", "transfer", "create"}
  InputRoles = {"owner", "admin"}
  NoOne = NoOne
  NoDomain = NoDomain
  outsider = outsider
  home = home
  elsewhere = elsewhere
SYMMETRY Symmetry
INVARIANTS
  DomainOwnerExists
  OwnersGrantedByOwners
  IndInv
PROPERTIES
  OwnerLossOnlyOnStaleCount
  RemovalLosesOnlyNewcomers
CHECK_DEADLOCK FALSE
