SPECIFICATION FairSpec
CONSTANTS
  Invites = {i1, i2}
  Emails = {e1}
  Inviters = {c1, c2}
  Orgs = {o1, o2}
  OrgOf <- InviterOrgs
  Requests = {r1, r2}
  NoInvite = NoInvite
  Nobody = Nobody
  Elsewhere = Elsewhere
  rival = c2
  home = o1
  other = o2
PROPERTIES
  IsOneTimeToken
  JoinNeedsInviter
  LiveNotSuperseded
  RequestsEnd
CHECK_DEADLOCK FALSE
