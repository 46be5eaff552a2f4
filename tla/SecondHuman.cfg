SPECIFICATION ApiSpec
CONSTANTS
  Absent = Absent
  Idle = Idle
  d1 = d1
  d2 = d2
  d3 = d3
  o1 = o1
  o2 = o2
  r1 = r1
  k1 = k1
  Org = {o1, o2}
  Did = {d1, d2, d3}
  Key = {k1}
  RoleId = {r1}
  CredentialId = {}
  ProposalId = {p1, p2}
  Action <- ApiActions
  Threshold = 2
  TTL = 1
  Skew = 1
  MaxTime = 1
  MaxAssets = 0
  AdminRole = r1
  PrimaryOrg = o1
  OrgAdmins <- Assignment
  GenesisExpiry = 1
  BirthKey <- BirthKeys
  Call = {c1, c2}
SYMMETRY ApiSymmetry
CHECK_DEADLOCK FALSE
INVARIANTS
  SecondHumanRequired
