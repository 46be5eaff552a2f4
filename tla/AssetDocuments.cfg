SPECIFICATION DocSpec
CONSTANTS
  Absent = Absent
  Idle = Idle
  d1 = d1
  d2 = d2
  d3 = d3
  o1 = o1
  o2 = o2
  adm = adm
  aud = aud
  k1 = k1
  k2 = k2
  Org = {o1, o2}
  Did = {d1, d2, d3}
  Key = {k1, k2}
  RoleId = {adm, aud}
  CredentialId = {}
  ProposalId = {p1, p2}
  Action <- DocActions
  Threshold = 2
  TTL = 0
  Skew = 0
  MaxTime = 0
  MaxAssets = 1
  AdminRole = adm
  AuditorRole = aud
  PrimaryOrg = o1
  OrgAdmins <- Assignment
  GenesisExpiry = 1
  BirthKey <- BirthKeys
  File <- Uploads
  MaxUploads = 2
  Call = {c1, c2}
SYMMETRY DocSymmetry
CHECK_DEADLOCK FALSE
INVARIANTS
  ApprovalsAreAttributable
  QuorumNeedsAnotherOrg
  MintedDocumentsOpen
  DeliveredByGovernance
