\* Two guardians in up to two rows, overlapping calls, failures at every await.
SPECIFICATION RecoverySpec
CONSTANTS
  Absent = Absent
  Idle = Idle
  Unsent = Unsent
  d1 = d1
  k1 = k1
  k2 = k2
  r1 = r1
  o1 = o1
  o2 = o2
  Org = {o1, o2}
  Did = {d1}
  Key = {k1, k2}
  RoleId = {}
  CredentialId = {}
  ProposalId = {p1, p2}
  Action <- Rotations
  Threshold = 2
  TTL = 0
  Skew = 0
  MaxTime = 0
  MaxAssets = 0
  Guardian = {g1, g2}
  Request = {q1}
  Call = {c1, c2}
  BirthKey <- BirthKeys
  OrgKeys <- OrgOrder
  MaxRows = 2
SYMMETRY RecoverySymmetry
INVARIANTS
  RebindHadVotes
  ExecutedRequestRebound
  ProposerVoteIsKept
  OwnerWasWarned
PROPERTIES
  ClosedStaysClosed
CHECK_DEADLOCK FALSE
