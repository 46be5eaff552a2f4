\* Two submissions at a time over two proposals.
SPECIFICATION FabricSpec
CONSTANTS
  Absent = Absent
  Idle = Idle
  d1 = d1
  k1 = k1
  k2 = k2
  r1 = r1
  c1 = c1
  Org = {o1, o2}
  Did = {d1}
  Key = {k1, k2}
  RoleId = {r1}
  CredentialId = {}
  ProposalId = {p1, p2}
  Slot = {s1, s2}
  Action <- FabricActions
  Threshold = 2
  TTL = 0
  Skew = 1
  MaxTime = 1
  MaxAssets = 2
SYMMETRY FabricSymmetry
INVARIANTS
  FreshIsCurrent
PROPERTIES
  ImplementsLedger
CHECK_DEADLOCK FALSE
