\* Governance over one role and two assets: three proposals of two organizations.
\* A transaction may commit one tick after its stamp.
SPECIFICATION LedgerSpec
CONSTANTS
  Absent = Absent
  d1 = d1
  d2 = d2
  r1 = r1
  Org = {o1, o2}
  Did = {d1, d2}
  Key = {}
  RoleId = {r1}
  CredentialId = {}
  ProposalId = {p1, p2, p3}
  Action <- GovernanceActions
  Threshold = 2
  TTL = 0
  Skew = 1
  MaxTime = 2
  MaxAssets = 2
SYMMETRY Symmetry
INVARIANTS
  TypeOK
  ExecutedHadQuorum
  ActiveRoleWasGranted
  RegistriesInStep
  MintsMatchCounter
  CustodyBalances
PROPERTIES
  WritesAreGoverned
  SettledIsFinal
  ActivationIsGoverned
  ImplementsThresholdApproval
CHECK_DEADLOCK FALSE
