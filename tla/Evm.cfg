SPECIFICATION EvmSpec
CONSTANTS
  Account = {2, 3, 4, 5}
  SafeAddress = 8
  SafeOwners <- InitialOwners
  SafeThreshold = 2
  Call <- AllCalls
  MaxNonce = 2
  MaxApprovals = 2
  Role = {admin}
  CredentialStatus = {}
  RegistryAddress = 9
  FirstAdmin <- FirstRole
  FirstExpiry = 1
  MaxTime = 2
  MaxTokens = 1
  Request = {q1, q2}
  Relayer = 7
  OwnerKeys <- KeysOfTwo
  MaxHeld = 2
  Executor = {3}
  RouteCall <- Routed
  AdminRole = admin
  Idle = Idle
  admin = admin
  Citizen = {2}
  Guardian = {3, 4}
  NewController = {5}
  Recovery = {w1}
  Voting = {v1, v2}
  MaxGuardians = 2
  None = None
INVARIANTS
  OwnersWellFormed
  RolesFollowHistory
  AnswersAreExecutions
  NoLoneGuardian
PROPERTIES
  ImplementsThresholdApproval
SYMMETRY EvmSymmetry
CHECK_DEADLOCK FALSE
