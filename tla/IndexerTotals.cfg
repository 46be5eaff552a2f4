\* A feed that never overflows, and one restart.
SPECIFICATION IndexerSpec
CONSTANTS
  ProposalId = {p1}
  Effect <- SomeEffects
  None = None
  MaxEvents = 3
  MAX_CACHED_EVENTS = 1000
  MaxRestarts = 1
INVARIANTS
  TotalIsEverMinted
CHECK_DEADLOCK FALSE
