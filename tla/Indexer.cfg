\* Five events of two proposals and of registrations through a feed of four,
\* two process restarts, any disconnection.
SPECIFICATION IndexerSpec
CONSTANTS
  ProposalId = {p1, p2}
  Effect <- SomeEffects
  None = None
  MaxEvents = 5
  MAX_CACHED_EVENTS = 4
  MaxRestarts = 2
INVARIANTS
  FeedIsGapless
  StatsFollowLedger
PROPERTIES
  EverythingIsIndexed
CHECK_DEADLOCK FALSE
