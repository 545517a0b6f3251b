SPECIFICATION FairSpec
CONSTANTS
  None = None
  e1 = e1
  e2 = e2
  m1 = m1
  m2 = m2
  Entities <- MCEntities
  Metrics <- MCMetrics
  Values <- MCValues
  Registered <- MCRegistered
  Nodes <- MCNodes
  MinSamples = 2
  MaxAge = 1
  MaxTime = 2
  MaxVersions = 2
  MaxApprovals = 2
  MaxRestarts = 1
INVARIANTS
  ActsUnderAuthority
  DerivedActionRestsOnApproval
  JournalMatchesEffects
  OneApprovedBaseline
PROPERTIES
  FrozenUntilDecided
  EveryDecisionIsTaken
CHECK_DEADLOCK FALSE
