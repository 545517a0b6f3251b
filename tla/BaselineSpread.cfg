SPECIFICATION FairSpec
CONSTANTS
  None = None
  e1 = e1
  e2 = e2
  m1 = m1
  m2 = m2
  Entities <- MCEntities
  Metrics <- MCMetrics
  Values <- MCSpreadValues
  Registered <- MCRegistered
  Nodes <- MCSpreadNodes
  MinSamples = 5
  MaxAge = 1
  MaxTime = 2
  MaxVersions = 2
  MaxApprovals = 2
  MaxRestarts = 1
INVARIANT
  SpreadIsMAD
CHECK_DEADLOCK FALSE
