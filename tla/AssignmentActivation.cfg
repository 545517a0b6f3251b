SPECIFICATION AvailableSpec
CONSTANTS
  d1 = d1
  d2 = d2
  d3 = d3
  d4 = d4
  d5 = d5
  None = None
  Loaders = {"daemon", "cli"}
  Digests = {d1, d3, d5}
  Adapters <- MCAdapters
  AdaptersOf <- MCAdaptersOf
  ExpiresAt <- MCExpiresAt
  Rollback <- MCRollback
  Invalid <- MCInvalid
  Duplicated <- MCDuplicated
  Bootstrap = {}
  MaxVersion = 2
  MaxTime = 1
  MaxRestarts = 1
INVARIANTS
  ActsOnVerified
PROPERTIES
  RevokedStaysOut
  NoDowngrade
  NewestIsActivated
  ServedAssignmentIsUsed
