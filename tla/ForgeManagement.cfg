SPECIFICATION MCSpec
CONSTANTS
  w1 = w1
  w2 = w2
  t1 = t1
  t2 = t2
  k1 = k1
  k2 = k2
  b1 = b1
  c1 = c1
  c2 = c2
  None = None
  Workers = {w1, w2}
  Tokens = {t1, t2}
  Kliqs = {k1, k2}
  Builds = {b1}
  Scopes = {"s1", "s2"}
  Principals = {"alice", "bob"}
  ScopeOf <- MCScopeOf
  TokenScope <- MCTokenScope
  May <- MCMay
  Manifest <- MCManifest
  MaxVersion = 2
  Node = k1
  Loaders = {"daemon"}
  Adapters = {"ad1"}
  AdaptersOf <- MCAdaptersOf
  ExpiresAt <- MCExpiresAt
  Rollback <- MCRollback
  Invalid = {}
  Duplicated = {}
  Bootstrap = {}
  MaxTime = 0
  MaxRestarts = 1
  Keys = {key1, key2, key3}
  Materials <- MCMaterials
  Expiries = {0, 1}
  TrustCalls = {c1, c2}
  Offer <- MCOffer
  Absent = Absent
  Unset = Unset
  Durations <- MCDurations
  Projects <- MCProjects
SYMMETRY MCSymmetry
INVARIANTS
  TokenAdmitsOnce
  ActsOnApproved
  OneSuccessor
  ManifestIsComplete
  
  FilesMatchManifests
  PassedMeansEnforced
PROPERTIES
  RevocationIsFinal
  VersionsGrowByOne
  ImplementsActivation
  TrustOnlyShrinks
