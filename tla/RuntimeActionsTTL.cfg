SPECIFICATION Spec
CONSTANTS
  a1 = a1
  a2 = a2
  a3 = a3
  None = None
  Procs = {"daemon"}
  Actions = {a1}
  Keys = {"k1", "k2"}
  Adapters = {"ad1", "ad2"}
  KeyOf <- MCKeyOf
  AdapterOf <- MCAdapterOf
  AdapterRank <- MCAdapterRank
  Registered <- MCRegistered
  TTL = 1
  MaxTime = 2
  MaxCrashes = 1
PROPERTIES
  ActivationGetsItsTTL
