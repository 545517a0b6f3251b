SPECIFICATION Spec
CONSTANTS
  Root = Root
  None = None
  Writers = {"daemon"}
  Records <- MCRecords
  CreatedAt <- MCCreatedAt
  IdRank <- MCIdRank
  MaxTime = 2
INVARIANTS LinkedChain
