SPECIFICATION MCSpec
CONSTANTS
  Root = Root
  None = None
  Writers = {"daemon", "cli"}
  Records <- MCRecords
  CreatedAt <- MCCreatedAt
  IdRank <- MCIdRank
  MaxTime = 2
  NoRecord = NoRecord
  Count = 2
  Refused = {1}
  MaxShift = 2
  BackoffCap = 3
  MaxCrashes = 1
  Tickers <- MCTickers
  Profiles <- Relaxed
  j1 = j1
  j2 = j2
  j3 = j3
  Jobs = {j1, j2, j3}
  Workers = {1, 2}
  Artifacts = {"a", "b"}
  ArtifactOf <- MCArtifactOf
  MaxFaults = 1
  NoJob = NoJob
INVARIANTS
  ChainIsWellFounded
  UploadedWasReceived
  JobHasOneOwner
  SucceededIsStored
PROPERTIES
  AppendOnly
  UploadedForGood
  EveryRecordUploaded
  LoopTasksRun
  AcceptedJobsEnd
CHECK_DEADLOCK FALSE
