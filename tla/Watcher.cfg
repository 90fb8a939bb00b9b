SPECIFICATION Spec
CONSTANTS
  a = a
  b = b
  v1 = v1
  v2 = v2
  Latest = Latest
  Removed = Removed
  NoRecord = NoRecord
  Names <- MCNames
  Versions <- MCVersions
  Invalid <- MCInvalid
  Feeds <- MCFeeds
  Records <- MCRecords
  Statuses = {"new", "false_positive"}
  MaxScans = 2
  Concurrency = 1
  MaxCycles = 2
  MaxStops = 1
INVARIANTS TypeOK PermitsAccounted ReleaseQueuedOnce RepeatsOnlyWithinCycle FailedIsRetried CycleAccounts NewNamesFirst NothingLost
PROPERTY CycleEnds
