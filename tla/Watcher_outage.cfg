SPECIFICATION Spec
CONSTANTS
  a = a
  b = b
  v1 = v1
  v2 = v2
  Latest = Latest
  Removed = Removed
  NoRecord = NoRecord
  Names <- MCNames
  Versions <- MCVersions
  Invalid <- MCInvalid
  Feeds <- TwinFeeds
  Records <- AllRecords
  Statuses = {"new", "false_positive"}
  MaxScans = 2
  Concurrency = 2
  MaxCycles = 1
  MaxStops = 0
PROPERTY MarkedWasAnalysed
