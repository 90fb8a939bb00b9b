SPECIFICATION Spec
CONSTANTS
  r1 = r1
  r2 = r2
  bad = bad
  Odd = Odd
  Elsewhere = Elsewhere
  Clients <- TwoClients
  Releases <- AllReleases
  Newest <- NewestOf
  Rejected <- BadNames
  Jobs <- SomeJobs
  PageSize = 2
  MaxStops = 1
INVARIANTS TypeOK AnsweredIsStored NothingUnscanned ExitCodeTells
PROPERTIES RecordsAreFinal EveryCommandEnds
