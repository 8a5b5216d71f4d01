SPECIFICATION FairSpec
CONSTANTS
  NoRunner = NoRunner
  Runner <- TwoRunners
  HostOf <- TwoHosts
  Job <- OneJob
  Catalogue <- AllBuildOne
  Legacy <- NoJobs
  Every <- Ones
  Lease <- Ones
  Daily <- NoJobs
  AtHour <- NoHours
  Day = 1
  Hour = 1
  MaxParallel = 1
  TickGap = 1
  MaxGap = 2
  Faults = {"crash", "outage", "stop"}
  MaxFails = 1
  MaxLate = 1
INVARIANTS TypeOK ClaimedIsDue
PROPERTIES CadenceKept EventuallyRuns
