SPECIFICATION TimelySpec
CONSTANTS
  NoRunner = NoRunner
  Runner <- TwoRunners
  HostOf <- OneHost
  Job <- OneJob
  Catalogue <- AllBuildOne
  Legacy <- NoJobs
  Every <- Ones
  Lease <- Ones
  Daily <- NoJobs
  AtHour <- NoHours
  Day = 1
  Hour = 1
  MaxParallel = 1
  TickGap = 1
  MaxGap = 2
  Faults = {"crash", "outage", "stop"}
  MaxFails = 2
  MaxLate = 1
INVARIANTS Exclusive ClaimKept
PROPERTY TakesOnlyFreeJobs
