SPECIFICATION PromptSpec
CONSTANTS
  NoRunner = NoRunner
  Runner <- OneRunner
  HostOf <- OneHost
  Job <- MixedJobs
  Catalogue <- AllBuildMixed
  Legacy <- NoJobs
  Every <- Ones
  Lease <- Twos
  Daily <- NightJobs
  AtHour <- ThreeOClock
  Day = 4
  Hour = 1
  MaxParallel = 2
  TickGap = 1
  MaxGap = 2
  Faults = {"outage"}
  MaxFails = 1
  MaxLate = 1
INVARIANTS AtMostMaxParallel DailyKeepsItsHour
