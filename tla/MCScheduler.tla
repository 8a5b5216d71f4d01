----------------------------- MODULE MCScheduler -----------------------------
(***************************************************************************)
(* Small instances of Scheduler.  One unit of time is one tick; collect    *)
(* stands for the interval jobs of src/run/jobs.ts, rollup and retain are  *)
(* its two daily jobs of one hour.                                         *)
(***************************************************************************)
EXTENDS Scheduler

OneRunner  == {"r1"}
TwoRunners == {"r1", "r2"}

OneHost  == [r \in {"r1", "r2"} |-> "h1"]
TwoHosts == [r1 |-> "h1", r2 |-> "h2"]

OneJob    == {"collect"}
NightJobs == {"rollup", "retain"}
MixedJobs == {"collect", "rollup", "retain"}

AllBuildOne   == [r \in Runner |-> OneJob]
AllBuildMixed == [r \in Runner |-> MixedJobs]

Ones == [j \in Job |-> 1]
Twos == [j \in Job |-> 2]
NoJobs == {}
NoHours == [j \in {} |-> 0]
ThreeOClock == [j \in NightJobs |-> 3]

=============================================================================
