------------------------------ MODULE Scheduler ------------------------------
(***************************************************************************)
(* The job scheduler of src/run/scheduler.ts: several runner processes     *)
(* share one table, job_runs, and divide the jobs of the catalogue between *)
(* them by claiming rows.  Every database statement is one step, because   *)
(* no statement of the scheduler runs inside a transaction.                *)
(*                                                                         *)
(* A timestamp of the table is kept as its distance from now(): the code   *)
(* only ever compares a timestamp with now() or with the same column of    *)
(* another row.  Advance moves every distance by one unit.                 *)
(***************************************************************************)
EXTENDS Integers, FiniteSets

CONSTANTS
  Runner,       \* processes, each a pid@host; a restarted process may keep its pid
  NoRunner,     \* the NULL of job_runs.runner
  HostOf,       \* HostOf[r]: the host in the runner's label
  Job,          \* names that may have a row in job_runs
  Catalogue,    \* Catalogue[r]: the jobs that runner r builds
  Legacy,       \* rows that an earlier deployment has left in the table
  Every,        \* every_seconds
  Lease,        \* lease_seconds
  Daily,        \* the jobs with an at_hour
  AtHour,       \* at_hour, for those
  Day, Hour,    \* their lengths in clock units
  MaxParallel,  \* the option of the same name
  TickGap,      \* tickSeconds
  MaxGap,       \* MAX_BACKOFF_MS
  Faults,       \* what may befall this instance: "outage", "crash", "stop"
  MaxFails,     \* bound: consecutive failures counted
  MaxLate       \* bound: how far overdue a row is told from an earlier one

ASSUME RunnerAssumption == NoRunner \notin Runner
ASSUME JobAssumption ==
  /\ Legacy \subseteq Job /\ Daily \subseteq Job
  /\ Catalogue \in [Runner -> SUBSET Job]
  /\ Every \in [Job -> Nat \ {0}] /\ Lease \in [Job -> Nat \ {0}]
ASSUME DayAssumption ==
  /\ Day \in Nat \ {0} /\ Hour \in Nat \ {0}
  /\ AtHour \in [Daily -> 0 .. Day - 1]
ASSUME BoundAssumption ==
  /\ MaxParallel \in Nat \ {0} /\ TickGap \in Nat \ {0} /\ MaxGap \in Nat \ {0}
  /\ MaxFails \in Nat \ {0} /\ MaxLate \in Nat
  /\ Faults \subseteq {"outage", "crash", "stop"}

VARIABLES
  \* The table job_runs.
  listed,       \* names that have a row
  dueIn,        \* next_run_at - now(); due when <= 0
  holder,       \* runner, NoRunner exactly when running_since is NULL
  age,          \* now() - running_since of a held row
  cfails,       \* consecutive_failures
  rested,       \* now() - last_finished_at
  \* One Scheduler object per runner.
  pc,           \* where the process is
  registered,   \* the field of the same name
  stopping,     \* the field of the same name
  failures,     \* consecutive failed ticks
  wait,         \* time until the timer fires
  todo,         \* names the current loop or statement list still holds
  awaited,      \* names whose promise the current tick awaits
  task,         \* task[r][j]: how far claimAndRun(j) has come in r
  held,         \* held[r][j]: how long ago r claimed j for the run it is in
  \* The outside.
  dbUp,         \* whether statements succeed
  tod           \* time of day of the database's clock

table   == <<listed, dueIn, holder, age, cfails, rested>>
process == <<pc, registered, stopping, failures, wait, todo, awaited>>
work    == <<task, held>>
vars    == <<table, process, work, dbUp, tod>>

Least(a, b)    == IF a <= b THEN a ELSE b
Greatest(a, b) == IF a >= b THEN a ELSE b

------------------------------------------------------------------------------
(* Delays.                                                                 *)

\* 2 ** min(n, 10).
Power2(n) == <<1, 2, 4, 8, 16, 32, 64, 128, 256, 512, 1024>>[Least(n, 10) + 1]

\* The cadence of a job that has failed n times in a row: at most
\* MAX_BACKOFF_MULTIPLIER intervals.
Cadence(j, n) == Every[j] * Least(Power2(n), 16)

\* Time to the next occurrence of the job's hour, a whole day when it is now.
DayFromNow(j, t) == Day                                              \* a mutant
UntilHour(j, t) == Day - ((t - AtHour[j]) % Day)

\* next_run_at - now() as release() computes it; n counts this failure too.
NoBackoff(j, ok, n) ==                                               \* a mutant
  IF j \in Daily THEN (IF ok THEN UntilHour(j, tod) ELSE Hour) ELSE Cadence(j, 0)
NextDelay(j, ok, n) ==
  IF j \in Daily THEN (IF ok THEN UntilHour(j, tod) ELSE Hour)
                 ELSE Cadence(j, IF ok THEN 0 ELSE n)

\* nextDelayMs: the wait before the next tick.
TickDelay(f) == IF f = 0 THEN TickGap ELSE Least(TickGap * Power2(f), MaxGap)

\* As long as the longest delay, so that rested tells any two of them apart.
MaxRest(j) == IF j \in Daily THEN Greatest(Day, Hour) ELSE Cadence(j, MaxFails)

------------------------------------------------------------------------------
(* The table as a statement sees it.                                       *)

\* A claim that another runner may take over.
NeverExpired(j) == FALSE                                             \* a mutant
ExpiredEarly(j) == holder[j] # NoRunner /\ age[j] >= Lease[j]        \* a mutant
Expired(j) == holder[j] # NoRunner /\ age[j] > Lease[j]

\* The due test that the SELECT of a tick and the claim's WHERE share.
ClaimedTooEarly(j) == j \in listed /\ (holder[j] = NoRunner \/ Expired(j))   \* a mutant
ClaimedTwice(j) == j \in listed /\ dueIn[j] <= 0                    \* a mutant
Claimable(j) == j \in listed /\ dueIn[j] <= 0 /\ (holder[j] = NoRunner \/ Expired(j))

\* The answers of ORDER BY next_run_at LIMIT n.
FirstDue(n) ==
  LET due == {j \in Job : Claimable(j)} IN
  {S \in SUBSET due :
     /\ Cardinality(S) = Least(n, Cardinality(due))
     /\ \A a \in S, b \in due \ S : dueIn[a] <= dueIn[b]}

\* Scheduler.running.
Running(r) == {j \in Job : task[r][j] = "running"}

\* How many jobs a tick may start.
RoomForAll(r) == MaxParallel                                         \* a mutant
Room(r) == Greatest(MaxParallel - Cardinality(Running(r)), 0)

\* r has claimed j and has not yet settled it with the table.
InFlight(r, j) == task[r][j] \in {"running", "ok", "failed"}

\* The claim columns after the rows of S were set to NULL.
Clear(S) ==
  /\ holder' = [j \in Job |-> IF j \in S THEN NoRunner ELSE holder[j]]
  /\ age' = [j \in Job |-> IF j \in S THEN 0 ELSE age[j]]

RunnersNotNames(r) ==                                                \* a mutant
  {h \in Runner : \E j \in listed :
     holder[j] = h /\ HostOf[h] = HostOf[r] /\ (h = r \/ pc[h] = "down")}

\* Rows a starting runner takes for abandoned: held on its own host, by its own
\* pid or by one that no longer exists.
HeldByDead(r) ==
  {j \in listed : \E h \in Runner :
     holder[j] = h /\ HostOf[h] = HostOf[r] /\ (h = r \/ pc[h] = "down")}

------------------------------------------------------------------------------
Init ==
  /\ listed = Legacy
  /\ dueIn = [j \in Job |-> 0]
  /\ holder = [j \in Job |-> NoRunner]
  /\ age = [j \in Job |-> 0]
  /\ cfails = [j \in Job |-> 0]
  /\ rested = [j \in Job |-> MaxRest(j)]
  /\ pc = [r \in Runner |-> "down"]
  /\ registered = [r \in Runner |-> FALSE]
  /\ stopping = [r \in Runner |-> FALSE]
  /\ failures = [r \in Runner |-> 0]
  /\ wait = [r \in Runner |-> 0]
  /\ todo = [r \in Runner |-> {}]
  /\ awaited = [r \in Runner |-> {}]
  /\ task = [r \in Runner |-> [j \in Job |-> "none"]]
  /\ held = [r \in Runner |-> [j \in Job |-> 0]]
  /\ dbUp = TRUE
  /\ tod \in 0 .. Day - 1

(* Start-up: register(), then reclaimFromDeadRunners().  The same code runs *)
(* in the first tick that reaches the database when start() could not.     *)

\* The process comes up; main.ts awaits start().
Start(r) ==
  /\ pc[r] = "down"
  /\ pc' = [pc EXCEPT ![r] = "registering"]
  /\ todo' = [todo EXCEPT ![r] = Catalogue[r]]
  /\ UNCHANGED <<table, work, registered, stopping, failures, wait, awaited, dbUp, tod>>

\* One upsert.  The row of a job that exists keeps next_run_at, claim and counts.
Register(r, j) ==
  /\ pc[r] = "registering" /\ j \in todo[r] /\ dbUp
  /\ todo' = [todo EXCEPT ![r] = @ \ {j}]
  /\ listed' = listed \cup {j}
  /\ dueIn' = IF j \in listed THEN dueIn ELSE [dueIn EXCEPT ![j] = 0]
  /\ UNCHANGED <<holder, age, cfails, rested, pc, registered, stopping, failures, wait, awaited,
                 work, dbUp, tod>>

\* SELECT the held rows and keep the ones whose process is gone.
FindDead(r) ==
  /\ pc[r] = "registering" /\ todo[r] = {} /\ dbUp
  /\ todo' = [todo EXCEPT ![r] = HeldByDead(r)]
  /\ pc' = [pc EXCEPT ![r] = "reclaiming"]
  /\ UNCHANGED <<table, work, registered, stopping, failures, wait, awaited, dbUp, tod>>

\* UPDATE ... WHERE name = ANY(dead) AND running_since IS NOT NULL.  start() then
\* sets the timer; a tick goes on to look for due work.
Reclaim(r) ==
  /\ pc[r] = "reclaiming" /\ dbUp
  /\ Clear(todo[r])
  /\ todo' = [todo EXCEPT ![r] = {}]
  /\ registered' = [registered EXCEPT ![r] = TRUE]
  /\ IF failures[r] = 0
       THEN /\ pc' = [pc EXCEPT ![r] = "asleep"]
            /\ wait' = [wait EXCEPT ![r] = TickGap]
       ELSE /\ pc' = [pc EXCEPT ![r] = "selecting"]
            /\ UNCHANGED wait
  /\ UNCHANGED <<listed, dueIn, cfails, rested, work, stopping, failures, awaited, dbUp, tod>>

------------------------------------------------------------------------------
(* The tick.                                                               *)

\* Where the runner goes when a tick settles: schedule() does nothing once
\* stop() has been called, and stop() was waiting for this.
Settle(r, f) ==
  /\ failures' = [failures EXCEPT ![r] = f]
  /\ IF stopping[r]
       THEN /\ pc' = [pc EXCEPT ![r] = "handback"]
            /\ UNCHANGED wait
       ELSE /\ pc' = [pc EXCEPT ![r] = "asleep"]
            /\ wait' = [wait EXCEPT ![r] = TickDelay(f)]
  /\ awaited' = [awaited EXCEPT ![r] = {}]

\* The tick, or start(), rejects.  Claims already sent are not called back.
Reject(r) == Settle(r, Least(failures[r] + 1, MaxFails))

Timer(r) ==
  /\ pc[r] = "asleep" /\ wait[r] = 0
  /\ IF registered[r]
       THEN /\ pc' = [pc EXCEPT ![r] = "selecting"]
            /\ UNCHANGED todo
       ELSE /\ pc' = [pc EXCEPT ![r] = "registering"]
            /\ todo' = [todo EXCEPT ![r] = Catalogue[r]]
  /\ UNCHANGED <<table, work, registered, stopping, failures, wait, awaited, dbUp, tod>>

\* Find what is due and call claimAndRun on each name of the catalogue; without room
\* for any the tick asks for none, and sends no statement.
Select(r) ==
  /\ pc[r] = "selecting" /\ (dbUp \/ Room(r) = 0)
  /\ \E S \in FirstDue(Room(r)) :
       LET started == {j \in S \cap Catalogue[r] : task[r][j] = "none"} IN
       /\ task' = [task EXCEPT ![r] = [j \in Job |-> IF j \in started THEN "picked" ELSE @[j]]]
       /\ awaited' = [awaited EXCEPT ![r] = started]
  /\ pc' = [pc EXCEPT ![r] = "working"]
  /\ UNCHANGED <<table, held, registered, stopping, failures, wait, todo, dbUp, tod>>

\* A statement of start() or of the tick itself finds the database down.
StatementFails(r) ==
  /\ ~dbUp
  /\ \/ pc[r] \in {"registering", "reclaiming"}
     \/ pc[r] = "selecting" /\ Room(r) > 0
  /\ Reject(r)
  /\ todo' = [todo EXCEPT ![r] = {}]
  /\ UNCHANGED <<table, work, registered, stopping, dbUp, tod>>

\* Promise.all(started) has settled.
TickDone(r) ==
  /\ pc[r] = "working"
  /\ \A j \in awaited[r] : task[r][j] = "none"
  /\ Settle(r, 0)
  /\ UNCHANGED <<table, work, registered, stopping, todo, dbUp, tod>>

------------------------------------------------------------------------------
(* claimAndRun, for one job.                                               *)

\* The claim: one UPDATE, with the due test in its WHERE.
Claim(r, j) ==
  /\ task[r][j] = "picked" /\ dbUp
  /\ IF Claimable(j)
       THEN /\ holder' = [holder EXCEPT ![j] = r]
            /\ age' = [age EXCEPT ![j] = 0]
            /\ task' = [task EXCEPT ![r][j] = "running"]
            /\ held' = [held EXCEPT ![r][j] = 0]
       ELSE /\ task' = [task EXCEPT ![r][j] = "none"]
            /\ UNCHANGED <<holder, age, held>>
  /\ UNCHANGED <<listed, dueIn, cfails, rested, process, dbUp, tod>>

\* The claim throws, and with it the Promise.all of the tick that awaits it.
ClaimFails(r, j) ==
  /\ task[r][j] = "picked" /\ ~dbUp
  /\ task' = [task EXCEPT ![r][j] = "none"]
  /\ IF j \in awaited[r] THEN Reject(r) ELSE UNCHANGED <<failures, wait, pc, awaited>>
  /\ UNCHANGED <<table, held, registered, stopping, todo, dbUp, tod>>

\* job.run returns or throws; either is caught.
Finish(r, j, outcome) ==
  /\ task[r][j] = "running"
  /\ task' = [task EXCEPT ![r][j] = outcome]
  /\ UNCHANGED <<table, process, held, dbUp, tod>>

\* release(): UPDATE ... WHERE name = $1, whoever the row is held by now.
Release(r, j) ==
  LET ok == task[r][j] = "ok"
      n  == IF ok THEN 0 ELSE Least(cfails[j] + 1, MaxFails) IN
  /\ task[r][j] \in {"ok", "failed"} /\ dbUp
  /\ Clear({j})
  /\ cfails' = [cfails EXCEPT ![j] = n]
  /\ rested' = [rested EXCEPT ![j] = 0]
  /\ dueIn' = [dueIn EXCEPT ![j] = NextDelay(j, ok, n)]
  /\ task' = [task EXCEPT ![r][j] = "none"]
  /\ held' = [held EXCEPT ![r][j] = 0]
  /\ UNCHANGED <<listed, process, dbUp, tod>>

\* The outcome cannot be recorded: one log line, and the claim stays.
ReleaseFails(r, j) ==
  /\ task[r][j] \in {"ok", "failed"} /\ ~dbUp
  /\ task' = [task EXCEPT ![r][j] = "none"]
  /\ held' = [held EXCEPT ![r][j] = 0]
  /\ UNCHANGED <<table, process, dbUp, tod>>

------------------------------------------------------------------------------
(* Stopping and dying.                                                     *)

\* SIGTERM.  main.ts registers stop() once start() has returned.
Stop(r) ==
  /\ "stop" \in Faults
  /\ pc[r] \notin {"down", "handback", "closing"} /\ ~stopping[r]
  /\ pc[r] \in {"registering", "reclaiming"} => failures[r] > 0
  /\ stopping' = [stopping EXCEPT ![r] = TRUE]
  /\ pc' = [pc EXCEPT ![r] = IF @ = "asleep" THEN "handback" ELSE @]
  /\ wait' = [wait EXCEPT ![r] = 0]
  /\ UNCHANGED <<table, work, registered, failures, todo, awaited, dbUp, tod>>

\* this.idle has resolved: give back every row this runner's label is on.
HandBack(r) ==
  /\ pc[r] = "handback"
  /\ pc' = [pc EXCEPT ![r] = "closing"]
  /\ Clear({j \in Job : dbUp /\ holder[j] = r})
  /\ UNCHANGED <<listed, dueIn, cfails, rested, work, registered, stopping, failures, wait,
                 todo, awaited, dbUp, tod>>

\* The process ends: exit() after a clean stop, a kill at any point, main.ts's
\* own exit after 25 seconds of stopping.
Exit(r) ==
  /\ pc[r] # "down" /\ (pc[r] = "closing" \/ "crash" \in Faults)
  /\ pc' = [pc EXCEPT ![r] = "down"]
  /\ registered' = [registered EXCEPT ![r] = FALSE]
  /\ stopping' = [stopping EXCEPT ![r] = FALSE]
  /\ failures' = [failures EXCEPT ![r] = 0]
  /\ wait' = [wait EXCEPT ![r] = 0]
  /\ todo' = [todo EXCEPT ![r] = {}]
  /\ awaited' = [awaited EXCEPT ![r] = {}]
  /\ task' = [task EXCEPT ![r] = [j \in Job |-> "none"]]
  /\ held' = [held EXCEPT ![r] = [j \in Job |-> 0]]
  /\ UNCHANGED <<table, dbUp, tod>>

\* The database becomes unreachable, or comes back.
DbChanges ==
  /\ "outage" \in Faults
  /\ dbUp' = ~dbUp
  /\ UNCHANGED <<table, process, work, tod>>

\* One unit of time.
Advance ==
  /\ tod' = (tod + 1) % Day
  /\ dueIn' = [j \in Job |-> IF j \in listed THEN Greatest(dueIn[j] - 1, -MaxLate) ELSE 0]
  /\ age' = [j \in Job |-> IF holder[j] = NoRunner THEN 0 ELSE Least(age[j] + 1, Lease[j] + 1)]
  /\ rested' = [j \in Job |-> Least(rested[j] + 1, MaxRest(j))]
  /\ held' = [r \in Runner |-> [j \in Job |->
                IF InFlight(r, j) THEN Least(held[r][j] + 1, Lease[j] + 1) ELSE 0]]
  /\ wait' = [r \in Runner |-> Greatest(wait[r] - 1, 0)]
  /\ UNCHANGED <<listed, holder, cfails, pc, registered, stopping, failures, todo, awaited, task,
                 dbUp>>

RunnerStep(r) ==
  \/ Start(r) \/ FindDead(r) \/ Reclaim(r) \/ Timer(r) \/ Select(r)
  \/ StatementFails(r) \/ TickDone(r) \/ Stop(r) \/ HandBack(r) \/ Exit(r)

TaskStep(r, j) ==
  \/ Register(r, j) \/ Claim(r, j) \/ ClaimFails(r, j)
  \/ \E outcome \in {"ok", "failed"} : Finish(r, j, outcome)
  \/ Release(r, j) \/ ReleaseFails(r, j)

SomeStep ==
  \/ \E r \in Runner : RunnerStep(r)
  \/ \E r \in Runner, j \in Job : TaskStep(r, j)
  \/ DbChanges

Next == SomeStep \/ Advance

Spec == Init /\ [][Next]_vars

------------------------------------------------------------------------------
(* Variants.                                                               *)

\* Statements take less than a unit of time and a timer fires when it is set to.
Prompt ==
  /\ \A r \in Runner : pc[r] \in {"down", "asleep", "working", "closing"}
  /\ \A r \in Runner : pc[r] = "asleep" => wait[r] > 0
  /\ \A r \in Runner, j \in Job : task[r][j] \in {"none", "running"}

PromptNext == SomeStep \/ (Prompt /\ Advance)
PromptSpec == Init /\ [][PromptNext]_vars

\* What the scheduler relies on for a claim to be exclusive: a run is over and
\* recorded within its lease, no row that a starting runner has found abandoned
\* is taken before it clears it, and stop() gives back nothing it is running.
Timely ==
  /\ \A r \in Runner, j \in Job : InFlight(r, j) => held[r][j] <= Lease[j]
  /\ \A r, q \in Runner, j \in Job : pc[r] = "reclaiming" /\ j \in todo[r] => ~InFlight(q, j)
  /\ \A r \in Runner, j \in Job : pc[r] = "handback" => ~InFlight(r, j)

TimelySpec == Init /\ [][Next /\ Timely']_vars

\* The process runs, its statements return, its timers fire and its jobs end;
\* nothing makes a process start, stop or die, or the database change.
Fairness ==
  /\ WF_vars(Advance)
  /\ \A r \in Runner :
       /\ WF_vars(FindDead(r)) /\ WF_vars(Reclaim(r)) /\ WF_vars(Timer(r))
       /\ WF_vars(Select(r)) /\ WF_vars(StatementFails(r)) /\ WF_vars(TickDone(r))
  /\ \A r \in Runner, j \in Job :
       /\ WF_vars(Register(r, j)) /\ WF_vars(Claim(r, j)) /\ WF_vars(ClaimFails(r, j))
       /\ WF_vars(\E outcome \in {"ok", "failed"} : Finish(r, j, outcome))
       /\ WF_vars(Release(r, j)) /\ WF_vars(ReleaseFails(r, j))

FairSpec == Spec /\ Fairness

------------------------------------------------------------------------------
(* Properties.                                                             *)

Steps == {"down", "registering", "reclaiming", "asleep", "selecting", "working", "handback",
          "closing"}

TypeOK ==
  /\ listed \subseteq Job
  /\ dueIn \in [Job -> Int]
  /\ holder \in [Job -> Runner \cup {NoRunner}]
  /\ age \in [Job -> Nat]
  /\ cfails \in [Job -> Nat]
  /\ rested \in [Job -> Nat]
  /\ pc \in [Runner -> Steps]
  /\ registered \in [Runner -> BOOLEAN]
  /\ stopping \in [Runner -> BOOLEAN]
  /\ failures \in [Runner -> Nat]
  /\ wait \in [Runner -> Nat]
  /\ todo \in [Runner -> SUBSET Job]
  /\ awaited \in [Runner -> SUBSET Job]
  /\ task \in [Runner -> [Job -> {"none", "picked", "running", "ok", "failed"}]]
  /\ held \in [Runner -> [Job -> Nat]]
  /\ dbUp \in BOOLEAN
  /\ tod \in 0 .. Day - 1

\* A claimed row stays due for as long as it is claimed, so that a process that
\* dies in the middle of a run costs one lease and never an interval: no start,
\* take-over, stale release or hand-back moves next_run_at of a row it leaves
\* claimed.
ClaimedIsDue == \A j \in Job : holder[j] # NoRunner => j \in listed /\ dueIn[j] <= 0

\* However the runners interleave, no run of an interval job begins before its
\* cadence, lengthened by the recorded failures, has passed since the last
\* recorded finish.
CadenceKept ==
  [][\A r \in Runner, j \in Job \ Daily :
       task[r][j] # "running" /\ task'[r][j] = "running" => rested[j] >= Cadence(j, cfails[j])]_vars

\* A daily job whose last run succeeded waits for its hour, never for a day
\* counted from when the run happened to end.
DailyKeepsItsHour ==
  \A j \in Daily :
    dueIn[j] > 0 /\ cfails[j] = 0 => (tod + dueIn[j]) % Day = AtHour[j]

\* One runner never has more than maxParallel jobs in hand, not even when a
\* failed tick has left some of its jobs running behind the next one.
AtMostMaxParallel == \A r \in Runner : Cardinality(Running(r)) <= MaxParallel

\* "No window in which both believe they won": no job runs twice at once.
Exclusive == \A j \in Job : \A q, r \in Runner : InFlight(q, j) /\ InFlight(r, j) => q = r

\* The same as a refinement: seen through the runs in flight, the scheduler is a
\* machine in which a job that is taken was in nobody's hands.
Abstract == INSTANCE ExclusiveJobs WITH at <- [j \in Job |-> {r \in Runner : InFlight(r, j)}]
TakesOnlyFreeJobs == Abstract!Spec

\* Once a runner stays up with the database reachable, a job of its catalogue
\* that is due is started by some runner, even if a dead one holds its row.
Serving(r) == dbUp /\ ~stopping[r] /\ pc[r] # "down"
EventuallyRuns ==
  \A r \in Runner : \A j \in Catalogue[r] :
    <>[]Serving(r) => []((j \in listed /\ dueIn[j] <= 0) => <>(\E q \in Runner : j \in Running(q)))

\* scheduler.ts:52, "how long a run may hold its claim before another runner may
\* take it": a run younger than its lease still has its row.
ClaimKept ==
  \A r \in Runner, j \in Job : InFlight(r, j) /\ held[r][j] <= Lease[j] => holder[j] = r

=============================================================================
