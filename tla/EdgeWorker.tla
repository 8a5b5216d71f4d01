----------------------------- MODULE EdgeWorker -----------------------------
(***************************************************************************)
(* The poller as a Worker of the edge platform: src/workers/cron.ts with   *)
(* the pool of src/db/client.ts and the allowance of                       *)
(* src/lib/subrequests.ts.                                                 *)
(*                                                                         *)
(* Invocations come over HTTP.  An isolate serves several of them side by  *)
(* side, and the pool and the allowance are variables of its modules.      *)
(* What the platform counts, every request that leaves an invocation, is   *)
(* kept apart from what the code counts.                                   *)
(***************************************************************************)
EXTENDS Integers, FiniteSets

CONSTANTS
  Invocation,    \* the requests that reach the isolate, each once
  NoPool,        \* workerPool = null
  Site,          \* the sources that are due
  Adapter,       \* the sources that an adapter reads, whose requests are not counted
  Requests,      \* Requests[s]: how many requests a poll of s may make
  Allowance,     \* what the platform grants an invocation: 50
  Reserve,       \* what is kept out of the budget: 5
  PerSource,     \* SUBREQUESTS_PER_SOURCE
  Concurrency    \* polls of one cycle that run side by side

ASSUME EdgeAssumption ==
  /\ IsFiniteSet(Invocation) /\ NoPool \notin Invocation
  /\ IsFiniteSet(Site) /\ Adapter \subseteq Site /\ Requests \in [Site -> SUBSET (Nat \ {0})]
  /\ Allowance \in Nat /\ Reserve \in 0 .. Allowance
  /\ PerSource \in Nat /\ Concurrency \in Nat \ {0}

VARIABLES
  \* The modules of the isolate.
  workerPool,    \* the pool that createWorkerDb keeps, named by who opened it
  ended,         \* the pools that are closed or about to be
  active,        \* whether there is a budget
  used,          \* how much of it is used
  \* The invocations.
  doing,         \* what each awaits
  db,            \* the pool of its queries
  left,          \* the due sources that no worker of its cycle has taken
  asks,          \* how many requests its poll of a source has still to make
  spent,         \* the requests of its cycle that the platform has counted
  alone          \* no other invocation has run beside it

isolate == <<workerPool, ended, active, used>>
edgeVars == <<isolate, doing, db, left, asks, spent, alone>>

Running == {i \in Invocation : doing[i] \notin {"asked", "over"}}

\* Where it may still send a query.
Asking == {"settings", "defer", "statement", "list", "polling"}

Busy(i) == {s \in Site : asks[i][s] > 0}

\* remainingSubrequests() > cost: what others are about to use is not counted.
CanAfford == active => Allowance - Reserve - used > PerSource

\* A query is answered unless the pool has been ended.
PoolServes(i) == db[i] \notin ended

Goes(i, to) == doing' = [doing EXCEPT ![i] = to]

EdgeInit ==
  /\ workerPool = NoPool /\ ended = {} /\ active = FALSE /\ used = 0
  /\ doing = [i \in Invocation |-> "asked"]
  /\ db = [i \in Invocation |-> NoPool]
  /\ left = [i \in Invocation |-> {}]
  /\ asks = [i \in Invocation |-> [s \in Site |-> 0]]
  /\ spent = [i \in Invocation |-> 0]
  /\ alone = [i \in Invocation |-> TRUE]

\* withInvocation up to its first await: the budget is opened anew, and a pool is
\* opened unless there is one.
Open(i) ==
  /\ doing[i] = "asked"
  /\ active' = TRUE
  /\ IF workerPool = NoPool
       THEN workerPool' = i /\ used' = 1 /\ spent' = [spent EXCEPT ![i] = 1]
       ELSE used' = 0 /\ UNCHANGED <<workerPool, spent>>
  /\ db' = [db EXCEPT ![i] = workerPool']
  /\ alone' = [j \in Invocation |->
       alone[j] /\ (IF j = i THEN Running = {} ELSE j \notin Running)]
  /\ Goes(i, "settings")
  /\ UNCHANGED <<ended, left, asks>>

\* applyStoredSettings, whose query may fail; maintenance is not deferred, and a task
\* that dispatch does not know does nothing.
ReadSettings(i) ==
  /\ doing[i] = "settings"
  /\ \/ Goes(i, "closing")
     \/ PoolServes(i) /\ \E to \in {"defer", "statement"} : Goes(i, to)
  /\ UNCHANGED <<isolate, db, left, asks, spent, alone>>

\* schedulerIsRunning: a failure counts as no scheduler.  A tick lists, process runs
\* its statements.
Defer(i) ==
  /\ doing[i] = "defer"
  /\ \/ PoolServes(i) /\ Goes(i, "closing")
     \/ \E to \in {"list", "statement"} : Goes(i, to)
  /\ UNCHANGED <<isolate, db, left, asks, spent, alone>>

\* runProcessing and maintenance: statements, one after another.
RunStatement(i) ==
  /\ doing[i] = "statement"
  /\ Goes(i, "closing")
  /\ UNCHANGED <<isolate, db, left, asks, spent, alone>>

\* dueAcrossShards.
List(i) ==
  /\ doing[i] = "list"
  /\ \/ Goes(i, "closing") /\ UNCHANGED left
     \/ PoolServes(i) /\ Goes(i, "polling") /\ left' = [left EXCEPT ![i] = Site]
  /\ UNCHANGED <<isolate, db, asks, spent, alone>>

\* A worker of mapWithConcurrency takes a source, and polls it if it can be afforded.
Take(i, s) ==
  /\ doing[i] = "polling" /\ s \in left[i] /\ Cardinality(Busy(i)) < Concurrency
  /\ left' = [left EXCEPT ![i] = @ \ {s}]
  /\ IF CanAfford THEN \E n \in Requests[s] : asks' = [asks EXCEPT ![i][s] = n]
                  ELSE UNCHANGED asks
  /\ UNCHANGED <<isolate, doing, db, spent, alone>>

\* The deadline of the cycle: the others stay due.
PassDeadline(i) ==
  /\ doing[i] = "polling" /\ left[i] # {}
  /\ left' = [left EXCEPT ![i] = {}]
  /\ UNCHANGED <<isolate, doing, db, asks, spent, alone>>

\* fetchConditional counts its request; an adapter calls fetch itself.
Fetch(i, s) ==
  /\ asks[i][s] > 0
  /\ asks' = [asks EXCEPT ![i][s] = @ - 1]
  /\ spent' = [spent EXCEPT ![i] = @ + 1]
  /\ used' = IF active /\ s \notin Adapter THEN used + 1 ELSE used
  /\ UNCHANGED <<workerPool, ended, active, doing, db, left, alone>>

\* The cycle is over, and captureDueSnapshots follows.
EndCycle(i) ==
  /\ doing[i] = "polling" /\ left[i] = {} /\ Busy(i) = {}
  /\ Goes(i, "statement")
  /\ UNCHANGED <<isolate, db, left, asks, spent, alone>>

\* closeWorkerDb ends the pool that the module has by now; a second end() is refused,
\* and the refusal is caught.
ClosePool(i) ==
  /\ doing[i] = "closing"
  /\ IF workerPool = NoPool
       THEN Goes(i, "clearing") /\ UNCHANGED ended
       ELSE Goes(i, "ending") /\ ended' = ended \cup {workerPool}
  /\ UNCHANGED <<workerPool, active, used, db, left, asks, spent, alone>>

\* end() has come back.
KeepPool(i) ==                                                       \* a mutant
  doing[i] = "ending" /\ Goes(i, "clearing")
  /\ UNCHANGED <<isolate, db, left, asks, spent, alone>>
ForgetPool(i) ==
  /\ doing[i] = "ending"
  /\ workerPool' = NoPool
  /\ Goes(i, "clearing")
  /\ UNCHANGED <<ended, active, used, db, left, asks, spent, alone>>

\* clearBudget, whoever's budget it is; the platform's count ends with the invocation.
Clear(i) ==
  /\ doing[i] = "clearing"
  /\ active' = FALSE /\ used' = 0
  /\ spent' = [spent EXCEPT ![i] = 0]
  /\ Goes(i, "over")
  /\ UNCHANGED <<workerPool, ended, db, left, asks, alone>>

EdgeNext ==
  \E i \in Invocation :
    \/ Open(i) \/ ReadSettings(i) \/ Defer(i) \/ RunStatement(i) \/ List(i)
    \/ (\E s \in Site : Take(i, s) \/ Fetch(i, s))
    \/ PassDeadline(i) \/ EndCycle(i) \/ ClosePool(i) \/ ForgetPool(i) \/ Clear(i)

EdgeSpec == EdgeInit /\ [][EdgeNext]_edgeVars

\* The type invariant.
EdgeTypeOK ==
  /\ workerPool \in Invocation \cup {NoPool} /\ ended \subseteq Invocation
  /\ active \in BOOLEAN /\ used \in Nat
  /\ doing \in [Invocation -> {"asked", "settings", "defer", "statement", "list", "polling",
                               "closing", "ending", "clearing", "over"}]
  /\ db \in [Invocation -> Invocation \cup {NoPool}]
  /\ left \in [Invocation -> SUBSET Site]
  /\ asks \in [Invocation -> [Site -> Nat]]
  /\ spent \in [Invocation -> Nat]
  /\ alone \in [Invocation -> BOOLEAN]

(***************************************************************************)
(* Properties.                                                             *)
(***************************************************************************)

\* subrequests.ts:12: collection stops while it has budget left.
StaysWithinAllowance == \A i \in Invocation : alone[i] => spent[i] <= Allowance

\* cron.ts:82, "open a single pooled database connection, run, and always close it": the
\* queries of an invocation that nothing ran beside go to a pool of its own, which is
\* not ended before it is done with it, and is when it is over.
PoolIsItsOwn ==
  \A i \in Invocation : alone[i] =>
    /\ i \in Running => db[i] = i
    /\ doing[i] \in Asking => i \notin ended
    /\ doing[i] = "over" => i \in ended

\* cron.ts:84: whatever ran side by side before, and left its pool and its budget in the
\* modules, an invocation that runs by itself finds neither of them.
LoneOnesAreServed == PoolIsItsOwn /\ StaysWithinAllowance

\* client.ts:62: every pool is closed when its invocations are over.
EveryPoolIsClosed ==
  \A i \in Invocation : Running = {} /\ i \in {db[j] : j \in Invocation} => i \in ended

=============================================================================
