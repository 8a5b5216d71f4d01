--------------------------- MODULE SchedulerProofs ---------------------------
(***************************************************************************)
(* Theorems about Scheduler, for every catalogue, number of runners and    *)
(* length of lease.                                                        *)
(***************************************************************************)
EXTENDS Scheduler, FiniteSetTheorems, TLAPS

------------------------------------------------------------------------------
(* Delays are positive.                                                    *)

\* A power of two is positive, and a cadence never shorter than the interval.
LEMMA Power2Positive ==
  ASSUME NEW n \in Nat
  PROVE  Power2(n) \in Nat \ {0}
<1> DEFINE k == Least(n, 10) + 1
<1>1. k \in 1 .. 11 BY DEF Least
<1>2. Power2(n) = <<1, 2, 4, 8, 16, 32, 64, 128, 256, 512, 1024>>[k] BY DEF Power2
<1>3. QED BY <1>1, <1>2

LEMMA CadencePositive ==
  ASSUME NEW j \in Job, NEW n \in Nat
  PROVE  /\ Cadence(j, n) \in Nat
         /\ Cadence(j, n) >= Every[j]
<1>1. Least(Power2(n), 16) \in Nat \ {0} BY Power2Positive DEF Least
<1>2. QED BY <1>1, JobAssumption DEF Cadence

\* The next occurrence of an hour is ahead, by a day at most.
LEMMA UntilHourPositive ==
  ASSUME NEW j \in Daily, NEW t \in 0 .. Day - 1
  PROVE  UntilHour(j, t) \in 1 .. Day
<1>1. t - AtHour[j] \in Int BY DayAssumption
<1>2. (t - AtHour[j]) % Day \in 0 .. Day - 1 BY <1>1, DayAssumption
<1>3. QED BY <1>2, DayAssumption DEF UntilHour

LEMMA NextDelayPositive ==
  ASSUME NEW j \in Job, NEW ok \in BOOLEAN, NEW n \in Nat, tod \in 0 .. Day - 1
  PROVE  NextDelay(j, ok, n) \in Nat \ {0}
<1>1. CASE j \in Daily BY <1>1, UntilHourPositive, DayAssumption DEF NextDelay
<1>2. CASE j \notin Daily BY <1>2, CadencePositive, JobAssumption DEF NextDelay
<1>3. QED BY <1>1, <1>2

LEMMA TickDelayNat ==
  ASSUME NEW f \in Nat
  PROVE  TickDelay(f) \in Nat
BY Power2Positive, BoundAssumption DEF TickDelay, Least

------------------------------------------------------------------------------
(* Types.                                                                  *)

\* The two ways a tick ends leave the runner's own fields well typed.
LEMMA SettleType ==
  ASSUME TypeOK, NEW r \in Runner, NEW f \in Nat, Settle(r, f)
  PROVE  /\ pc' \in [Runner -> Steps]
         /\ wait' \in [Runner -> Nat]
         /\ failures' \in [Runner -> Nat]
         /\ awaited' \in [Runner -> SUBSET Job]
BY TickDelayNat DEF TypeOK, Settle, Steps

LEMMA RejectType ==
  ASSUME TypeOK, NEW r \in Runner, Reject(r)
  PROVE  /\ pc' \in [Runner -> Steps]
         /\ wait' \in [Runner -> Nat]
         /\ failures' \in [Runner -> Nat]
         /\ awaited' \in [Runner -> SUBSET Job]
<1>1. Least(failures[r] + 1, MaxFails) \in Nat BY BoundAssumption DEF TypeOK, Least
<1>2. QED BY <1>1, SettleType DEF Reject

\* Clearing claims keeps the claim columns well typed.
LEMMA ClearType ==
  ASSUME TypeOK, NEW S, Clear(S)
  PROVE  holder' \in [Job -> Runner \cup {NoRunner}] /\ age' \in [Job -> Nat]
BY DEF TypeOK, Clear

LEMMA RunnerStepType ==
  ASSUME TypeOK, NEW r \in Runner, RunnerStep(r)
  PROVE  TypeOK'
<1>1. CASE Start(r)
  BY <1>1, JobAssumption DEF TypeOK, Steps, Start, table, work
<1>2. CASE FindDead(r)
  BY <1>2 DEF TypeOK, Steps, FindDead, HeldByDead, table, work
<1>3. CASE Reclaim(r)
  <2>1. Clear(todo[r]) BY <1>3 DEF Reclaim
  <2>2. holder' \in [Job -> Runner \cup {NoRunner}] /\ age' \in [Job -> Nat]
    BY <2>1, ClearType
  <2>3. pc' \in [Runner -> Steps]
    BY <1>3 DEF Reclaim, TypeOK, Steps
  <2>4. wait' \in [Runner -> Nat]
    BY <1>3, BoundAssumption DEF Reclaim, TypeOK
  <2>5. QED BY <1>3, <2>2, <2>3, <2>4 DEF TypeOK, Reclaim, work
<1>4. CASE Timer(r)
  BY <1>4, JobAssumption DEF TypeOK, Steps, Timer, table, work
<1>5. CASE Select(r)
  <2>1. PICK S \in FirstDue(Room(r)) :
          LET started == {j \in S \cap Catalogue[r] : task[r][j] = "none"} IN
          /\ task' = [task EXCEPT ![r] = [j \in Job |-> IF j \in started THEN "picked" ELSE @[j]]]
          /\ awaited' = [awaited EXCEPT ![r] = started]
    BY <1>5 DEF Select
  <2>2. S \subseteq Job BY DEF FirstDue
  <2>3. awaited' \in [Runner -> SUBSET Job] BY <2>1, <2>2 DEF TypeOK
  <2>4. task' \in [Runner -> [Job -> {"none", "picked", "running", "ok", "failed"}]]
    BY <2>1 DEF TypeOK
  <2>5. QED BY <1>5, <2>3, <2>4 DEF TypeOK, Steps, Select, table
<1>6. CASE StatementFails(r)
  BY <1>6, RejectType DEF TypeOK, StatementFails, table, work
<1>7. CASE TickDone(r)
  BY <1>7, SettleType DEF TypeOK, TickDone, table, work
<1>8. CASE Stop(r)
  BY <1>8 DEF TypeOK, Steps, Stop, table, work
<1>9. CASE HandBack(r)
  BY <1>9, ClearType DEF TypeOK, Steps, HandBack, work
<1>10. CASE Exit(r)
  BY <1>10 DEF TypeOK, Steps, Exit, table
<1>11. QED
  BY <1>1, <1>2, <1>3, <1>4, <1>5, <1>6, <1>7, <1>8, <1>9, <1>10 DEF RunnerStep

\* A claim either takes the row or finds it taken.
LEMMA ClaimEffect ==
  ASSUME NEW r \in Runner, NEW j \in Job, Claim(r, j)
  PROVE  /\ task[r][j] = "picked"
         /\ UNCHANGED <<listed, dueIn, cfails, rested, process, dbUp, tod>>
         /\ \/ /\ Claimable(j)
               /\ holder' = [holder EXCEPT ![j] = r] /\ age' = [age EXCEPT ![j] = 0]
               /\ task' = [task EXCEPT ![r][j] = "running"]
               /\ held' = [held EXCEPT ![r][j] = 0]
            \/ /\ task' = [task EXCEPT ![r][j] = "none"]
               /\ UNCHANGED <<holder, age, held>>
BY Zenon DEF Claim

LEMMA TaskStepType ==
  ASSUME TypeOK, NEW r \in Runner, NEW j \in Job, TaskStep(r, j)
  PROVE  TypeOK'
<1>1. CASE Register(r, j)
  BY <1>1 DEF TypeOK, Register, work
<1>2. CASE Claim(r, j)
  <2>1. UNCHANGED <<listed, dueIn, cfails, rested, pc, registered, stopping, failures, wait, todo,
                    awaited, dbUp, tod>>
    BY <1>2, ClaimEffect DEF process
  <2>2. CASE /\ holder' = [holder EXCEPT ![j] = r] /\ age' = [age EXCEPT ![j] = 0]
             /\ task' = [task EXCEPT ![r][j] = "running"]
             /\ held' = [held EXCEPT ![r][j] = 0]
    BY <2>1, <2>2 DEF TypeOK
  <2>3. CASE task' = [task EXCEPT ![r][j] = "none"] /\ UNCHANGED <<holder, age, held>>
    BY <2>1, <2>3 DEF TypeOK
  <2>4. QED BY <1>2, <2>2, <2>3, ClaimEffect
<1>3. CASE ClaimFails(r, j)
  BY <1>3, RejectType DEF TypeOK, ClaimFails, table
<1>4. ASSUME NEW outcome \in {"ok", "failed"}, Finish(r, j, outcome) PROVE TypeOK'
  BY <1>4 DEF TypeOK, Finish, table, process
<1>5. CASE Release(r, j)
  <2> DEFINE ok == task[r][j] = "ok"
             n  == IF ok THEN 0 ELSE Least(cfails[j] + 1, MaxFails)
  <2>1. n \in Nat BY BoundAssumption DEF TypeOK, Least
  <2>2. NextDelay(j, ok, n) \in Nat BY <2>1, NextDelayPositive DEF TypeOK
  <2>3. dueIn' \in [Job -> Int] /\ cfails' \in [Job -> Nat]
    BY <1>5, <2>1, <2>2 DEF Release, TypeOK
  <2>4. QED BY <1>5, <2>3, ClearType DEF TypeOK, Release, process
<1>6. CASE ReleaseFails(r, j)
  BY <1>6 DEF TypeOK, ReleaseFails, table, process
<1>7. QED BY <1>1, <1>2, <1>3, <1>4, <1>5, <1>6 DEF TaskStep

\* The longest delay is a length of time.
LEMMA MaxRestNat == \A j \in Job : MaxRest(j) \in Nat
BY CadencePositive, DayAssumption, BoundAssumption DEF MaxRest, Greatest

LEMMA AdvanceType ==
  ASSUME TypeOK, Advance
  PROVE  TypeOK'
<1>1. tod' \in 0 .. Day - 1 BY DayAssumption DEF Advance, TypeOK
<1>2. dueIn' \in [Job -> Int] BY BoundAssumption DEF Advance, TypeOK, Greatest
<1>3. age' \in [Job -> Nat] BY JobAssumption DEF Advance, TypeOK, Least
<1>4. rested' \in [Job -> Nat] BY MaxRestNat DEF Advance, TypeOK, Least
<1>5. held' \in [Runner -> [Job -> Nat]] BY JobAssumption DEF Advance, TypeOK, Least
<1>6. wait' \in [Runner -> Nat] BY DEF Advance, TypeOK, Greatest
<1>7. QED BY <1>1, <1>2, <1>3, <1>4, <1>5, <1>6 DEF Advance, TypeOK

LEMMA NextType == TypeOK /\ [Next]_vars => TypeOK'
<1> SUFFICES ASSUME TypeOK, [Next]_vars PROVE TypeOK'
  OBVIOUS
<1>1. CASE \E r \in Runner : RunnerStep(r) BY <1>1, RunnerStepType
<1>2. CASE \E r \in Runner, j \in Job : TaskStep(r, j) BY <1>2, TaskStepType
<1>3. CASE DbChanges BY <1>3 DEF DbChanges, TypeOK, table, process, work
<1>4. CASE Advance BY <1>4, AdvanceType
<1>5. CASE UNCHANGED vars BY <1>5 DEF vars, table, process, work, TypeOK
<1>6. QED BY <1>1, <1>2, <1>3, <1>4, <1>5 DEF Next, SomeStep

LEMMA InitType == Init => TypeOK
BY MaxRestNat, JobAssumption, DayAssumption DEF Init, TypeOK, Steps

\* Every reachable state is well typed.
THEOREM TypeCorrect == Spec => []TypeOK
BY InitType, NextType, PTL DEF Spec

------------------------------------------------------------------------------
(* A claimed row is a due row.                                             *)

LEMMA ClearOnly ==
  ASSUME NEW S, Clear(S), NEW j \in Job, holder'[j] # NoRunner
  PROVE  j \notin S /\ holder'[j] = holder[j]
BY DEF Clear

LEMMA ClaimedIsDueStep == TypeOK /\ ClaimedIsDue /\ [Next]_vars => ClaimedIsDue'
<1> SUFFICES ASSUME TypeOK, ClaimedIsDue, [Next]_vars, NEW k \in Job, holder'[k] # NoRunner
             PROVE  k \in listed' /\ dueIn'[k] <= 0
  BY DEF ClaimedIsDue
<1>1. ASSUME NEW r \in Runner, RunnerStep(r) PROVE k \in listed' /\ dueIn'[k] <= 0
  <2>1. CASE Reclaim(r)
    <3>1. Clear(todo[r]) /\ UNCHANGED <<listed, dueIn>> BY <2>1 DEF Reclaim
    <3>2. QED BY <3>1, ClearOnly DEF ClaimedIsDue
  <2>2. CASE HandBack(r)
    <3>1. Clear({j \in Job : dbUp /\ holder[j] = r}) /\ UNCHANGED <<listed, dueIn>>
      BY <2>2 DEF HandBack
    <3>2. QED BY <3>1, ClearOnly DEF ClaimedIsDue
  <2>3. CASE UNCHANGED table
    BY <2>3 DEF ClaimedIsDue, table
  <2>4. QED
    BY <1>1, <2>1, <2>2, <2>3
    DEF RunnerStep, Start, FindDead, Timer, Select, StatementFails, TickDone, Stop, Exit
<1>2. ASSUME NEW r \in Runner, NEW j \in Job, TaskStep(r, j) PROVE k \in listed' /\ dueIn'[k] <= 0
  <2>1. CASE Register(r, j)
    BY <2>1 DEF Register, ClaimedIsDue, TypeOK
  <2>2. CASE Claim(r, j)
    <3>1. UNCHANGED <<listed, dueIn>> BY <2>2, ClaimEffect
    <3>2. CASE holder' = holder BY <3>1, <3>2 DEF ClaimedIsDue
    <3>3. CASE Claimable(j) /\ holder' = [holder EXCEPT ![j] = r]
      BY <3>1, <3>3 DEF Claimable, ClaimedIsDue, TypeOK
    <3>4. QED BY <2>2, <3>2, <3>3, ClaimEffect
  <2>3. CASE Release(r, j)
    <3>1. Clear({j}) /\ listed' = listed BY <2>3 DEF Release
    <3>2. k # j /\ holder'[k] = holder[k] BY <3>1, ClearOnly
    <3>3. dueIn'[k] = dueIn[k] BY <2>3, <3>2 DEF Release, TypeOK
    <3>4. QED BY <3>1, <3>2, <3>3 DEF ClaimedIsDue
  <2>4. CASE UNCHANGED table
    BY <2>4 DEF ClaimedIsDue, table
  <2>5. QED
    BY <1>2, <2>1, <2>2, <2>3, <2>4 DEF TaskStep, ClaimFails, Finish, ReleaseFails
<1>3. CASE DbChanges \/ UNCHANGED vars
  BY <1>3 DEF DbChanges, vars, table, ClaimedIsDue
<1>4. CASE Advance
  <2>1. holder[k] # NoRunner /\ listed' = listed BY <1>4 DEF Advance
  <2>2. k \in listed /\ dueIn[k] <= 0 BY <2>1 DEF ClaimedIsDue
  <2>3. dueIn'[k] = Greatest(dueIn[k] - 1, -MaxLate) BY <1>4, <2>2 DEF Advance
  <2>4. QED BY <2>1, <2>2, <2>3, BoundAssumption DEF Greatest, TypeOK
<1>5. QED BY <1>1, <1>2, <1>3, <1>4 DEF Next, SomeStep

\* In every reachable state a claimed row is due: losing the process that holds it
\* costs the rest of its lease and nothing else.
THEOREM ClaimedStaysDue == Spec => []ClaimedIsDue
<1>1. Init => ClaimedIsDue BY DEF Init, ClaimedIsDue
<1>2. QED BY <1>1, ClaimedIsDueStep, TypeCorrect, PTL DEF Spec

------------------------------------------------------------------------------
(* Exclusion, for the behaviours in which the scheduler's assumptions hold. *)

\* What makes a claim exclusive: whoever has a job in hand is on its row, and the
\* row's lease has run exactly as long as the run has.
Owner ==
  \A r \in Runner, j \in Job : InFlight(r, j) => holder[j] = r /\ age[j] = held[r][j]

Inv == TypeOK /\ Timely /\ Owner

\* A runner that finds a row free shares it with nobody.
LEMMA ClaimableIsFree ==
  ASSUME Inv, NEW j \in Job, Claimable(j), NEW q \in Runner
  PROVE  ~InFlight(q, j)
<1> SUFFICES ASSUME InFlight(q, j) PROVE FALSE
  OBVIOUS
<1>1. holder[j] = q /\ age[j] = held[q][j] BY DEF Inv, Owner
<1>2. held[q][j] <= Lease[j] BY DEF Inv, Timely
<1>3. holder[j] # NoRunner BY <1>1, RunnerAssumption
<1>4. age[j] > Lease[j] BY <1>3 DEF Claimable, Expired
<1>5. age[j] \in Nat /\ Lease[j] \in Nat BY JobAssumption DEF Inv, TypeOK
<1>6. QED BY <1>1, <1>2, <1>4, <1>5

\* Who has a job in hand after a step, and for how long, as far as it changed.
LEMMA RunnerStepOwner ==
  ASSUME Inv, NEW r \in Runner, RunnerStep(r)
  PROVE  Owner'
<1> SUFFICES ASSUME NEW q \in Runner, NEW k \in Job, InFlight(q, k)'
             PROVE  holder'[k] = q /\ age'[k] = held'[q][k]
  BY DEF Owner
<1>1. CASE Reclaim(r)
  <2>1. Clear(todo[r]) /\ UNCHANGED work /\ pc[r] = "reclaiming" BY <1>1 DEF Reclaim
  <2>2. InFlight(q, k) /\ held' = held BY <2>1 DEF work, InFlight
  <2>3. k \notin todo[r] BY <2>1, <2>2 DEF Inv, Timely
  <2>4. holder'[k] = holder[k] /\ age'[k] = age[k] BY <2>1, <2>3 DEF Clear
  <2>5. QED BY <2>2, <2>4 DEF Inv, Owner
<1>2. CASE HandBack(r)
  <2>1. Clear({j \in Job : dbUp /\ holder[j] = r}) /\ UNCHANGED work /\ pc[r] = "handback"
    BY <1>2 DEF HandBack
  <2>2. InFlight(q, k) /\ held' = held BY <2>1 DEF work, InFlight
  <2>3. holder[k] = q /\ age[k] = held[q][k] BY <2>2 DEF Inv, Owner
  <2>4. q # r BY <2>1, <2>2 DEF Inv, Timely
  <2>5. holder'[k] = holder[k] /\ age'[k] = age[k] BY <2>1, <2>3, <2>4 DEF Clear
  <2>6. QED BY <2>2, <2>3, <2>5
<1>3. CASE Select(r)
  <2>1. UNCHANGED <<table, held>> BY <1>3 DEF Select
  <2>2. InFlight(q, k)
    <3>1. PICK started \in SUBSET Job :
            task' = [task EXCEPT ![r] = [j \in Job |-> IF j \in started THEN "picked" ELSE @[j]]]
      BY <1>3 DEF Select, FirstDue
    <3>2. task'[q][k] = task[q][k] \/ task'[q][k] = "picked" BY <3>1 DEF Inv, TypeOK
    <3>3. QED BY <3>2 DEF InFlight
  <2>3. QED BY <2>1, <2>2 DEF table, Inv, Owner
<1>4. CASE Exit(r)
  <2>1. UNCHANGED table BY <1>4 DEF Exit
  <2>2. q # r BY <1>4 DEF Exit, InFlight, Inv, TypeOK
  <2>3. InFlight(q, k) /\ held'[q] = held[q] BY <1>4, <2>2 DEF Exit, InFlight, Inv, TypeOK
  <2>4. QED BY <2>1, <2>3 DEF table, Inv, Owner
<1>5. CASE UNCHANGED <<table, work>>
  BY <1>5 DEF table, work, Inv, Owner, InFlight
<1>6. QED
  BY <1>1, <1>2, <1>3, <1>4, <1>5
  DEF RunnerStep, Start, FindDead, Timer, StatementFails, TickDone, Stop

LEMMA TaskStepOwner ==
  ASSUME Inv, NEW r \in Runner, NEW j \in Job, TaskStep(r, j)
  PROVE  Owner'
<1> SUFFICES ASSUME NEW q \in Runner, NEW k \in Job, InFlight(q, k)'
             PROVE  holder'[k] = q /\ age'[k] = held'[q][k]
  BY DEF Owner
<1>1. CASE Register(r, j)
  BY <1>1 DEF Register, work, Inv, Owner, InFlight
<1>2. CASE Claim(r, j)
  <2>1. CASE /\ Claimable(j)
             /\ holder' = [holder EXCEPT ![j] = r] /\ age' = [age EXCEPT ![j] = 0]
             /\ task' = [task EXCEPT ![r][j] = "running"]
             /\ held' = [held EXCEPT ![r][j] = 0]
    <3>1. CASE k = j
      <4>1. q = r
        <5> SUFFICES ASSUME q # r PROVE FALSE
          OBVIOUS
        <5>1. InFlight(q, j) BY <2>1, <3>1 DEF InFlight, Inv, TypeOK
        <5>2. QED BY <5>1, <2>1, ClaimableIsFree
      <4>2. QED BY <2>1, <3>1, <4>1 DEF Inv, TypeOK
    <3>2. CASE k # j
      <4>1. InFlight(q, k) BY <2>1, <3>2 DEF InFlight, Inv, TypeOK
      <4>2. QED BY <2>1, <3>2, <4>1 DEF Inv, TypeOK, Owner
    <3>3. QED BY <3>1, <3>2
  <2>2. CASE task' = [task EXCEPT ![r][j] = "none"] /\ UNCHANGED <<holder, age, held>>
    <3>1. InFlight(q, k) BY <2>2 DEF InFlight, Inv, TypeOK
    <3>2. QED BY <2>2, <3>1 DEF Inv, Owner
  <2>3. QED BY <1>2, <2>1, <2>2, ClaimEffect
<1>3. CASE ClaimFails(r, j)
  <2>1. InFlight(q, k) BY <1>3 DEF ClaimFails, InFlight, Inv, TypeOK
  <2>2. QED BY <1>3, <2>1 DEF ClaimFails, table, Inv, Owner
<1>4. ASSUME NEW outcome \in {"ok", "failed"}, Finish(r, j, outcome)
      PROVE  holder'[k] = q /\ age'[k] = held'[q][k]
  <2>1. InFlight(q, k) BY <1>4 DEF Finish, InFlight, Inv, TypeOK
  <2>2. QED BY <1>4, <2>1 DEF Finish, table, Inv, Owner
<1>5. CASE Release(r, j)
  <2>1. InFlight(r, j) /\ Clear({j}) BY <1>5 DEF Release, InFlight
  <2>2. holder[j] = r BY <2>1 DEF Inv, Owner
  <2>3. InFlight(q, k) /\ ~(q = r /\ k = j)
    BY <1>5 DEF Release, InFlight, Inv, TypeOK
  <2>4. holder[k] = q /\ age[k] = held[q][k] BY <2>3 DEF Inv, Owner
  <2>5. k # j BY <2>2, <2>3, <2>4
  <2>6. holder'[k] = holder[k] /\ age'[k] = age[k] BY <2>1, <2>5 DEF Clear
  <2>7. held'[q][k] = held[q][k] BY <1>5, <2>5 DEF Release, Inv, TypeOK
  <2>8. QED BY <2>4, <2>6, <2>7
<1>6. CASE ReleaseFails(r, j)
  <2>1. InFlight(q, k) /\ ~(q = r /\ k = j)
    BY <1>6 DEF ReleaseFails, InFlight, Inv, TypeOK
  <2>2. held'[q][k] = held[q][k] BY <1>6, <2>1 DEF ReleaseFails, Inv, TypeOK
  <2>3. QED BY <1>6, <2>1, <2>2 DEF ReleaseFails, table, Inv, Owner
<1>7. QED BY <1>1, <1>2, <1>3, <1>4, <1>5, <1>6 DEF TaskStep

LEMMA AdvanceOwner ==
  ASSUME Inv, Advance
  PROVE  Owner'
<1> SUFFICES ASSUME NEW q \in Runner, NEW k \in Job, InFlight(q, k)'
             PROVE  holder'[k] = q /\ age'[k] = held'[q][k]
  BY DEF Owner
<1>1. InFlight(q, k) BY DEF Advance, InFlight
<1>2. holder[k] = q /\ age[k] = held[q][k] BY <1>1 DEF Inv, Owner
<1>3. held'[q][k] = Least(held[q][k] + 1, Lease[k] + 1)
  BY <1>1 DEF Advance
<1>4. age'[k] = Least(age[k] + 1, Lease[k] + 1)
  BY <1>2, RunnerAssumption DEF Advance
<1>5. QED BY <1>2, <1>3, <1>4 DEF Advance

LEMMA OwnerNext ==
  ASSUME Inv, Next
  PROVE  Owner'
<1>1. CASE \E r \in Runner : RunnerStep(r)
  <2>1. PICK r \in Runner : RunnerStep(r) BY <1>1
  <2>2. QED BY <2>1, RunnerStepOwner
<1>2. CASE \E r \in Runner, j \in Job : TaskStep(r, j)
  <2>1. PICK r \in Runner, j \in Job : TaskStep(r, j) BY <1>2
  <2>2. QED BY <2>1, TaskStepOwner
<1>3. CASE DbChanges
  <2>1. UNCHANGED table /\ UNCHANGED work BY <1>3 DEF DbChanges
  <2>2. Owner BY DEF Inv
  <2>3. QED BY <2>1, <2>2 DEF table, work, Owner, InFlight
<1>4. CASE Advance BY <1>4, AdvanceOwner
<1>5. QED BY <1>1, <1>2, <1>3, <1>4 DEF Next, SomeStep

LEMMA OwnerStep == Inv /\ [Next /\ Timely']_vars => Inv'
<1> SUFFICES ASSUME Inv, [Next /\ Timely']_vars PROVE Inv'
  OBVIOUS
<1>1. TypeOK'
  <2>1. [Next]_vars OBVIOUS
  <2>2. TypeOK BY DEF Inv
  <2>3. QED BY <2>1, <2>2, NextType
<1>2. CASE Next /\ Timely'
  <2>1. Owner' BY <1>2, OwnerNext
  <2>2. QED BY <1>1, <1>2, <2>1 DEF Inv
<1>3. CASE UNCHANGED vars
  <2>1. Owner /\ Timely BY DEF Inv
  <2>2. Owner' BY <1>3, <2>1 DEF vars, table, work, Owner, InFlight
  <2>3. Timely' BY <1>3, <2>1 DEF vars, process, work, Timely, InFlight
  <2>4. QED BY <1>1, <2>2, <2>3 DEF Inv
<1>4. QED BY <1>2, <1>3

LEMMA OwnerInit == Init => Inv
<1>1. Init => Timely /\ Owner BY DEF Init, Timely, Owner, InFlight
<1>2. QED BY <1>1, InitType DEF Inv

LEMMA OwnerAlways == TimelySpec => []Inv
BY OwnerInit, OwnerStep, PTL DEF TimelySpec

\* No job is ever in the hands of two runners, as long as runs fit their leases,
\* reclaiming does not race a take-over and stop() gives back nothing it runs.
THEOREM OneRunnerPerJob == TimelySpec => []Exclusive
<1>1. Inv => Exclusive BY DEF Inv, Owner, Exclusive
<1>2. QED BY <1>1, OwnerAlways, PTL

------------------------------------------------------------------------------
(* The same as a refinement of ExclusiveJobs.                              *)

At == [j \in Job |-> {r \in Runner : InFlight(r, j)}]

\* Steps after which the same runners have the same jobs in hand.
LEMMA SameHands ==
  ASSUME \A q \in Runner, k \in Job : InFlight(q, k)' <=> InFlight(q, k)
  PROVE  At' = At
BY DEF At

\* A runner that puts down the jobs of S.
LEMMA HandsPutDown ==
  ASSUME NEW r \in Runner, NEW S \in SUBSET Job,
         \A q \in Runner, k \in Job : InFlight(q, k)' <=> InFlight(q, k) /\ ~(q = r /\ k \in S)
  PROVE  At' = [j \in Job |-> IF j \in S THEN At[j] \ {r} ELSE At[j]]
BY DEF At

\* Every step of a runner takes a job that nobody has, puts some down, or neither.
LEMMA RunnerStepMaps ==
  ASSUME TypeOK, NEW r \in Runner, RunnerStep(r)
  PROVE  At' = At \/ Abstract!PutDown(r, Job)
<1>1. CASE Select(r)
  <2>1. PICK started \in SUBSET Job :
          /\ \A j \in started : task[r][j] = "none"
          /\ task' = [task EXCEPT ![r] = [j \in Job |-> IF j \in started THEN "picked" ELSE @[j]]]
    BY <1>1 DEF Select, FirstDue
  <2>2. \A q \in Runner, k \in Job : InFlight(q, k)' <=> InFlight(q, k)
    BY <2>1 DEF InFlight, TypeOK
  <2> QED
    BY <2>2, SameHands
<1>2. CASE Exit(r)
  <2>1. \A q \in Runner, k \in Job : InFlight(q, k)' <=> InFlight(q, k) /\ ~(q = r /\ k \in Job)
    BY <1>2 DEF Exit, InFlight, TypeOK
  <2> QED
    BY <2>1, HandsPutDown DEF Abstract!PutDown, At
<1>3. CASE UNCHANGED work
  BY <1>3, SameHands DEF work, InFlight
<1> QED
  BY <1>1, <1>2, <1>3
  DEF RunnerStep, Start, FindDead, Reclaim, Timer, StatementFails, TickDone, Stop, HandBack

LEMMA TaskStepMaps ==
  ASSUME Inv, NEW r \in Runner, NEW j \in Job, TaskStep(r, j)
  PROVE  At' = At \/ Abstract!Take(r, j) \/ Abstract!PutDown(r, {j})
<1>0. TypeOK
  BY DEF Inv
<1>1. CASE Register(r, j)
  BY <1>1, SameHands DEF Register, work, InFlight
<1>2. CASE Claim(r, j)
  <2>1. CASE Claimable(j) /\ task' = [task EXCEPT ![r][j] = "running"]
    <3>1. \A q \in Runner : ~InFlight(q, j)
      BY <2>1, ClaimableIsFree
    <3>2. \A q \in Runner, k \in Job : InFlight(q, k)' <=> InFlight(q, k) \/ (q = r /\ k = j)
      BY <1>0, <2>1 DEF InFlight, TypeOK
    <3>3. At[j] = {}
      BY <3>1 DEF At
    <3>4. At' = [At EXCEPT ![j] = {r}]
      BY <3>1, <3>2 DEF At
    <3> QED
      BY <3>3, <3>4 DEF Abstract!Take, At
  <2>2. CASE task' = [task EXCEPT ![r][j] = "none"]
    <3>1. task[r][j] = "picked"
      BY <1>2, ClaimEffect
    <3>2. \A q \in Runner, k \in Job : InFlight(q, k)' <=> InFlight(q, k)
      BY <1>0, <2>2, <3>1 DEF InFlight, TypeOK
    <3> QED
      BY <3>2, SameHands
  <2> QED
    BY <1>2, <2>1, <2>2, ClaimEffect
<1>3. CASE ClaimFails(r, j)
  <2>1. \A q \in Runner, k \in Job : InFlight(q, k)' <=> InFlight(q, k)
    BY <1>0, <1>3 DEF ClaimFails, InFlight, TypeOK
  <2> QED
    BY <2>1, SameHands
<1>4. ASSUME NEW outcome \in {"ok", "failed"}, Finish(r, j, outcome) PROVE At' = At
  <2>1. \A q \in Runner, k \in Job : InFlight(q, k)' <=> InFlight(q, k)
    BY <1>0, <1>4 DEF Finish, InFlight, TypeOK
  <2> QED
    BY <2>1, SameHands
<1>5. CASE Release(r, j) \/ ReleaseFails(r, j)
  <2>1. task' = [task EXCEPT ![r][j] = "none"]
    BY <1>5 DEF Release, ReleaseFails
  <2>2. \A q \in Runner, k \in Job : InFlight(q, k)' <=> InFlight(q, k) /\ ~(q = r /\ k \in {j})
    BY <1>0, <2>1 DEF InFlight, TypeOK
  <2> QED
    BY <2>2, HandsPutDown DEF Abstract!PutDown, At
<1> QED
  BY <1>1, <1>2, <1>3, <1>4, <1>5 DEF TaskStep

LEMMA StepMaps ==
  ASSUME Inv, [Next]_vars
  PROVE  [Abstract!Next]_At
<1>0. TypeOK
  BY DEF Inv
<1>1. ASSUME NEW r \in Runner, RunnerStep(r) PROVE [Abstract!Next]_At
  <2>1. At' = At \/ Abstract!PutDown(r, Job)
    BY <1>0, <1>1, RunnerStepMaps
  <2> QED
    BY <2>1 DEF Abstract!Next
<1>2. ASSUME NEW r \in Runner, NEW j \in Job, TaskStep(r, j) PROVE [Abstract!Next]_At
  <2>1. At' = At \/ Abstract!Take(r, j) \/ Abstract!PutDown(r, {j})
    BY <1>2, TaskStepMaps
  <2> QED
    BY <2>1 DEF Abstract!Next
<1>3. CASE DbChanges \/ Advance \/ UNCHANGED vars
  <2>1. task' = task
    BY <1>3 DEF DbChanges, Advance, vars, work
  <2> QED
    BY <2>1, SameHands DEF InFlight
<1> QED
  BY <1>1, <1>2, <1>3 DEF Next, SomeStep

\* Seen through the runs in flight, the scheduler is the machine of ExclusiveJobs: claimAndRun
\* takes a job that nobody has, and release or death puts down what this process had.
THEOREM ClaimsAreExclusive == TimelySpec => TakesOnlyFreeJobs
<1>1. Init => Abstract!Init
  BY DEF Init, InFlight, Abstract!Init
<1>2. Inv /\ [Next /\ Timely']_vars => [Abstract!Next]_At
  BY StepMaps
<1> QED
  BY OwnerAlways, <1>1, <1>2, PTL DEF TimelySpec, TakesOnlyFreeJobs, Abstract!Spec, At

------------------------------------------------------------------------------
(* Cadence.                                                                *)

\* More failures make a longer cadence, up to the last that is counted.
LEMMA Power2Grows ==
  ASSUME NEW m \in Nat, NEW n \in Nat, m <= n
  PROVE  Power2(m) <= Power2(n)
<1> DEFINE T == <<1, 2, 4, 8, 16, 32, 64, 128, 256, 512, 1024>>
<1>1. \A a, b \in 1 .. 11 : a <= b => T[a] <= T[b]
  OBVIOUS
<1>2. Least(m, 10) + 1 \in 1 .. 11 /\ Least(n, 10) + 1 \in 1 .. 11
  BY DEF Least
<1>3. Least(m, 10) + 1 <= Least(n, 10) + 1
  BY DEF Least
<1> HIDE DEF T
<1>4. T[Least(m, 10) + 1] <= T[Least(n, 10) + 1]
  BY <1>1, <1>2, <1>3
<1> QED
  BY <1>4 DEF Power2, T

LEMMA CadenceBounded ==
  ASSUME NEW j \in Job \ Daily, NEW n \in 0 .. MaxFails
  PROVE  Cadence(j, n) \in Nat /\ Cadence(j, n) <= MaxRest(j)
<1>1. n \in Nat /\ MaxFails \in Nat /\ n <= MaxFails
  BY BoundAssumption
<1>2. Power2(n) <= Power2(MaxFails) /\ Power2(n) \in Nat /\ Power2(MaxFails) \in Nat
  BY <1>1, Power2Grows, Power2Positive
<1>3. Least(Power2(n), 16) <= Least(Power2(MaxFails), 16)
  BY <1>2 DEF Least
<1>4. Least(Power2(n), 16) \in Nat /\ Least(Power2(MaxFails), 16) \in Nat
  BY <1>2 DEF Least
<1>5. Every[j] * Least(Power2(n), 16) <= Every[j] * Least(Power2(MaxFails), 16)
  <2> DEFINE x == Least(Power2(n), 16)
             y == Least(Power2(MaxFails), 16)
             e == Every[j]
  <2>1. x \in Nat /\ y \in Nat /\ x <= y /\ e \in Nat
    BY <1>3, <1>4, JobAssumption
  <2> HIDE DEF x, y, e
  <2>2. e * x <= e * y
    BY <2>1
  <2> QED
    BY <2>2 DEF x, y, e
<1> QED
  BY <1>1, <1>5, CadencePositive DEF MaxRest, Cadence

\* next_run_at is never nearer than what is left of the cadence, and a job in hand has a row.
Rests(j) ==
  /\ cfails[j] <= MaxFails
  /\ j \notin listed => rested[j] >= Cadence(j, cfails[j])
  /\ j \in listed /\ dueIn[j] <= 0 => rested[j] >= Cadence(j, cfails[j])
  /\ j \in listed /\ dueIn[j] > 0 => rested[j] + dueIn[j] >= Cadence(j, cfails[j])
InHandIsListed == \A r \in Runner, j \in Job : InFlight(r, j) => j \in listed
RestInv == TypeOK /\ InHandIsListed /\ \A j \in Job \ Daily : Rests(j)

LEMMA RestInit == Init => RestInv
<1> SUFFICES ASSUME Init PROVE RestInv
  OBVIOUS
<1>1. ASSUME NEW j \in Job \ Daily PROVE Rests(j)
  <2>1. 0 \in 0 .. MaxFails
    BY BoundAssumption
  <2>2. Cadence(j, 0) <= MaxRest(j)
    BY <2>1, CadenceBounded
  <2>3. cfails[j] = 0 /\ rested[j] = MaxRest(j) /\ dueIn[j] = 0
    BY DEF Init
  <2> QED
    BY <2>1, <2>2, <2>3 DEF Rests
<1>2. InHandIsListed
  BY DEF Init, InHandIsListed, InFlight
<1> QED
  BY <1>1, <1>2, InitType DEF RestInv

\* A job in hand keeps its row.
LEMMA ListedStep == TypeOK /\ InHandIsListed /\ [Next]_vars => InHandIsListed'
<1> SUFFICES ASSUME TypeOK, InHandIsListed, [Next]_vars PROVE InHandIsListed'
  OBVIOUS
<1>1. listed \subseteq listed'
  BY DEF Next, SomeStep, RunnerStep, TaskStep, Start, FindDead, Reclaim, Timer, Select,
     StatementFails, TickDone, Stop, HandBack, Exit, Register, Claim, ClaimFails, Finish, Release,
     ReleaseFails, DbChanges, Advance, table, vars
<1>2. ASSUME NEW q \in Runner, NEW k \in Job, InFlight(q, k)' PROVE InFlight(q, k) \/ k \in listed
  <2>1. ASSUME NEW r \in Runner, RunnerStep(r) PROVE InFlight(q, k)
    <3>1. CASE Select(r)
      <4>1. PICK started \in SUBSET Job :
              task' = [task EXCEPT ![r] = [j \in Job |-> IF j \in started THEN "picked" ELSE @[j]]]
        BY <3>1 DEF Select, FirstDue
      <4> QED
        BY <1>2, <4>1 DEF InFlight, TypeOK
    <3>2. CASE Exit(r)
      BY <1>2, <3>2 DEF Exit, InFlight, TypeOK
    <3>3. CASE UNCHANGED work
      BY <1>2, <3>3 DEF work, InFlight
    <3> QED
      BY <2>1, <3>1, <3>2, <3>3
      DEF RunnerStep, Start, FindDead, Reclaim, Timer, StatementFails, TickDone, Stop, HandBack
  <2>2. ASSUME NEW r \in Runner, NEW j \in Job, TaskStep(r, j) PROVE InFlight(q, k) \/ k \in listed
    <3>1. CASE Claim(r, j)
      <4>1. CASE Claimable(j) /\ task' = [task EXCEPT ![r][j] = "running"]
        BY <1>2, <4>1 DEF Claimable, InFlight, TypeOK
      <4>2. CASE task' = [task EXCEPT ![r][j] = "none"]
        BY <1>2, <4>2 DEF InFlight, TypeOK
      <4> QED
        BY <3>1, <4>1, <4>2, ClaimEffect
    <3>2. CASE ClaimFails(r, j)
      BY <1>2, <3>2 DEF ClaimFails, InFlight, TypeOK
    <3>3. ASSUME NEW outcome \in {"ok", "failed"}, Finish(r, j, outcome) PROVE InFlight(q, k)
      BY <1>2, <3>3 DEF Finish, InFlight, TypeOK
    <3>4. CASE Release(r, j) \/ ReleaseFails(r, j)
      <4>1. task' = [task EXCEPT ![r][j] = "none"]
        BY <3>4 DEF Release, ReleaseFails
      <4> QED
        BY <1>2, <4>1 DEF InFlight, TypeOK
    <3>5. CASE Register(r, j)
      BY <1>2, <3>5 DEF Register, work, InFlight
    <3> QED
      BY <2>2, <3>1, <3>2, <3>3, <3>4, <3>5 DEF TaskStep
  <2>3. CASE DbChanges \/ Advance \/ UNCHANGED vars
    BY <1>2, <2>3 DEF DbChanges, Advance, vars, work, InFlight
  <2> QED
    BY <2>1, <2>2, <2>3 DEF Next, SomeStep
<1> QED
  BY <1>1, <1>2 DEF InHandIsListed

\* Only register, release and the clock move what Rests speaks of.
LEMMA RestsStep ==
  ASSUME RestInv, [Next]_vars, NEW k \in Job \ Daily
  PROVE  Rests(k)'
<1>0. TypeOK /\ InHandIsListed /\ Rests(k)
  BY DEF RestInv
<1>a. cfails[k] \in Nat /\ rested[k] \in Nat /\ dueIn[k] \in Int
  BY <1>0 DEF TypeOK
<1>b. CASE UNCHANGED <<listed, dueIn, cfails, rested>>
  BY <1>0, <1>b DEF Rests
<1>1. ASSUME NEW r \in Runner, RunnerStep(r) PROVE Rests(k)'
  <2>1. UNCHANGED <<listed, dueIn, cfails, rested>>
    BY <1>1 DEF RunnerStep, Start, FindDead, Reclaim, Timer, Select, StatementFails, TickDone, Stop,
       HandBack, Exit, table
  <2> QED
    BY <1>b, <2>1
<1>2. ASSUME NEW r \in Runner, NEW j \in Job, TaskStep(r, j) PROVE Rests(k)'
  <2>1. CASE Register(r, j)
    <3>1. cfails' = cfails /\ rested' = rested /\ listed' = listed \cup {j}
      BY <2>1 DEF Register
    <3>2. dueIn'[k] = IF k = j /\ k \notin listed THEN 0 ELSE dueIn[k]
      BY <1>0, <2>1 DEF Register, TypeOK
    <3> QED
      BY <1>0, <3>1, <3>2 DEF Rests
  <2>2. CASE Release(r, j)
    <3> DEFINE ok == task[r][j] = "ok"
               n  == IF ok THEN 0 ELSE Least(cfails[j] + 1, MaxFails)
    <3>1. j \in listed /\ listed' = listed
      BY <1>0, <2>2 DEF Release, InHandIsListed, InFlight
    <3>2. CASE k = j
      <4>1. n \in 0 .. MaxFails
        BY <1>a, <3>2, BoundAssumption DEF Least
      <4>2. cfails'[k] = n /\ rested'[k] = 0 /\ dueIn'[k] = NextDelay(j, ok, n)
        BY <1>0, <2>2, <3>2 DEF Release, TypeOK
      <4>3. NextDelay(j, ok, n) = Cadence(j, n)
        BY <3>2 DEF NextDelay
      <4>4. Cadence(j, n) \in Nat
        BY <3>2, <4>1, CadenceBounded
      <4>5. Cadence(k, cfails[k])' = Cadence(j, n)
        BY <3>2, <4>2 DEF Cadence
      <4> HIDE DEF n, ok
      <4>6. Cadence(j, n) >= Every[j] /\ Every[j] \in Nat \ {0}
        <5>1. n \in Nat
          BY <4>1
        <5> QED
          BY <5>1, CadencePositive, JobAssumption
      <4> QED
        BY <3>1, <3>2, <4>1, <4>2, <4>3, <4>4, <4>5, <4>6 DEF Rests
    <3>3. CASE k # j
      <4>1. cfails'[k] = cfails[k] /\ rested'[k] = rested[k] /\ dueIn'[k] = dueIn[k]
        BY <1>0, <2>2, <3>3 DEF Release, TypeOK
      <4>2. Cadence(k, cfails[k])' = Cadence(k, cfails[k])
        BY <4>1 DEF Cadence
      <4> QED
        BY <1>0, <3>1, <4>1, <4>2 DEF Rests
    <3> QED
      BY <3>2, <3>3
  <2>3. CASE UNCHANGED <<listed, dueIn, cfails, rested>>
    BY <1>b, <2>3
  <2> QED
    BY <1>2, <2>1, <2>2, <2>3 DEF TaskStep, Claim, ClaimFails, Finish, ReleaseFails, table
<1>3. CASE Advance
  <2> DEFINE c == Cadence(k, cfails[k])
             m == MaxRest(k)
  <2>1. c \in Nat /\ m \in Nat /\ c <= m
    BY <1>0, <1>a, CadenceBounded, MaxRestNat, BoundAssumption DEF Rests
  <2>2. cfails' = cfails /\ listed' = listed /\ Cadence(k, cfails[k])' = c
    BY <1>3 DEF Advance, Cadence
  <2>3. rested'[k] = Least(rested[k] + 1, m)
    BY <1>3 DEF Advance
  <2>4. dueIn'[k] = IF k \in listed THEN Greatest(dueIn[k] - 1, -MaxLate) ELSE 0
    BY <1>3 DEF Advance
  <2> HIDE DEF c, m
  <2>5. MaxLate \in Nat
    BY BoundAssumption
  <2>6. rested'[k] >= c \/ rested'[k] = rested[k] + 1
    BY <1>a, <2>1, <2>3 DEF Least
  <2>7. rested[k] >= c => rested'[k] >= c
    BY <1>a, <2>1, <2>3 DEF Least
  <2>8. CASE k \notin listed
    BY <1>0, <2>2, <2>7, <2>8 DEF Rests, c
  <2>9. CASE k \in listed /\ dueIn[k] <= 0
    <3>1. rested'[k] >= c
      BY <1>0, <2>7, <2>9 DEF Rests, c
    <3>2. ~(dueIn'[k] > 0)
      BY <1>a, <2>4, <2>5, <2>9 DEF Greatest
    <3> QED
      BY <1>0, <2>2, <2>9, <3>1, <3>2 DEF Rests
  <2>10. CASE k \in listed /\ dueIn[k] > 0
    <3>1. dueIn'[k] = dueIn[k] - 1
      BY <1>a, <2>4, <2>5, <2>10 DEF Greatest
    <3>2. rested[k] + dueIn[k] >= c
      BY <1>0, <2>10 DEF Rests, c
    <3>3. rested'[k] \in Nat
      BY <1>a, <2>1, <2>3 DEF Least
    <3>4. dueIn'[k] <= 0 => rested'[k] >= c
      BY <1>a, <2>1, <2>6, <3>1, <3>2, <3>3
    <3>5. dueIn'[k] > 0 => rested'[k] + dueIn'[k] >= c
      BY <1>a, <2>1, <2>6, <3>1, <3>2, <3>3
    <3> QED
      BY <1>0, <2>2, <2>10, <3>4, <3>5 DEF Rests
  <2> QED
    BY <1>a, <2>8, <2>9, <2>10
<1>4. CASE DbChanges \/ UNCHANGED vars
  BY <1>b, <1>4 DEF DbChanges, vars, table
<1> QED
  BY <1>1, <1>2, <1>3, <1>4 DEF Next, SomeStep

\* A run begins by a claim, and a claim asks for a row that is due.
LEMMA CadenceStep ==
  ASSUME RestInv, [Next]_vars, NEW r \in Runner, NEW j \in Job \ Daily,
         task[r][j] # "running", task'[r][j] = "running"
  PROVE  rested[j] >= Cadence(j, cfails[j])
<1>0. TypeOK /\ Rests(j)
  BY DEF RestInv
<1>1. ASSUME NEW q \in Runner, RunnerStep(q) PROVE FALSE
  <2>1. CASE Select(q)
    <3>1. PICK started \in SUBSET Job :
            task' = [task EXCEPT ![q] = [k \in Job |-> IF k \in started THEN "picked" ELSE @[k]]]
      BY <2>1 DEF Select, FirstDue
    <3> QED
      BY <1>0, <3>1 DEF TypeOK
  <2>2. CASE Exit(q)
    BY <1>0, <2>2 DEF Exit, TypeOK
  <2>3. CASE UNCHANGED work
    BY <2>3 DEF work
  <2> QED
    BY <1>1, <2>1, <2>2, <2>3
    DEF RunnerStep, Start, FindDead, Reclaim, Timer, StatementFails, TickDone, Stop, HandBack
<1>2. ASSUME NEW q \in Runner, NEW k \in Job, TaskStep(q, k) PROVE Claim(q, k)
  <2>1. CASE Register(q, k)
    BY <2>1 DEF Register, work
  <2>2. CASE ClaimFails(q, k)
    BY <1>0, <2>2 DEF ClaimFails, TypeOK
  <2>3. ASSUME NEW outcome \in {"ok", "failed"}, Finish(q, k, outcome) PROVE FALSE
    BY <1>0, <2>3 DEF Finish, TypeOK
  <2>4. CASE Release(q, k) \/ ReleaseFails(q, k)
    <3>1. task' = [task EXCEPT ![q][k] = "none"]
      BY <2>4 DEF Release, ReleaseFails
    <3> QED
      BY <1>0, <3>1 DEF TypeOK
  <2> QED
    BY <1>2, <2>1, <2>2, <2>3, <2>4 DEF TaskStep
<1>3. ASSUME NEW q \in Runner, NEW k \in Job, Claim(q, k) PROVE rested[j] >= Cadence(j, cfails[j])
  <2>1. Claimable(k) /\ k = j
    <3>1. CASE Claimable(k) /\ task' = [task EXCEPT ![q][k] = "running"]
      BY <1>0, <3>1 DEF TypeOK
    <3>2. CASE task' = [task EXCEPT ![q][k] = "none"]
      BY <1>0, <3>2 DEF TypeOK
    <3> QED
      BY <1>3, <3>1, <3>2, ClaimEffect
  <2> QED
    BY <1>0, <2>1 DEF Claimable, Rests
<1>4. CASE DbChanges \/ Advance \/ UNCHANGED vars
  BY <1>4 DEF DbChanges, Advance, vars, work
<1> QED
  BY <1>1, <1>2, <1>3, <1>4 DEF Next, SomeStep

\* However runners interleave, die and take rows over, a run of an interval job begins no
\* sooner than its cadence, lengthened by its failures, after the last recorded finish.
THEOREM CadenceHolds == Spec => CadenceKept
<1>1. RestInv /\ [Next]_vars => RestInv'
  BY NextType, ListedStep, RestsStep DEF RestInv
<1>2. RestInv /\ [Next]_vars =>
        [\A r \in Runner, j \in Job \ Daily :
           task[r][j] # "running" /\ task'[r][j] = "running" =>
             rested[j] >= Cadence(j, cfails[j])]_vars
  BY CadenceStep
<1> QED
  BY RestInit, <1>1, <1>2, PTL DEF Spec, CadenceKept

\* A claim that has not outlived its lease is still there (claimAndRun, release).
THEOREM ClaimsAreKept == TimelySpec => []ClaimKept
<1>1. Inv => ClaimKept BY DEF Inv, Owner, ClaimKept
<1>2. QED BY <1>1, OwnerAlways, PTL

------------------------------------------------------------------------------
(* The hour of a daily job.                                                *)

LEMMA ModDay ==
  ASSUME NEW a \in 0 .. Day - 1
  PROVE  a % Day = a /\ (a + Day) % Day = a /\ (a - Day) % Day = a
BY DayAssumption

\* The next run of a daily job that succeeded is at its hour, today or tomorrow.
HourInv == \A j \in Daily : dueIn[j] > 0 /\ cfails[j] = 0 =>
             tod + dueIn[j] = AtHour[j] \/ tod + dueIn[j] = AtHour[j] + Day

LEMMA UntilHourMeets ==
  ASSUME NEW j \in Daily, NEW t \in 0 .. Day - 1
  PROVE  t + UntilHour(j, t) = AtHour[j] \/ t + UntilHour(j, t) = AtHour[j] + Day
<1> DEFINE h == AtHour[j]
<1>1. h \in 0 .. Day - 1 /\ Day \in Nat \ {0}
  BY DayAssumption
<1> HIDE DEF h
<1>2. CASE t >= h
  <2>1. t - h \in 0 .. Day - 1
    BY <1>1, <1>2
  <2>2. (t - h) % Day = t - h
    BY <2>1, ModDay
  <2> QED
    BY <1>1, <2>2 DEF UntilHour, h
<1>3. CASE t < h
  <2> DEFINE a == t - h + Day
  <2>1. a \in 0 .. Day - 1 /\ a - Day = t - h
    BY <1>1, <1>3
  <2> HIDE DEF a
  <2>2. (a - Day) % Day = a
    BY <2>1, ModDay
  <2>3. (t - h) % Day = a
    BY <2>1, <2>2
  <2> QED
    BY <1>1, <2>3 DEF UntilHour, h, a
<1> QED
  BY <1>1, <1>2, <1>3

LEMMA HourStep == TypeOK /\ HourInv /\ [Next]_vars => HourInv'
<1> SUFFICES ASSUME TypeOK, HourInv, [Next]_vars, NEW k \in Daily, dueIn'[k] > 0, cfails'[k] = 0
             PROVE  tod' + dueIn'[k] = AtHour[k] \/ tod' + dueIn'[k] = AtHour[k] + Day
  BY DEF HourInv
<1>a. CASE dueIn'[k] = dueIn[k] /\ cfails'[k] = cfails[k] /\ tod' = tod
  BY <1>a DEF HourInv
<1>1. ASSUME NEW r \in Runner, RunnerStep(r)
      PROVE  dueIn'[k] = dueIn[k] /\ cfails'[k] = cfails[k] /\ tod' = tod
  BY <1>1 DEF RunnerStep, Start, FindDead, Reclaim, Timer, Select, StatementFails, TickDone, Stop,
     HandBack, Exit, table
<1>2. ASSUME NEW r \in Runner, NEW j \in Job, TaskStep(r, j)
      PROVE  tod' + dueIn'[k] = AtHour[k] \/ tod' + dueIn'[k] = AtHour[k] + Day
  <2>1. CASE Register(r, j)
    <3>1. cfails' = cfails /\ tod' = tod /\ (dueIn'[k] = dueIn[k] \/ dueIn'[k] = 0)
      BY <2>1, JobAssumption DEF Register, TypeOK
    <3> QED
      BY <1>a, <3>1
  <2>2. CASE Release(r, j) /\ k = j
    <3> DEFINE ok == task[r][j] = "ok"
               n  == IF ok THEN 0 ELSE Least(cfails[j] + 1, MaxFails)
    <3>1. cfails'[k] = n /\ dueIn'[k] = NextDelay(j, ok, n) /\ tod' = tod
      BY <2>2 DEF Release, TypeOK
    <3>2. ~ok => n # 0
      BY BoundAssumption DEF Least, TypeOK
    <3>3. ok
      BY <3>1, <3>2
    <3>4. NextDelay(j, ok, n) = UntilHour(k, tod)
      BY <2>2, <3>3 DEF NextDelay
    <3>5. tod \in 0 .. Day - 1
      BY DEF TypeOK
    <3> QED
      BY <3>1, <3>4, <3>5, UntilHourMeets
  <2>3. CASE Release(r, j) /\ k # j
    <3>1. dueIn'[k] = dueIn[k] /\ cfails'[k] = cfails[k] /\ tod' = tod
      BY <2>3, JobAssumption DEF Release, TypeOK
    <3> QED
      BY <1>a, <3>1
  <2>4. CASE UNCHANGED table /\ tod' = tod
    BY <1>a, <2>4 DEF table
  <2>5. CASE Claim(r, j)
    BY <1>a, <2>5, ClaimEffect
  <2> QED
    BY <1>2, <2>1, <2>2, <2>3, <2>4, <2>5 DEF TaskStep, ClaimFails, Finish, ReleaseFails
<1>3. CASE Advance
  <2>0. /\ tod \in 0 .. Day - 1 /\ dueIn[k] \in Int /\ Day \in Nat \ {0}
        /\ AtHour[k] \in 0 .. Day - 1 /\ MaxLate \in Nat
    BY JobAssumption, DayAssumption, BoundAssumption DEF TypeOK
  <2>1. cfails' = cfails /\ tod' = (tod + 1) % Day
    BY <1>3 DEF Advance
  <2>2. dueIn'[k] = Greatest(dueIn[k] - 1, -MaxLate) \/ dueIn'[k] = 0
    BY <1>3, JobAssumption DEF Advance
  <2>3. dueIn'[k] = dueIn[k] - 1 /\ dueIn[k] > 0
    BY <2>0, <2>2 DEF Greatest
  <2>4. tod + dueIn[k] = AtHour[k] \/ tod + dueIn[k] = AtHour[k] + Day
    BY <2>1, <2>3 DEF HourInv
  <2>5. CASE tod + 1 < Day
    <3>1. tod + 1 \in 0 .. Day - 1
      BY <2>0, <2>5
    <3>2. tod' = tod + 1
      BY <2>1, <3>1, ModDay
    <3> QED
      BY <2>0, <2>3, <2>4, <3>2
  <2>6. CASE tod + 1 = Day
    <3>1. 0 \in 0 .. Day - 1 /\ 0 + Day = tod + 1
      BY <2>0, <2>6
    <3>2. (0 + Day) % Day = 0
      BY <3>1, ModDay
    <3>3. tod' = 0
      BY <2>1, <3>1, <3>2
    <3> QED
      BY <2>0, <2>3, <2>4, <2>6, <3>3
  <2> QED
    BY <2>0, <2>5, <2>6
<1>4. CASE DbChanges \/ UNCHANGED vars
  BY <1>a, <1>4 DEF DbChanges, vars, table
<1> QED
  BY <1>1, <1>2, <1>3, <1>4, <1>a DEF Next, SomeStep

\* A daily job that succeeded waits for its hour, however long it ran and whatever failed
\* before (release, NextDelay).
THEOREM HourIsKept == Spec => []DailyKeepsItsHour
<1>1. Init => HourInv
  BY JobAssumption DEF Init, HourInv
<1>2. TypeOK /\ HourInv => DailyKeepsItsHour
  <2> SUFFICES ASSUME TypeOK, HourInv, NEW j \in Daily, dueIn[j] > 0, cfails[j] = 0
               PROVE  (tod + dueIn[j]) % Day = AtHour[j]
    BY DEF DailyKeepsItsHour
  <2>1. AtHour[j] \in 0 .. Day - 1
    BY DayAssumption
  <2>2. tod + dueIn[j] = AtHour[j] \/ tod + dueIn[j] = AtHour[j] + Day
    BY DEF HourInv
  <2>3. tod + dueIn[j] = AtHour[j] => (tod + dueIn[j]) % Day = AtHour[j]
    BY <2>1, ModDay
  <2>4. tod + dueIn[j] = AtHour[j] + Day => (tod + dueIn[j]) % Day = AtHour[j]
    BY <2>1, ModDay
  <2> QED
    BY <2>2, <2>3, <2>4
<1> QED
  BY <1>1, <1>2, HourStep, TypeCorrect, PTL DEF Spec

------------------------------------------------------------------------------
(* How many jobs one runner has in hand.                                   *)

Picked(r) == {j \in Job : task[r][j] = "picked"}

\* A claim that is on its way when a tick looks for work again would not be counted.
NoneHangs(r) ==
  \/ pc[r] \in {"down", "registering", "reclaiming", "selecting"}
  \/ pc[r] = "asleep" /\ wait[r] = 0
  => Picked(r) = {}
RoomInv ==
  \A r \in Runner : NoneHangs(r) /\ Cardinality(Running(r) \cup Picked(r)) <= MaxParallel

LEMMA TickDelayPositive ==
  ASSUME NEW f \in Nat
  PROVE  TickDelay(f) \in Nat \ {0}
<1>1. Power2(f) \in Nat \ {0} /\ TickGap \in Nat \ {0} /\ MaxGap \in Nat \ {0}
  BY Power2Positive, BoundAssumption
<1>2. TickGap * Power2(f) \in Nat \ {0}
  BY <1>1
<1> QED
  BY <1>1, <1>2 DEF TickDelay, Least

\* Whatever settles a tick sets a timer that has yet to run, or stops the runner.
LEMMA SettleWaits ==
  ASSUME TypeOK, NEW r \in Runner, NEW f \in Nat, Settle(r, f)
  PROVE  /\ pc'[r] = "handback" \/ (pc'[r] = "asleep" /\ wait'[r] # 0)
         /\ \A q \in Runner \ {r} : pc'[q] = pc[q] /\ wait'[q] = wait[q]
BY TickDelayPositive DEF Settle, TypeOK

LEMMA RejectWaits ==
  ASSUME TypeOK, NEW r \in Runner, Reject(r)
  PROVE  /\ pc'[r] = "handback" \/ (pc'[r] = "asleep" /\ wait'[r] # 0)
         /\ \A q \in Runner \ {r} : pc'[q] = pc[q] /\ wait'[q] = wait[q]
<1>1. Least(failures[r] + 1, MaxFails) \in Nat BY BoundAssumption DEF TypeOK, Least
<1> QED BY <1>1, SettleWaits DEF Reject

\* What a runner has in hand, as far as its step changes it.
LEMMA HandsBounded ==
  ASSUME IsFiniteSet(Job), TypeOK, NEW q \in Runner,
         Cardinality(Running(q) \cup Picked(q)) <= MaxParallel,
         Running(q)' \cup Picked(q)' \subseteq Running(q) \cup Picked(q)
  PROVE  Cardinality(Running(q) \cup Picked(q))' <= MaxParallel
<1> DEFINE A == Running(q) \cup Picked(q)
           B == Running(q)' \cup Picked(q)'
<1>1. A \subseteq Job
  BY DEF Running, Picked
<1>2. IsFiniteSet(A)
  BY <1>1, FS_Subset
<1>3. IsFiniteSet(B) /\ Cardinality(B) <= Cardinality(A)
  BY <1>2, FS_Subset
<1>4. Cardinality(A) \in Nat /\ Cardinality(B) \in Nat /\ MaxParallel \in Nat
  BY <1>2, <1>3, FS_CardinalityType, BoundAssumption
<1> HIDE DEF A, B
<1>5. Cardinality(B) <= MaxParallel
  <2>1. Cardinality(A) <= MaxParallel
    BY DEF A
  <2> QED
    BY <1>3, <1>4, <2>1
<1> QED
  BY <1>5 DEF B

\* A tick takes no more than there is room for.
LEMMA SelectBounded ==
  ASSUME IsFiniteSet(Job), TypeOK, NEW r \in Runner, Picked(r) = {},
         Cardinality(Running(r) \cup Picked(r)) <= MaxParallel, Select(r)
  PROVE  Cardinality(Running(r) \cup Picked(r))' <= MaxParallel
<1>1. PICK S \in FirstDue(Room(r)) :
        LET started == {j \in S \cap Catalogue[r] : task[r][j] = "none"}
        IN task' = [task EXCEPT ![r] = [j \in Job |-> IF j \in started THEN "picked" ELSE @[j]]]
  BY DEF Select
<1> DEFINE due == {j \in Job : Claimable(j)}
<1>2. S \subseteq Job /\ Cardinality(S) = Least(Room(r), Cardinality(due))
  BY DEF FirstDue
<1>3. IsFiniteSet(S) /\ IsFiniteSet(due) /\ IsFiniteSet(Running(r))
  BY <1>2, FS_Subset DEF Running
<1>4. Cardinality(S) \in Nat /\ Cardinality(due) \in Nat /\ Cardinality(Running(r)) \in Nat
  BY <1>3, FS_CardinalityType
<1>5. Cardinality(Running(r)) <= MaxParallel /\ MaxParallel \in Nat
  <2>1. Running(r) \cup Picked(r) = Running(r)
    OBVIOUS
  <2> QED
    BY <2>1, BoundAssumption
<1>6. Cardinality(S) <= MaxParallel - Cardinality(Running(r))
  <2> HIDE DEF due
  <2>1. Room(r) = MaxParallel - Cardinality(Running(r)) /\ Room(r) \in Nat
    BY <1>4, <1>5 DEF Room, Greatest
  <2>2. Cardinality(S) <= Room(r)
    BY <1>2, <1>4, <2>1 DEF Least
  <2> QED
    BY <2>1, <2>2
<1>7. Running(r)' \cup Picked(r)' \subseteq Running(r) \cup S
  BY <1>1 DEF Running, Picked, TypeOK
<1>8. /\ IsFiniteSet(Running(r) \cup S)
      /\ Cardinality(Running(r) \cup S) <= Cardinality(Running(r)) + Cardinality(S)
  <2>1. /\ IsFiniteSet(Running(r) \cup S) /\ IsFiniteSet(Running(r) \cap S)
        /\ Cardinality(Running(r) \cup S) =
             Cardinality(Running(r)) + Cardinality(S) - Cardinality(Running(r) \cap S)
    BY <1>3, FS_Union, FS_Intersection
  <2>2. Cardinality(Running(r) \cap S) \in Nat
    BY <2>1, FS_CardinalityType
  <2> QED
    BY <1>4, <2>1, <2>2
<1> DEFINE B == Running(r)' \cup Picked(r)'
<1>9. IsFiniteSet(B) /\ Cardinality(B) <= Cardinality(Running(r) \cup S)
  BY <1>7, <1>8, FS_Subset
<1>10. Cardinality(B) \in Nat /\ Cardinality(Running(r) \cup S) \in Nat
  BY <1>8, <1>9, FS_CardinalityType
<1> HIDE DEF B
<1>11. Cardinality(B) <= MaxParallel
  BY <1>4, <1>5, <1>6, <1>8, <1>9, <1>10
<1> QED
  BY <1>11 DEF B

LEMMA RunnerStepRoom ==
  ASSUME IsFiniteSet(Job), TypeOK, RoomInv, NEW r \in Runner, RunnerStep(r), NEW q \in Runner
  PROVE  NoneHangs(q)' /\ Cardinality(Running(q) \cup Picked(q))' <= MaxParallel
<1>0. NoneHangs(q) /\ Cardinality(Running(q) \cup Picked(q)) <= MaxParallel
  BY DEF RoomInv
<1>1. CASE task'[q] = task[q]
  <2>1. Running(q)' = Running(q) /\ Picked(q)' = Picked(q)
    BY <1>1 DEF Running, Picked
  <2>2. Cardinality(Running(q) \cup Picked(q))' <= MaxParallel
    BY <1>0, <2>1
  <2>3. CASE q # r
    <3>1. pc'[q] = pc[q] /\ wait'[q] = wait[q]
      <4>1. CASE StatementFails(r)
        BY <2>3, <4>1, RejectWaits DEF StatementFails
      <4>2. CASE TickDone(r)
        BY <2>3, <4>2, SettleWaits DEF TickDone
      <4> QED
        BY <2>3, <4>1, <4>2 DEF RunnerStep, Start, FindDead, Reclaim, Timer, Select, Stop, HandBack,
           Exit, TypeOK
    <3> QED
      BY <1>0, <2>1, <2>2, <3>1 DEF NoneHangs
  <2>4. CASE q = r
    <3>1. CASE Start(r)
      BY <1>0, <2>1, <2>2, <2>4, <3>1 DEF Start, NoneHangs, TypeOK
    <3>2. CASE FindDead(r) \/ Timer(r)
      BY <1>0, <2>1, <2>2, <2>4, <3>2 DEF FindDead, Timer, NoneHangs, TypeOK
    <3>3. CASE Reclaim(r)
      BY <1>0, <2>1, <2>2, <2>4, <3>3 DEF Reclaim, NoneHangs, TypeOK
    <3>4. CASE Select(r) \/ HandBack(r)
      <4>1. pc'[r] \in {"working", "closing"}
        BY <3>4 DEF Select, HandBack, TypeOK
      <4> QED
        BY <2>2, <2>4, <4>1 DEF NoneHangs
    <3>8. CASE Exit(r)
      <4>1. Picked(q)' = {}
        BY <2>4, <3>8 DEF Exit, Picked, TypeOK
      <4> QED
        BY <2>2, <4>1 DEF NoneHangs
    <3>5. CASE StatementFails(r)
      BY <2>2, <2>4, <3>5, RejectWaits DEF StatementFails, NoneHangs
    <3>6. CASE TickDone(r)
      BY <2>2, <2>4, <3>6, SettleWaits DEF TickDone, NoneHangs
    <3>7. CASE Stop(r)
      BY <1>0, <2>1, <2>2, <2>4, <3>7 DEF Stop, NoneHangs, TypeOK
    <3> QED
      BY <3>1, <3>2, <3>3, <3>4, <3>5, <3>6, <3>7, <3>8 DEF RunnerStep
  <2> QED
    BY <2>3, <2>4
<1>2. CASE Select(r) /\ q = r
  <2>1. Picked(r) = {}
    BY <1>0, <1>2 DEF Select, NoneHangs
  <2>2. pc'[r] = "working"
    BY <1>2 DEF Select, TypeOK
  <2> QED
    BY <1>0, <1>2, <2>1, <2>2, SelectBounded DEF NoneHangs
<1>3. CASE Exit(r) /\ q = r
  <2>1. Running(q)' = {} /\ Picked(q)' = {}
    BY <1>3 DEF Exit, Running, Picked, TypeOK
  <2> QED
    BY <1>0, <2>1, HandsBounded DEF NoneHangs
<1>4. task'[q] = task[q] \/ (Select(r) /\ q = r) \/ (Exit(r) /\ q = r)
  BY DEF RunnerStep, Start, FindDead, Reclaim, Timer, StatementFails, TickDone, Stop, HandBack,
     Select, Exit, work, TypeOK
<1> QED
  BY <1>1, <1>2, <1>3, <1>4

LEMMA TaskStepRoom ==
  ASSUME IsFiniteSet(Job), TypeOK, RoomInv, NEW r \in Runner, NEW j \in Job, TaskStep(r, j),
         NEW q \in Runner
  PROVE  NoneHangs(q)' /\ Cardinality(Running(q) \cup Picked(q))' <= MaxParallel
<1>0. NoneHangs(q) /\ Cardinality(Running(q) \cup Picked(q)) <= MaxParallel
  BY DEF RoomInv
<1>1. /\ Picked(q)' \subseteq Picked(q)
      /\ Running(q)' \cup Picked(q)' \subseteq Running(q) \cup Picked(q)
  <2>1. CASE task' = task
    BY <2>1 DEF Picked, Running
  <2>2. CASE \E v \in {"none", "ok", "failed"} : task' = [task EXCEPT ![r][j] = v]
    BY <2>2 DEF Picked, Running, TypeOK
  <2>3. CASE task[r][j] = "picked" /\ task' = [task EXCEPT ![r][j] = "running"]
    BY <2>3 DEF Picked, Running, TypeOK
  <2>4. CASE Register(r, j)
    BY <2>1, <2>4 DEF Register, work
  <2>5. CASE Claim(r, j)
    BY <2>2, <2>3, <2>5, ClaimEffect
  <2>6. ASSUME NEW outcome \in {"ok", "failed"}, Finish(r, j, outcome)
        PROVE \E v \in {"none", "ok", "failed"} : task' = [task EXCEPT ![r][j] = v]
    BY <2>6 DEF Finish
  <2>7. CASE ClaimFails(r, j) \/ Release(r, j) \/ ReleaseFails(r, j)
    <3>1. task' = [task EXCEPT ![r][j] = "none"]
      BY <2>7 DEF ClaimFails, Release, ReleaseFails
    <3> QED
      BY <2>2, <3>1
  <2> QED
    BY <2>2, <2>4, <2>5, <2>6, <2>7 DEF TaskStep
<1>2. Cardinality(Running(q) \cup Picked(q))' <= MaxParallel
  BY <1>0, <1>1, HandsBounded
<1>3. CASE pc'[q] = pc[q] /\ wait'[q] = wait[q]
  BY <1>0, <1>1, <1>2, <1>3 DEF NoneHangs
<1>4. CASE Reject(r)
  <2>1. CASE q = r
    BY <1>2, <1>4, <2>1, RejectWaits DEF NoneHangs
  <2>2. CASE q # r
    BY <1>3, <1>4, <2>2, RejectWaits
  <2> QED
    BY <2>1, <2>2
<1>5. ASSUME NEW outcome \in {"ok", "failed"}, Finish(r, j, outcome)
      PROVE  pc'[q] = pc[q] /\ wait'[q] = wait[q]
  BY <1>5 DEF Finish, process
<1>6. CASE Claim(r, j)
  BY <1>3, <1>6, ClaimEffect DEF process
<1> QED
  BY <1>3, <1>4, <1>5, <1>6 DEF TaskStep, Register, ClaimFails, Release, ReleaseFails, process

LEMMA RoomStep ==
  ASSUME IsFiniteSet(Job)
  PROVE  TypeOK /\ RoomInv /\ [PromptNext]_vars => RoomInv'
<1> SUFFICES ASSUME TypeOK, RoomInv, [PromptNext]_vars, NEW q \in Runner
             PROVE  NoneHangs(q)' /\ Cardinality(Running(q) \cup Picked(q))' <= MaxParallel
  BY DEF RoomInv
<1>0. NoneHangs(q) /\ Cardinality(Running(q) \cup Picked(q)) <= MaxParallel
  BY DEF RoomInv
<1>1. CASE \E r \in Runner : RunnerStep(r)
  BY <1>1, RunnerStepRoom
<1>2. CASE \E r \in Runner, j \in Job : TaskStep(r, j)
  BY <1>2, TaskStepRoom
<1>3. task' = task => Cardinality(Running(q) \cup Picked(q))' <= MaxParallel
  BY <1>0 DEF Running, Picked
<1>4. CASE DbChanges \/ UNCHANGED vars
  BY <1>0, <1>4 DEF DbChanges, vars, process, work, NoneHangs, Running, Picked
<1>5. CASE Prompt /\ Advance
  <2>1. task' = task /\ Picked(q)' = {}
    BY <1>5 DEF Prompt, Advance, Picked
  <2> QED
    BY <1>0, <1>3, <2>1 DEF NoneHangs, Running, Picked
<1> QED
  BY <1>1, <1>2, <1>4, <1>5 DEF PromptNext, SomeStep

\* A runner has no more jobs in hand than it may, though a failed tick leaves jobs running
\* behind the next one, as long as a claim is answered before the next tick (tick, Prompt).
THEOREM RoomIsKept ==
  ASSUME IsFiniteSet(Job)
  PROVE  PromptSpec => []AtMostMaxParallel
<1>1. Init => TypeOK /\ RoomInv
  <2> SUFFICES ASSUME Init, NEW r \in Runner
               PROVE  NoneHangs(r) /\ Cardinality(Running(r) \cup Picked(r)) <= MaxParallel
    BY InitType DEF RoomInv
  <2>1. Running(r) = {} /\ Picked(r) = {}
    BY DEF Init, Running, Picked
  <2> QED
    BY <2>1, FS_EmptySet, BoundAssumption DEF NoneHangs
<1>2. TypeOK /\ RoomInv /\ [PromptNext]_vars => (TypeOK /\ RoomInv)'
  <2>1. PromptNext => Next
    BY DEF PromptNext, Next
  <2> QED
    BY <2>1, NextType, RoomStep
<1>3. TypeOK /\ RoomInv => AtMostMaxParallel
  <2> SUFFICES ASSUME TypeOK, RoomInv, NEW r \in Runner PROVE Cardinality(Running(r)) <= MaxParallel
    BY DEF AtMostMaxParallel
  <2>1. Cardinality(Running(r) \cup Picked(r)) <= MaxParallel
    BY DEF RoomInv
  <2>2. IsFiniteSet(Running(r) \cup Picked(r))
    BY FS_Subset DEF Running, Picked
  <2>3. /\ IsFiniteSet(Running(r))
        /\ Cardinality(Running(r)) <= Cardinality(Running(r) \cup Picked(r))
    BY <2>2, FS_Subset
  <2>4. Cardinality(Running(r)) \in Nat /\ Cardinality(Running(r) \cup Picked(r)) \in Nat
    BY <2>2, <2>3, FS_CardinalityType
  <2> QED
    BY <2>1, <2>3, <2>4, BoundAssumption
<1> QED
  BY <1>1, <1>2, <1>3, PTL DEF PromptSpec

=============================================================================
