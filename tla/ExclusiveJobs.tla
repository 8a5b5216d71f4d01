---------------------------- MODULE ExclusiveJobs ----------------------------
(***************************************************************************)
(* What src/run/scheduler.ts promises of a claim: "two instances racing    *)
(* produce one winner and one empty result", so that each job is in the    *)
(* hands of one runner at a time.                                          *)
(***************************************************************************)
CONSTANTS Runner, Job

VARIABLE at     \* at[j]: the runners that have job j in hand

Init == at = [j \in Job |-> {}]

\* A job nobody has is taken by one runner.
Take(r, j) ==
  /\ at[j] = {}
  /\ at' = [at EXCEPT ![j] = {r}]

\* A runner puts jobs down: one that is over, or all that it had when it died.
PutDown(r, S) ==
  at' = [j \in Job |-> IF j \in S THEN at[j] \ {r} ELSE at[j]]

Next == \E r \in Runner : (\E j \in Job : Take(r, j)) \/ (\E S \in SUBSET Job : PutDown(r, S))

Spec == Init /\ [][Next]_at

=============================================================================
