------------------------------ MODULE PollQueue ------------------------------
(***************************************************************************)
(* Which of the due sources a cycle takes: the order of dueAcrossShards    *)
(* in src/collect/cycle.ts, the back-off of src/db/repos/sources.ts and    *)
(* the intervals that tuneIntervals moves.  What a poll does to the other  *)
(* columns of a source is the subject of Polling.                          *)
(*                                                                         *)
(* One unit of time is one cycle, and the jitter is below the unit.  A     *)
(* cycle is one step: its polls end before the next one lists.             *)
(***************************************************************************)
EXTENDS Integers, FiniteSets, FiniteSetsExt

CONSTANTS
  Fed,            \* the sources, none of them dead or paused
  Slots,          \* sources that one cycle lists
  Hot, Warm,      \* the shortest interval, and the longest for being quiet
  Least,          \* the interval that lateness is at least measured in, 60 s
  MaxDoublings,   \* 6: the exponent of the back-off
  Longest,        \* one day: the cap of the back-off
  RetryAfters,    \* what a 429 may ask for
  Unfit,          \* bound: failures in a row that this module counts
  MaxThrown       \* bound: polls that throw

ASSUME QueueAssumption ==
  /\ IsFiniteSet(Fed) /\ Slots \in Nat \ {0} /\ Hot \in Nat \ {0} /\ Warm \in Nat /\ Hot <= Warm
  /\ Least \in Nat \ {0} /\ MaxDoublings \in Nat /\ Longest \in Nat /\ Hot <= Longest
  /\ RetryAfters \subseteq Nat /\ Unfit \in Nat /\ MaxThrown \in Nat
  \* No fact about the model, but one that the provers lack.
  /\ \A n \in 0 .. MaxDoublings : 2^n \in Nat

VARIABLES
  wait,           \* next_fetch_at - now()
  interval,       \* poll_interval_seconds
  failed,         \* consecutive_failures
  thrown,         \* polls that have thrown
  turn            \* whose step is next: "time" or "cycle"

queueVars == <<wait, interval, failed, thrown, turn>>

Pace(s) == Max({interval[s], Least})

\* ORDER BY lateness / greatest(interval, 60) DESC, next_fetch_at.
ShortestFirst(s, t) ==                                               \* a mutant
  \/ interval[s] < interval[t]
  \/ interval[s] = interval[t] /\ wait[s] < wait[t]
Precedes(s, t) ==
  \/ wait[s] * Pace(t) < wait[t] * Pace(s)
  \/ wait[s] * Pace(t) = wait[t] * Pace(s) /\ wait[s] < wait[t]

Overdue == {s \in Fed : wait[s] <= 0}

\* LIMIT, and the prefix that is polled before the deadline passes.
Takes(S) ==
  /\ S \subseteq Overdue /\ S # {} /\ Cardinality(S) <= Slots
  /\ \A s \in S, t \in Overdue \ S : ~Precedes(t, s)

\* recordFailure: LEAST(base * 2^LEAST(failures, 6), a day), the failures before this one.
BackOff(s) == Min({interval[s] * 2^Min({failed[s], MaxDoublings}), Longest})

QueueInit ==
  /\ wait = [s \in Fed |-> 0]
  /\ interval \in [Fed -> {Hot, Warm}]
  /\ failed = [s \in Fed |-> 0] /\ thrown = 0
  /\ turn = "cycle"

\* What one poll that comes to its end does to next_fetch_at and the counter.
Outcomes(s) ==
  {[wait |-> interval[s], failed |-> 0]}
    \cup {[wait |-> BackOff(s), failed |-> Min({failed[s] + 1, Unfit})]}
    \cup {[wait |-> r, failed |-> failed[s]] : r \in RetryAfters \cup {2 * interval[s]}}

\* runCycle: the source of a poll that throws is left as it is, at the head of the queue.
Cycle ==
  /\ turn = "cycle"
  /\ \/ Overdue = {} /\ UNCHANGED <<wait, failed, thrown>>
     \/ \E S \in SUBSET Overdue, T \in SUBSET Overdue :
          /\ Takes(S \cup T) /\ S \cap T = {}
          /\ thrown' = thrown + Cardinality(T) /\ thrown' <= MaxThrown
          /\ \E out \in [S -> UNION {Outcomes(s) : s \in S}] :
               /\ \A s \in S : out[s] \in Outcomes(s)
               /\ wait' = [s \in Fed |-> IF s \in S THEN out[s].wait ELSE wait[s]]
               /\ failed' = [s \in Fed |-> IF s \in S THEN out[s].failed ELSE failed[s]]
  /\ turn' = "time"
  /\ UNCHANGED interval

TimeGoesOn ==
  /\ turn = "time"
  /\ wait' = [s \in Fed |-> wait[s] - 1]
  /\ turn' = "cycle"
  /\ UNCHANGED <<interval, failed, thrown>>

\* A mutant: without the bounds.
TuneFreely(s) ==
  /\ turn = "time" /\ failed[s] = 0
  /\ interval' = [interval EXCEPT ![s] = @ \div 2] \/ interval' = [interval EXCEPT ![s] = 2 * @]
  /\ UNCHANGED <<wait, failed, thrown, turn>>

\* tuneIntervals: a healthy source that produces is asked sooner, a quiet one later.
Tune(s) ==
  /\ turn = "time" /\ failed[s] = 0
  /\ interval' = [interval EXCEPT ![s] = IF @ > Hot THEN Max({Hot, @ \div 2}) ELSE @]
     \/ interval' = [interval EXCEPT ![s] = Min({Warm, 2 * @})]
  /\ UNCHANGED <<wait, failed, thrown, turn>>

QueueNext == Cycle \/ TimeGoesOn \/ \E s \in Fed : Tune(s)

QueueSpec == QueueInit /\ [][QueueNext]_queueVars

------------------------------------------------------------------------------
(* Properties.                                                             *)

QueueTypeOK ==
  /\ wait \in [Fed -> Int] /\ interval \in [Fed -> Hot .. Warm]
  /\ failed \in [Fed -> 0 .. Unfit] /\ thrown \in 0 .. MaxThrown /\ turn \in {"time", "cycle"}

\* cycle.ts:129, "every source is served in bounded time and the tiers still mean what
\* they say", holds but for polls that throw: with a cycle that polls one source at the
\* least, no source is later than its longest interval for each source there is and for
\* each poll that has thrown.  One that throws whenever it is polled holds up all others.
ServedInTime == \A s \in Fed : -wait[s] <= (Cardinality(Fed) + thrown) * Warm

=============================================================================
