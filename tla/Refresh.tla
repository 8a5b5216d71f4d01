------------------------------ MODULE Refresh --------------------------------
(***************************************************************************)
(* Two jobs that keep a row about everything in the vocabulary up to date: *)
(* src/collect/adoption.ts (the projects that carry a topic) and           *)
(* src/collect/reference.ts (what Wikipedia says of a subject).  Both take *)
(* a slice of what is due, in an order, and ask about one subject after    *)
(* the other; a failure makes a subject wait, longer each time.            *)
(*                                                                         *)
(* Time is counted in the hours of one failure, and the ages of the rows   *)
(* are kept instead of their dates.  A pass is shorter than that.          *)
(***************************************************************************)
EXTENDS Integers, FiniteSets, SequencesExt

CONSTANTS
  Subject,        \* 1..n, in the order of their names
  Foremost,       \* subjects that a story names, and curated ones: reference asks them first
  Broken,         \* subjects whose request always fails
  Undescribed,    \* subjects whose entity has no description in English
  Slice,          \* how many subjects a pass takes
  StaleAfter,     \* STALE_AFTER_HOURS and STALE_AFTER_DAYS
  MaxWaits,       \* a failing subject waits as many times as it failed, at most so often
  MaxLapses       \* bound: refused quotas, deaths and answers lost on the way

ASSUME RefreshAssumption ==
  /\ Subject \subseteq Nat /\ IsFiniteSet(Subject) /\ Foremost \subseteq Subject
  /\ Broken \subseteq Subject /\ Undescribed \subseteq Subject
  /\ Slice \in Nat \ {0} /\ StaleAfter \in Nat \ {0}
  /\ MaxWaits \in Nat \ {0} /\ MaxLapses \in Nat

VARIABLES
  job,            \* which of the two jobs it is
  sinceAsked,     \* sinceAsked[s]: since measured_at or checked_at; Unasked where it is NULL
  failures,
  sinceFailure,   \* sinceFailure[s]: since failed_at; Unfailed where it is NULL
  entity,         \* entity[s]: whether its row has an entity, and a description of it
  todo,           \* the subjects the pass has still to ask about
  ranAt,          \* whether a pass has begun in this hour
  lapses

refreshVars == <<job, sinceAsked, failures, sinceFailure, entity, todo, ranAt, lapses>>

Unasked  == StaleAfter + 2
Unfailed == MaxWaits + 2
Entity == {"none", "bare", "described"}

RefreshInit ==
  /\ job \in {"adoption", "reference"}
  /\ sinceAsked = [s \in Subject |-> Unasked]
  /\ failures = [s \in Subject |-> 0]
  /\ sinceFailure = [s \in Subject |-> Unfailed]
  /\ entity = [s \in Subject |-> "none"]
  /\ todo = <<>> /\ ranAt = FALSE /\ lapses = 0

------------------------------------------------------------------------------
(* A pass.                                                                 *)

Wait(s) == IF failures[s] < MaxWaits THEN failures[s] ELSE MaxWaits
Rested(s) == sinceFailure[s] = Unfailed \/ sinceFailure[s] > Wait(s)

\* A row that has an entity and no description of it counts as due, see migration 0052.
Lacking(s) == job = "reference" /\ entity[s] = "bare"

\* A mutant: without the brackets, as the comment in adoption.ts warns.
IsDueUnbracketed(s) ==
  sinceAsked[s] = Unasked \/ Lacking(s) \/ (sinceAsked[s] > StaleAfter /\ Rested(s))
IsDue(s) == (sinceAsked[s] > StaleAfter \/ Lacking(s)) /\ Rested(s)

\* Never asked before asked, and the oldest first.
AskedBefore(s, u) ==
  \/ job = "reference" /\ s \in Foremost /\ u \notin Foremost
  \/ /\ job = "reference" => (s \in Foremost <=> u \in Foremost)
     /\ sinceAsked[s] > sinceAsked[u] \/ (sinceAsked[s] = sinceAsked[u] /\ s < u)

DueOnes == {s \in Subject : IsDue(s)}
SliceSize == IF Cardinality(DueOnes) < Slice THEN Cardinality(DueOnes) ELSE Slice

\* q is D in this order, up to some place.
Leads(q, D) ==
  /\ \A i, j \in DOMAIN q : i < j => AskedBefore(q[i], q[j])
  /\ \A i \in DOMAIN q, s \in D \ Range(q) : AskedBefore(q[i], s)

TakeSlice ==
  /\ todo = <<>>
  /\ \E q \in [1 .. SliceSize -> DueOnes] : Leads(q, DueOnes) /\ todo' = q
  /\ ranAt' = TRUE
  /\ UNCHANGED <<job, sinceAsked, failures, sinceFailure, entity, lapses>>

Pass(s) == todo # <<>> /\ s = Head(todo) /\ todo' = Tail(todo)

\* record and store: the row is new, and its failures are forgotten.
Found(s) ==
  /\ Pass(s) /\ s \notin Broken
  /\ sinceAsked' = [sinceAsked EXCEPT ![s] = 0]
  /\ failures' = [failures EXCEPT ![s] = 0]
  /\ sinceFailure' = [sinceFailure EXCEPT ![s] = Unfailed]
  /\ entity' = [entity EXCEPT ![s] = IF s \in Undescribed THEN "bare" ELSE "described"]
  /\ UNCHANGED <<job, ranAt, lapses>>

\* unresolved: no article is confirmed.  What is known of it and its failures stay.
Unresolved(s) ==
  /\ job = "reference" /\ Pass(s) /\ s \notin Broken
  /\ sinceAsked' = [sinceAsked EXCEPT ![s] = 0]
  /\ UNCHANGED <<job, failures, sinceFailure, entity, ranAt, lapses>>

\* fail and recordFailure.
Fail(s) ==
  /\ Pass(s) /\ (s \in Broken \/ lapses < MaxLapses)
  /\ lapses' = IF s \in Broken THEN lapses ELSE lapses + 1
  /\ failures' = [failures EXCEPT ![s] = IF @ < MaxWaits THEN @ + 1 ELSE @]
  /\ sinceFailure' = [sinceFailure EXCEPT ![s] = 0]
  /\ UNCHANGED <<job, sinceAsked, entity, ranAt>>

\* The quota of the search is used up, or the process dies: the pass ends.
BreakOff ==
  /\ todo # <<>> /\ lapses < MaxLapses
  /\ lapses' = lapses + 1 /\ todo' = <<>>
  /\ UNCHANGED <<job, sinceAsked, failures, sinceFailure, entity, ranAt>>

\* An hour passes.  The scheduler runs the job more often than that.
Older(t, never) == IF t >= never - 1 THEN t ELSE t + 1
Hour ==
  /\ todo = <<>> /\ ranAt /\ ranAt' = FALSE
  /\ sinceAsked' = [s \in Subject |-> Older(sinceAsked[s], Unasked)]
  /\ sinceFailure' = [s \in Subject |-> Older(sinceFailure[s], Unfailed)]
  /\ UNCHANGED <<job, failures, entity, todo, lapses>>

Ask(s) == Found(s) \/ Unresolved(s) \/ Fail(s)
Answers == \E s \in Subject : Ask(s)

RefreshNext == TakeSlice \/ Answers \/ BreakOff \/ Hour

RefreshSpec == RefreshInit /\ [][RefreshNext]_refreshVars

\* The scheduler runs the job, requests time out, and hours pass.
RefreshFairSpec ==
  /\ RefreshSpec
  /\ WF_refreshVars(TakeSlice) /\ WF_refreshVars(Answers) /\ SF_refreshVars(Hour)

------------------------------------------------------------------------------
(* Properties.                                                             *)

RefreshTypeOK ==
  /\ job \in {"adoption", "reference"}
  /\ sinceAsked \in [Subject -> 0 .. Unasked] /\ failures \in [Subject -> 0 .. MaxWaits]
  /\ sinceFailure \in [Subject -> 0 .. Unfailed]
  /\ \A s \in Subject : sinceFailure[s] = Unfailed <=> failures[s] = 0
  /\ entity \in [Subject -> Entity]
  /\ todo \in BoundedSeq(Subject, Slice) /\ IsInjective(todo)
  /\ ranAt \in BOOLEAN /\ lapses \in 0 .. MaxLapses

\* adoption.ts: "a failing technology backs off so a permanently absent topic does not
\* crowd out the ones that have never been asked about".  Every subject that can be
\* answered for comes round again and again, beside those that never are, as long as
\* the foremost subjects without a description do not fill a slice by themselves.
EveryOneComesRound == \A s \in Subject \ Broken : []<>(sinceAsked[s] = 0)

=============================================================================
