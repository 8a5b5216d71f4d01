----------------------------- MODULE Politeness ------------------------------
(***************************************************************************)
(* The PolitenessGate of src/collect/fetcher.ts.  mapWithConcurrency       *)
(* (src/lib/pool.ts) runs several polls at a time, and in each of them the *)
(* fetches of its articles (ingest.ts); these are the polls whose requests *)
(* go to one domain.  What goes past the gate, such as the probes of       *)
(* resolveFeedUrl, neither reads nor writes its state and is left out.     *)
(*                                                                         *)
(* The gate reads the last request, sleeps, and only then writes: what     *)
(* runs between two awaits is a step.                                      *)
(***************************************************************************)
EXTENDS Integers, FiniteSets

CONSTANTS
  Poll,
  Width,          \* articleConcurrency: workers on the articles of one poll
  Interval,       \* Interval[p]: politeness_seconds of its source
  LastMoment      \* bound

ASSUME PolitenessAssumption ==
  Width \in Nat \ {0} /\ Interval \in [Poll -> Nat \ {0}] /\ LastMoment \in Nat

\* The first is the poll itself until it has its items, and then one among the others.
Worker == Poll \X (1 .. Width)

VARIABLES
  moment,
  paging,         \* polls that fetch the articles of their items
  lastHit,        \* lastHit of the domain, or Never
  wakes,          \* wakes[w]: when the timer of a sleeping worker is due, or Awake
  sent            \* the requests that have passed the gate: [by, at]

politeVars == <<moment, paging, lastHit, wakes, sent>>

Awake == -1
NoHit == -1
GapOf(w) == Interval[w[1]]

PoliteInit ==
  /\ moment = 0 /\ paging = {} /\ lastHit = NoHit
  /\ wakes = [w \in Worker |-> Awake] /\ sent = {}

Hit(w) == lastHit' = moment /\ sent' = sent \cup {[by |-> w, at |-> moment]}

\* What is about to call wait: a poll for its page, or a worker for an article's.
Asks(w) == wakes[w] = Awake /\ (w[2] = 1 \/ w[1] \in paging)

\* wait, up to its sleep, or to its end where none is needed.
FallAsleep(w) ==
  /\ Asks(w) /\ lastHit # NoHit /\ moment - lastHit < GapOf(w)
  /\ wakes' = [wakes EXCEPT ![w] = lastHit + GapOf(w)]
  /\ UNCHANGED <<moment, paging, lastHit, sent>>

PassAtOnce(w) ==
  /\ Asks(w) /\ (lastHit = NoHit \/ moment - lastHit >= GapOf(w))
  /\ Hit(w) /\ UNCHANGED <<moment, paging, wakes>>

\* A mutant: only a request that need not sleep is noted down.
WakeUnnoted(w) ==
  /\ wakes[w] # Awake /\ moment >= wakes[w]
  /\ wakes' = [wakes EXCEPT ![w] = Awake]
  /\ sent' = sent \cup {[by |-> w, at |-> moment]}
  /\ UNCHANGED <<moment, paging, lastHit>>

\* The timer fires when it is due, or later.
WakeUp(w) ==
  /\ wakes[w] # Awake /\ moment >= wakes[w]
  /\ wakes' = [wakes EXCEPT ![w] = Awake]
  /\ Hit(w) /\ UNCHANGED <<moment, paging>>

\* ingestItems begins to fetch articles, and has fetched them: Promise.all.
TurnToPages(p) ==
  /\ p \notin paging /\ wakes[<<p, 1>>] = Awake /\ paging' = paging \cup {p}
  /\ UNCHANGED <<moment, lastHit, wakes, sent>>

PagesAreIn(p) ==
  /\ p \in paging /\ \A i \in 1 .. Width : wakes[<<p, i>>] = Awake
  /\ paging' = paging \ {p}
  /\ UNCHANGED <<moment, lastHit, wakes, sent>>

TimePasses ==
  /\ moment < LastMoment /\ moment' = moment + 1
  /\ UNCHANGED <<paging, lastHit, wakes, sent>>

PoliteNext ==
  \/ \E w \in Worker : FallAsleep(w) \/ PassAtOnce(w) \/ WakeUp(w)
  \/ \E p \in Poll : TurnToPages(p) \/ PagesAreIn(p)
  \/ TimePasses

PoliteSpec == PoliteInit /\ [][PoliteNext]_politeVars

------------------------------------------------------------------------------
(* Properties.                                                             *)

PoliteTypeOK ==
  /\ moment \in 0 .. LastMoment /\ paging \subseteq Poll
  /\ lastHit \in {NoHit} \cup 0 .. moment
  /\ wakes \in [Worker -> {Awake} \cup Nat]
  /\ sent \subseteq [by : Worker, at : 0 .. moment]
  /\ lastHit = NoHit <=> sent = {}
  /\ \A r \in sent : r.at <= lastHit

\* What the gate does keep when polls of one domain, and the workers of each, run side by
\* side: no worker passes it twice within the interval of its source, so that a poll has
\* no more requests let through in an interval than it has workers.
OwnGapIsKept ==
  \A r, q \in sent : r.by = q.by /\ r.at < q.at => q.at - r.at >= GapOf(q.by)

\* fetcher.ts:128 and pool.ts:6, "enforced per DOMAIN, not per task": the domain is never
\* asked more often than the source allows.  It does not hold, not with one poll either,
\* and no run claims it.
DomainGapIsKept ==
  \A r, q \in sent : r.at < q.at => q.at - r.at >= GapOf(q.by)

=============================================================================
