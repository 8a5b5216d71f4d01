------------------------------- MODULE Polling -------------------------------
(***************************************************************************)
(* One source from poll to poll: src/collect/cycle.ts lists the sources    *)
(* that are due, src/collect/pipeline.ts polls each, and                   *)
(* src/db/repos/sources.ts keeps what came of it: the feed that was        *)
(* discovered, its validators and the health ladder.  Meanwhile scripts    *)
(* and src/maintain/releases.ts pause and resume sources.                  *)
(*                                                                         *)
(* A poll works on the row as the cycle read it, and each of its           *)
(* statements is a step.  Sources are polled side by side.  Which of the   *)
(* due sources a cycle takes is the subject of PollQueue.                  *)
(***************************************************************************)
EXTENDS Integers, FiniteSets

CONSTANTS
  Source, Feed, NoFeed,
  Known,          \* Known[s]: the feed_url s is registered with
  Advertised,     \* Advertised[s]: the feeds that the page of s leads to
  Tracked,        \* release feeds whose technology is in the vocabulary
  DegradedAt, FailingAt, DeadAt,   \* 3, 10 and 40 failures in a row
  MaxEvents       \* bound: new editions, processes that die, statements that fail

Feeds == Feed \cup {NoFeed}
Edition == 0 .. 1 + MaxEvents        \* 0: no validators, nothing read

ASSUME PollSourceAssumption ==
  /\ NoFeed \notin Feed /\ Known \in [Source -> Feeds] /\ Advertised \in [Source -> SUBSET Feed]
  /\ Tracked \subseteq Source
  /\ \A s, t \in Source : Known[s] = Known[t] /\ Known[s] # NoFeed => s = t
ASSUME LadderAssumption ==
  /\ DegradedAt \in Nat /\ FailingAt \in Nat /\ DeadAt \in Nat
  /\ 0 < DegradedAt /\ DegradedAt < FailingAt /\ FailingAt < DeadAt
ASSUME PollBoundAssumption == MaxEvents \in Nat

VARIABLES
  \* The row of a source.
  health,       \* health
  failures,     \* consecutive_failures
  feed,         \* feed_url
  etag,         \* last_etag and last_modified: the edition they name
  due,          \* next_fetch_at has come
  note,         \* who paused it, by what notes says
  \* Its poll.
  polling,      \* what it does next
  row,          \* the row as the cycle read it
  got,          \* the feed it has discovered, the edition it has fetched
  \* The world around.
  judged,       \* the last edition whose items went through the gates
  published,    \* the edition that each feed serves
  events        \* how many there have been

table == <<health, failures, feed, etag, due, note>>
poll  == <<polling, row, got>>
world == <<judged, published, events>>
pollVars == <<table, poll, world>>

Row == [paused : BOOLEAN, feed : Feeds, etag : Edition]
Nothing == [paused |-> FALSE, feed |-> NoFeed, etag |-> 0]

Ladder(n) ==
  IF n >= DeadAt THEN "dead" ELSE IF n >= FailingAt THEN "failing"
  ELSE IF n >= DegradedAt THEN "degraded" ELSE "healthy"

\* WHERE health NOT IN ('dead', 'paused').
UnlessPaused(s) == health[s] # "paused"                              \* a mutant
Listable(s) == health[s] \notin {"dead", "paused"}

\* The SELECT of setFeedUrl.
NobodyAsked(s, f) == {}                                              \* a mutant
Owners(s, f) == {t \in Source \ {s} : feed[t] = f}

\* The poll returns, or it threw and runCycle's catch counted it.
Over(s) ==
  /\ polling' = [polling EXCEPT ![s] = "idle"]
  /\ row' = [row EXCEPT ![s] = Nothing]
  /\ got' = [got EXCEPT ![s] = [feed |-> NoFeed, edition |-> 0]]

PollInit ==
  /\ health = [s \in Source |-> "healthy"] /\ failures = [s \in Source |-> 0]
  /\ feed = Known /\ etag = [s \in Source |-> 0]
  /\ due = [s \in Source |-> TRUE] /\ note = [s \in Source |-> "none"]
  /\ polling = [s \in Source |-> "idle"]
  /\ row = [s \in Source |-> Nothing]
  /\ got = [s \in Source |-> [feed |-> NoFeed, edition |-> 0]]
  /\ judged = [s \in Source |-> 0]
  /\ published = [f \in Feed |-> 1]
  /\ events = 0

------------------------------------------------------------------------------
(* A poll.                                                                 *)

\* dueAcrossShards reads the row.
List(s) ==
  /\ polling[s] = "idle" /\ due[s] /\ Listable(s)
  /\ row' = [row EXCEPT ![s] = [paused |-> health[s] = "paused", feed |-> feed[s], etag |-> etag[s]]]
  /\ polling' = [polling EXCEPT ![s] =
       IF feed[s] = NoFeed THEN "lost" ELSE "fetching"]
  /\ UNCHANGED <<table, got, world>>

\* Past the deadline, or out of subrequests: the source stays due.
Skip(s) ==
  /\ polling[s] \in {"lost", "fetching"} /\ got[s].feed = NoFeed
  /\ Over(s)
  /\ UNCHANGED <<table, world>>

\* recordSuccess and recordNotModified.
Succeed(s) ==
  /\ health' = [health EXCEPT ![s] = "healthy"]
  /\ failures' = [failures EXCEPT ![s] = 0]
  /\ due' = [due EXCEPT ![s] = FALSE]

\* recordFailure.
Fail(s) ==
  /\ health' = [health EXCEPT ![s] = Ladder(failures[s] + 1)]
  /\ failures' = [failures EXCEPT ![s] = @ + 1]
  /\ due' = [due EXCEPT ![s] = FALSE]

\* resolveFeedUrl looks at the page and the common paths; setFeedUrl asks whose
\* the feed is, and pauses a duplicate.
Discover(s) ==
  /\ polling[s] = "lost"
  /\ \/ \E f \in Advertised[s] :
          /\ Owners(s, f) = {}
          /\ got' = [got EXCEPT ![s].feed = f]
          /\ polling' = [polling EXCEPT ![s] = "claiming"]
          /\ UNCHANGED health
     \/ /\ \E f \in Advertised[s] : Owners(s, f) # {}
        /\ health' = [health EXCEPT ![s] = "paused"]
        /\ polling' = [polling EXCEPT ![s] = "nowhere"]
        /\ UNCHANGED got
  /\ UNCHANGED <<failures, feed, etag, due, note, row, world>>

\* The page does not answer, or nothing on it is a feed.
FindNothing(s) ==
  /\ polling[s] = "lost"
  /\ Fail(s) /\ Over(s)
  /\ UNCHANGED <<feed, etag, note, world>>

\* resolveFeedUrl was told of an owner, and collectSource records a failure.
RecordDuplicate(s) ==
  /\ polling[s] = "nowhere"
  /\ Fail(s) /\ Over(s)
  /\ UNCHANGED <<feed, etag, note, world>>

\* The UPDATE of setFeedUrl, refused by sources_feed_url_key when another source
\* has found the feed since.
ClaimFeed(s) ==
  /\ polling[s] = "claiming"
  /\ IF \E t \in Source \ {s} : feed[t] = got[s].feed
       THEN Over(s) /\ UNCHANGED feed
       ELSE /\ feed' = [feed EXCEPT ![s] = got[s].feed]
            /\ polling' = [polling EXCEPT ![s] = "fetching"]
            /\ UNCHANGED <<row, got>>
  /\ UNCHANGED <<health, failures, etag, due, note, world>>

Address(s) == IF row[s].feed = NoFeed THEN got[s].feed ELSE row[s].feed

\* The conditional request.  An origin answers 304 to the edition it serves.
NotModified(s) ==
  /\ polling[s] = "fetching" /\ row[s].etag = published[Address(s)]
  /\ Succeed(s) /\ Over(s)
  /\ UNCHANGED <<feed, etag, note, world>>

RateLimited(s) ==
  /\ polling[s] = "fetching"
  /\ due' = [due EXCEPT ![s] = FALSE]
  /\ Over(s)
  /\ UNCHANGED <<health, failures, feed, etag, note, world>>

\* An error, or a body that is no feed.
FetchFails(s) ==
  /\ polling[s] = "fetching"
  /\ Fail(s) /\ Over(s)
  /\ UNCHANGED <<feed, etag, note, world>>

Fetch(s) ==
  /\ polling[s] = "fetching" /\ row[s].etag # published[Address(s)]
  /\ got' = [got EXCEPT ![s].edition = published[Address(s)]]
  /\ polling' = [polling EXCEPT ![s] = "judging"]
  /\ UNCHANGED <<table, row, world>>

\* A mutant: the validators are kept before the items are judged.
RecordFirst(s) ==
  /\ polling[s] = "judging"
  /\ Succeed(s)
  /\ etag' = [etag EXCEPT ![s] = got[s].edition]
  /\ Over(s)
  /\ UNCHANGED <<feed, note, world>>

\* ingestItems and recordCandidateDomains, with the items of an edition judged in one step: a
\* poll that dies among them has judged none. That the feed of a source of releases is
\* replaced meanwhile, with its validator kept (maintain/releases.ts 206-209), is left out.
Ingest(s) ==
  /\ polling[s] = "judging"
  /\ judged' = [judged EXCEPT ![s] = got[s].edition]
  /\ polling' = [polling EXCEPT ![s] = "recording"]
  /\ UNCHANGED <<table, row, got, published, events>>

RecordSuccess(s) ==
  /\ polling[s] = "recording"
  /\ Succeed(s)
  /\ etag' = [etag EXCEPT ![s] = got[s].edition]
  /\ Over(s)
  /\ UNCHANGED <<feed, note, world>>

Happens == events < MaxEvents /\ events' = events + 1

\* A statement throws, or the process dies: nothing is recorded.
Accident(s) ==
  /\ polling[s] # "idle" /\ Happens
  /\ Over(s)
  /\ UNCHANGED <<table, judged, published>>

------------------------------------------------------------------------------
(* What happens to a source between its polls.                             *)

\* next_fetch_at comes round.
ComesRound(s) ==
  /\ ~due[s] /\ due' = [due EXCEPT ![s] = TRUE]
  /\ UNCHANGED <<health, failures, feed, etag, note, poll, world>>

Publish(f) ==
  /\ Happens
  /\ published' = [published EXCEPT ![f] = @ + 1]
  /\ UNCHANGED <<table, poll, judged>>

\* scripts/audit-sources.ts, started and undone by a person.
PauseByHand(s) ==
  /\ health[s] # "paused"
  /\ health' = [health EXCEPT ![s] = "paused"]
  /\ note' = [note EXCEPT ![s] = "person"]
  /\ UNCHANGED <<failures, feed, etag, due, poll, world>>

RestoreByHand(s) ==
  /\ health[s] = "paused" /\ note[s] = "person"
  /\ health' = [health EXCEPT ![s] = "healthy"]
  /\ failures' = [failures EXCEPT ![s] = 0]
  /\ due' = [due EXCEPT ![s] = TRUE]
  /\ note' = [note EXCEPT ![s] = "none"]
  /\ UNCHANGED <<feed, etag, poll, world>>

\* scripts/prune-sources.ts pauses what a kept story still cites.
Prune(s) ==
  /\ health' = [health EXCEPT ![s] = "paused"]
  /\ note' = [note EXCEPT ![s] = "machine"]
  /\ UNCHANGED <<failures, feed, etag, due, poll, world>>

\* syncReleaseSources brings back a feed whose technology is known.
Resume(s) ==
  /\ health[s] = "paused" /\ note[s] = "machine" /\ s \in Tracked /\ feed[s] # NoFeed
  /\ health' = [health EXCEPT ![s] = "healthy"]
  /\ failures' = [failures EXCEPT ![s] = 0]
  /\ etag' = [etag EXCEPT ![s] = 0]
  /\ note' = [note EXCEPT ![s] = "none"]
  /\ due' = [due EXCEPT ![s] = FALSE]
  /\ UNCHANGED <<feed, poll, world>>

PollNext ==
  \/ \E s \in Source :
       \/ List(s) \/ Skip(s) \/ Discover(s) \/ FindNothing(s)
       \/ RecordDuplicate(s) \/ ClaimFeed(s) \/ NotModified(s) \/ RateLimited(s)
       \/ FetchFails(s) \/ Fetch(s) \/ Ingest(s) \/ RecordSuccess(s) \/ Accident(s)
       \/ ComesRound(s) \/ PauseByHand(s) \/ RestoreByHand(s) \/ Prune(s) \/ Resume(s)
  \/ \E f \in Feed : Publish(f)

PollSpec == PollInit /\ [][PollNext]_pollVars

\* Every wait ends, cycles go on, and do not skip one source for ever.
Proceed(s) == List(s) \/ ComesRound(s) \/ RecordDuplicate(s) \/ ClaimFeed(s)
LookAround(s) == Discover(s) \/ FindNothing(s)

PollFairSpec ==
  PollSpec /\ \A s \in Source : WF_pollVars(Proceed(s)) /\ SF_pollVars(LookAround(s))

------------------------------------------------------------------------------
(* Properties.                                                             *)

PollTypeOK ==
  /\ health \in [Source -> {"healthy", "degraded", "failing", "dead", "paused"}]
  /\ failures \in [Source -> 0 .. DeadAt]
  /\ feed \in [Source -> Feeds] /\ etag \in [Source -> Edition]
  /\ due \in [Source -> BOOLEAN] /\ note \in [Source -> {"none", "person", "machine"}]
  /\ polling \in [Source -> {"idle", "lost", "nowhere", "claiming", "fetching",
                             "judging", "recording"}]
  /\ row \in [Source -> Row]
  /\ got \in [Source -> [feed : Feeds, edition : Edition]]
  /\ judged \in [Source -> Edition] /\ published \in [Feed -> 1 .. 1 + MaxEvents]
  /\ events \in 0 .. MaxEvents

\* The health that cycle.ts and the reader go by is what the failures in a row make
\* of it, also after a pause was lifted: a source that is brought back, or that
\* answers once, is not one failure from being dead.
LadderAgrees == \A s \in Source : health[s] # "paused" => health[s] = Ladder(failures[s])

\* A validator is a claim that the items of that edition have been judged
\* (releases.ts:136): an origin that answers 304 hides nothing.
ValidatorsAreEarned == \A s \in Source : etag[s] <= judged[s]

\* Neither the back-off nor the validator of a source says more than its polls have shown.
PollRowsAgree == LadderAgrees /\ ValidatorsAreEarned

\* releases.ts:120, "a source paused by hand keeps its own note and is left alone":
\* no job lifts such a pause, except the poll that had listed the source before.
PersonsPauseHolds ==
  [][\A s \in Source :
       health[s] = "paused" /\ note[s] = "person" /\ health'[s] # "paused" =>
         \/ RestoreByHand(s)
         \/ polling[s] # "idle" /\ ~row[s].paused]_pollVars

\* A site whose feed another source has, or that has none, leaves the polling list
\* in the end, instead of being asked at every cycle.
FeedlessComesToRest ==
  \A s \in Source : []<>(feed[s] # NoFeed \/ ~Listable(s))

\* sources.ts:158, "it is paused with that reason".
DuplicateStaysPaused ==
  [][\A s \in Source :
       polling[s] = "nowhere" /\ health[s] = "paused" => health'[s] = "paused"]_pollVars

=============================================================================
