---------------------------- MODULE SourcesProofs -----------------------------
(***************************************************************************)
(* What holds of any number of sources and feeds, with any number of       *)
(* accidents: the row of a source says no more than its polls have shown,  *)
(* and the pause of a person holds.  And of any hosts and entries: the     *)
(* ledger of the sources job is right and keeps its verdicts.  And of any  *)
(* archive, its pages of any size and any number of runs that walk it: a   *)
(* saved cursor has passed nothing that is not stored.                     *)
(***************************************************************************)
EXTENDS MCSources, VocabularyProofs, FiniteSetTheorems, WellFoundedInduction, TLAPS

------------------------------------------------------------------------------
(* Polling.                                                                *)

\* What a poll holds fits the row and the world, at each of its steps.  A feed is
\* found once, and the editions it serves only grow.
Fits(s) ==
  /\ ~row[s].paused
  /\ polling[s] # "idle" => failures[s] < DeadAt
  /\ feed[s] = NoFeed => judged[s] = 0
  /\ feed[s] # NoFeed => judged[s] <= published[feed[s]]
  /\ polling[s] \in {"lost", "nowhere", "claiming"} => feed[s] = NoFeed /\ row[s].feed = NoFeed
  /\ polling[s] = "claiming" => got[s].feed \in Feed
  /\ polling[s] \in {"fetching", "judging", "recording"} => feed[s] \in Feed /\ Address(s) = feed[s]
  /\ polling[s] = "judging" =>
       judged[s] <= got[s].edition /\ got[s].edition <= published[feed[s]]
  /\ polling[s] = "recording" => judged[s] = got[s].edition

EditionsAreCounted == \A f \in Feed : published[f] <= 1 + events

PollInv ==
  /\ PollTypeOK /\ EditionsAreCounted
  /\ LadderAgrees /\ ValidatorsAreEarned
  /\ \A s \in Source : Fits(s)

LEMMA PollStarts == PollInit => PollInv
<1> SUFFICES ASSUME PollInit PROVE PollInv
  OBVIOUS
<1>1. Ladder(0) = "healthy" /\ 0 \in 0 .. DeadAt
  BY LadderAssumption DEF Ladder
<1>2. 0 \in Edition /\ 1 \in 1 .. 1 + MaxEvents /\ 0 \in 0 .. MaxEvents /\ MaxEvents \in Nat
  BY PollBoundAssumption DEF Edition
<1>3. PollTypeOK
  <2>1. Nothing \in Row
    BY <1>2 DEF Nothing, Row, Feeds
  <2>2. /\ health \in [Source -> {"healthy", "degraded", "failing", "dead", "paused"}]
        /\ failures \in [Source -> 0 .. DeadAt] /\ feed \in [Source -> Feeds]
        /\ etag \in [Source -> Edition] /\ due \in [Source -> BOOLEAN]
        /\ note \in [Source -> {"none", "person", "machine"}]
    BY <1>1, <1>2, PollSourceAssumption DEF PollInit
  <2>3. /\ polling \in [Source -> {"idle", "lost", "nowhere", "claiming", "fetching",
                                   "judging", "recording"}]
        /\ row \in [Source -> Row] /\ got \in [Source -> [feed : Feeds, edition : Edition]]
    BY <1>2, <2>1 DEF PollInit, Feeds
  <2>4. /\ judged \in [Source -> Edition] /\ published \in [Feed -> 1 .. 1 + MaxEvents]
        /\ events \in 0 .. MaxEvents
    BY <1>2 DEF PollInit
  <2> QED
    BY <2>2, <2>3, <2>4 DEF PollTypeOK
<1>4. EditionsAreCounted /\ ValidatorsAreEarned
  BY DEF PollInit, EditionsAreCounted, ValidatorsAreEarned
<1>5. LadderAgrees
  BY <1>1 DEF PollInit, LadderAgrees
<1>6. ASSUME NEW s \in Source PROVE Fits(s)
  <2>1. feed[s] \in Feeds
    BY <1>3 DEF PollTypeOK
  <2> QED
    BY <2>1 DEF PollInit, Fits, Nothing, Feeds
<1> QED
  BY <1>3, <1>4, <1>5, <1>6 DEF PollInv

\* The feed that a poll has found is one, and the row of the source has it.
LEMMA FoundFeed ==
  ASSUME PollInv, NEW s \in Source, polling[s] \in {"fetching", "judging", "recording"}
  PROVE  Address(s) = feed[s] /\ feed[s] \in Feed /\ published[feed[s]] \in Edition
<1>1. Address(s) = feed[s] /\ feed[s] \in Feed
  BY DEF PollInv, Fits
<1>2. published \in [Feed -> 1 .. 1 + MaxEvents] /\ MaxEvents \in Nat
  BY PollBoundAssumption DEF PollInv, PollTypeOK
<1> QED
  BY <1>1, <1>2 DEF Edition

\* The ladder has five steps at most.
LEMMA LadderTypes == ASSUME NEW n PROVE Ladder(n) \in {"healthy", "degraded", "failing", "dead"}
BY DEF Ladder

\* A poll that fails counts to DeadAt at most, since it was listed below it.
LEMMA FailTypes ==
  ASSUME PollInv, NEW s \in Source, polling[s] # "idle", Fail(s)
  PROVE  /\ health' \in [Source -> {"healthy", "degraded", "failing", "dead", "paused"}]
         /\ failures' \in [Source -> 0 .. DeadAt] /\ due' \in [Source -> BOOLEAN]
<1>1. failures[s] + 1 \in 0 .. DeadAt
  <2>1. failures[s] \in 0 .. DeadAt /\ failures[s] < DeadAt /\ DeadAt \in Nat
    BY LadderAssumption DEF PollInv, PollTypeOK, Fits
  <2> QED
    BY <2>1
<1>2. failures' \in [Source -> 0 .. DeadAt]
  BY <1>1 DEF Fail, PollInv, PollTypeOK
<1>3. health' \in [Source -> {"healthy", "degraded", "failing", "dead", "paused"}]
  BY LadderTypes DEF Fail, PollInv, PollTypeOK
<1>4. due' \in [Source -> BOOLEAN]
  BY DEF Fail, PollInv, PollTypeOK
<1> QED
  BY <1>2, <1>3, <1>4

LEMMA SucceedTypes ==
  ASSUME PollInv, NEW s \in Source, Succeed(s)
  PROVE  /\ health' \in [Source -> {"healthy", "degraded", "failing", "dead", "paused"}]
         /\ failures' \in [Source -> 0 .. DeadAt] /\ due' \in [Source -> BOOLEAN]
<1>1. 0 \in 0 .. DeadAt
  BY LadderAssumption
<1> QED
  BY <1>1 DEF Succeed, PollInv, PollTypeOK

LEMMA OverTypes ==
  ASSUME PollInv, NEW s \in Source, Over(s)
  PROVE  /\ polling' \in [Source -> {"idle", "lost", "nowhere", "claiming", "fetching",
                                     "judging", "recording"}]
         /\ row' \in [Source -> Row] /\ got' \in [Source -> [feed : Feeds, edition : Edition]]
<1>1. 0 \in Edition
  BY PollBoundAssumption DEF Edition
<1>2. Nothing \in Row
  BY <1>1 DEF Nothing, Row, Feeds
<1> QED
  BY <1>1, <1>2 DEF Over, PollInv, PollTypeOK, Feeds

\* Every step keeps the types.
LEMMA PollTypeStep == PollInv /\ [PollNext]_pollVars => PollTypeOK'
<1> SUFFICES ASSUME PollInv, [PollNext]_pollVars PROVE PollTypeOK'
  OBVIOUS
<1>0. PollTypeOK
  BY DEF PollInv
<1> USE <1>0 DEF PollTypeOK, table, poll, world

<1>1. ASSUME NEW s \in Source, List(s) PROVE PollTypeOK'
  <2>1. [paused |-> health[s] = "paused", feed |-> feed[s], etag |-> etag[s]] \in Row
    BY DEF Row
  <2> QED
    BY <1>1, <2>1 DEF List
<1>2. ASSUME NEW s \in Source, Skip(s) PROVE PollTypeOK'
  BY <1>2, OverTypes DEF Skip
<1>3. ASSUME NEW s \in Source, Discover(s) PROVE PollTypeOK'
  <2>1. \A f \in Advertised[s] : f \in Feeds
    BY PollSourceAssumption DEF Feeds
  <2>2. health' \in [Source -> {"healthy", "degraded", "failing", "dead", "paused"}]
    BY <1>3 DEF Discover
  <2>3. got' \in [Source -> [feed : Feeds, edition : Edition]]
    <3>1. ASSUME NEW f \in Feeds
          PROVE  [got EXCEPT ![s].feed = f] \in [Source -> [feed : Feeds, edition : Edition]]
      OBVIOUS
    <3>2. got' = got \/ \E f \in Feeds : got' = [got EXCEPT ![s].feed = f]
      BY <1>3, <2>1 DEF Discover
    <3> QED
      BY <3>1, <3>2
  <2>4. polling' \in [Source -> {"idle", "lost", "nowhere", "claiming", "fetching",
                                 "judging", "recording"}]
    BY <1>3 DEF Discover
  <2> QED
    BY <1>3, <2>2, <2>3, <2>4 DEF Discover
<1>4. ASSUME NEW s \in Source, FindNothing(s) PROVE PollTypeOK'
  BY <1>4, FailTypes, OverTypes DEF FindNothing
<1>5. ASSUME NEW s \in Source, RecordDuplicate(s) PROVE PollTypeOK'
  BY <1>5, FailTypes, OverTypes DEF RecordDuplicate
<1>6. ASSUME NEW s \in Source, ClaimFeed(s) PROVE PollTypeOK'
  <2>1. CASE \E t \in Source \ {s} : feed[t] = got[s].feed
    BY <1>6, <2>1, OverTypes DEF ClaimFeed
  <2>2. CASE ~\E t \in Source \ {s} : feed[t] = got[s].feed
    <3>1. feed' \in [Source -> Feeds]
      BY <1>6, <2>2 DEF ClaimFeed
    <3> QED
      BY <1>6, <2>2, <3>1 DEF ClaimFeed
  <2> QED
    BY <2>1, <2>2
<1>7. ASSUME NEW s \in Source, NotModified(s) PROVE PollTypeOK'
  BY <1>7, SucceedTypes, OverTypes DEF NotModified
<1>8. ASSUME NEW s \in Source, RateLimited(s) PROVE PollTypeOK'
  <2>1. due' \in [Source -> BOOLEAN]
    BY <1>8 DEF RateLimited
  <2> QED
    BY <1>8, <2>1, OverTypes DEF RateLimited
<1>9. ASSUME NEW s \in Source, FetchFails(s) PROVE PollTypeOK'
  BY <1>9, FailTypes, OverTypes DEF FetchFails
<1>10. ASSUME NEW s \in Source, Fetch(s) PROVE PollTypeOK'
  <2>1. published[Address(s)] \in Edition
    BY <1>10, FoundFeed DEF Fetch
  <2> QED
    BY <1>10, <2>1 DEF Fetch
<1>11. ASSUME NEW s \in Source, Ingest(s) PROVE PollTypeOK'
  BY <1>11 DEF Ingest
<1>12. ASSUME NEW s \in Source, RecordSuccess(s) PROVE PollTypeOK'
  <2>1. etag' \in [Source -> Edition]
    BY <1>12 DEF RecordSuccess
  <2> QED
    BY <1>12, <2>1, SucceedTypes, OverTypes DEF RecordSuccess
<1>13. ASSUME NEW s \in Source, Accident(s) PROVE PollTypeOK'
  <2>1. events' \in 0 .. MaxEvents
    BY <1>13, PollBoundAssumption DEF Accident, Happens
  <2> QED
    BY <1>13, <2>1, OverTypes DEF Accident
<1>14. ASSUME NEW s \in Source, ComesRound(s) PROVE PollTypeOK'
  BY <1>14 DEF ComesRound
<1>15. ASSUME NEW s \in Source, PauseByHand(s) PROVE PollTypeOK'
  BY <1>15 DEF PauseByHand
<1>16. ASSUME NEW s \in Source, RestoreByHand(s) PROVE PollTypeOK'
  <2>1. failures' \in [Source -> 0 .. DeadAt]
    BY <1>16, LadderAssumption DEF RestoreByHand
  <2> QED
    BY <1>16, <2>1 DEF RestoreByHand
<1>17. ASSUME NEW s \in Source, Prune(s) PROVE PollTypeOK'
  BY <1>17 DEF Prune
<1>18. ASSUME NEW s \in Source, Resume(s) PROVE PollTypeOK'
  <2>1. failures' \in [Source -> 0 .. DeadAt]
    BY <1>18, LadderAssumption DEF Resume
  <2>2. etag' \in [Source -> Edition]
    BY <1>18, PollBoundAssumption DEF Resume, Edition
  <2> QED
    BY <1>18, <2>1, <2>2 DEF Resume
<1>19. ASSUME NEW f \in Feed, Publish(f) PROVE PollTypeOK'
  <2>1. events' \in 0 .. MaxEvents
    BY <1>19, PollBoundAssumption DEF Publish, Happens
  <2>2. published[f] + 1 \in 1 .. 1 + MaxEvents
    <3>1. published[f] <= 1 + events /\ events < MaxEvents
      BY <1>19 DEF Publish, Happens, PollInv, EditionsAreCounted
    <3> QED
      BY <3>1, PollBoundAssumption
  <2>3. published' \in [Feed -> 1 .. 1 + MaxEvents]
    BY <1>19, <2>2 DEF Publish
  <2> QED
    BY <1>19, <2>1, <2>3 DEF Publish
<1>20. CASE UNCHANGED pollVars
  BY <1>20 DEF pollVars
<1> QED
  BY <1>1, <1>2, <1>3, <1>4, <1>5, <1>6, <1>7, <1>8, <1>9, <1>10,
     <1>11, <1>12, <1>13, <1>14, <1>15, <1>16, <1>17, <1>18, <1>19, <1>20 DEF PollNext


\* The row of the ladder is right after each of its updates.
LEMMA FailAgrees ==
  ASSUME PollInv, NEW s \in Source, Fail(s)
  PROVE  LadderAgrees'
<1> SUFFICES ASSUME NEW t \in Source PROVE health'[t] # "paused" => health'[t] = Ladder(failures'[t])
  BY DEF LadderAgrees, Ladder
<1>1. health[t] # "paused" => health[t] = Ladder(failures[t])
  BY DEF PollInv, LadderAgrees
<1>2. health \in [Source -> {"healthy", "degraded", "failing", "dead", "paused"}]
      /\ failures \in [Source -> 0 .. DeadAt]
  BY DEF PollInv, PollTypeOK
<1>3. CASE t = s
  BY <1>2, <1>3 DEF Fail
<1>4. CASE t # s
  BY <1>1, <1>2, <1>4 DEF Fail
<1> QED
  BY <1>3, <1>4

\* The same for the updates that set the counter back.
LEMMA BackAgrees ==
  ASSUME PollInv, NEW s \in Source,
         health' = [health EXCEPT ![s] = "healthy"], failures' = [failures EXCEPT ![s] = 0]
  PROVE  LadderAgrees'
<1> SUFFICES ASSUME NEW t \in Source PROVE health'[t] # "paused" => health'[t] = Ladder(failures'[t])
  BY DEF LadderAgrees, Ladder
<1>1. health[t] # "paused" => health[t] = Ladder(failures[t])
  BY DEF PollInv, LadderAgrees
<1>2. health \in [Source -> {"healthy", "degraded", "failing", "dead", "paused"}]
      /\ failures \in [Source -> 0 .. DeadAt]
  BY DEF PollInv, PollTypeOK
<1>3. Ladder(0) = "healthy"
  BY LadderAssumption DEF Ladder
<1>4. CASE t = s
  BY <1>2, <1>3, <1>4
<1>5. CASE t # s
  BY <1>1, <1>2, <1>5
<1> QED
  BY <1>4, <1>5

\* And for those that pause, or leave the row alone.
LEMMA PauseAgrees ==
  ASSUME PollInv, NEW s \in Source, failures' = failures,
         health' = health \/ health' = [health EXCEPT ![s] = "paused"]
  PROVE  LadderAgrees'
<1> SUFFICES ASSUME NEW t \in Source PROVE health'[t] # "paused" => health'[t] = Ladder(failures'[t])
  BY DEF LadderAgrees, Ladder
<1>1. health[t] # "paused" => health[t] = Ladder(failures[t])
  BY DEF PollInv, LadderAgrees
<1>2. health \in [Source -> {"healthy", "degraded", "failing", "dead", "paused"}]
  BY DEF PollInv, PollTypeOK
<1> QED
  BY <1>1, <1>2

LEMMA LadderStep == PollInv /\ [PollNext]_pollVars => LadderAgrees'
<1> SUFFICES ASSUME PollInv, [PollNext]_pollVars PROVE LadderAgrees'
  OBVIOUS
<1> USE DEF table, poll, world
<1>1. ASSUME NEW s \in Source, List(s) PROVE LadderAgrees'
  BY <1>1, PauseAgrees DEF List
<1>2. ASSUME NEW s \in Source, Skip(s) PROVE LadderAgrees'
  BY <1>2, PauseAgrees DEF Skip
<1>3. ASSUME NEW s \in Source, Discover(s) PROVE LadderAgrees'
  BY <1>3, PauseAgrees DEF Discover
<1>4. ASSUME NEW s \in Source, FindNothing(s) PROVE LadderAgrees'
  BY <1>4, FailAgrees DEF FindNothing
<1>5. ASSUME NEW s \in Source, RecordDuplicate(s) PROVE LadderAgrees'
  BY <1>5, FailAgrees DEF RecordDuplicate
<1>6. ASSUME NEW s \in Source, ClaimFeed(s) PROVE LadderAgrees'
  BY <1>6, PauseAgrees DEF ClaimFeed
<1>7. ASSUME NEW s \in Source, NotModified(s) PROVE LadderAgrees'
  BY <1>7, BackAgrees DEF NotModified, Succeed
<1>8. ASSUME NEW s \in Source, RateLimited(s) PROVE LadderAgrees'
  BY <1>8, PauseAgrees DEF RateLimited
<1>9. ASSUME NEW s \in Source, FetchFails(s) PROVE LadderAgrees'
  BY <1>9, FailAgrees DEF FetchFails
<1>10. ASSUME NEW s \in Source, Fetch(s) PROVE LadderAgrees'
  BY <1>10, PauseAgrees DEF Fetch
<1>11. ASSUME NEW s \in Source, Ingest(s) PROVE LadderAgrees'
  BY <1>11, PauseAgrees DEF Ingest
<1>12. ASSUME NEW s \in Source, RecordSuccess(s) PROVE LadderAgrees'
  BY <1>12, BackAgrees DEF RecordSuccess, Succeed
<1>13. ASSUME NEW s \in Source, Accident(s) PROVE LadderAgrees'
  BY <1>13, PauseAgrees DEF Accident
<1>14. ASSUME NEW s \in Source, ComesRound(s) PROVE LadderAgrees'
  BY <1>14, PauseAgrees DEF ComesRound
<1>15. ASSUME NEW s \in Source, PauseByHand(s) PROVE LadderAgrees'
  BY <1>15, PauseAgrees DEF PauseByHand
<1>16. ASSUME NEW s \in Source, RestoreByHand(s) PROVE LadderAgrees'
  BY <1>16, BackAgrees DEF RestoreByHand
<1>17. ASSUME NEW s \in Source, Prune(s) PROVE LadderAgrees'
  BY <1>17, PauseAgrees DEF Prune
<1>18. ASSUME NEW s \in Source, Resume(s) PROVE LadderAgrees'
  BY <1>18, BackAgrees DEF Resume
<1>19. ASSUME NEW f \in Feed, Publish(f) PROVE LadderAgrees'
  BY <1>19 DEF Publish, LadderAgrees, PollInv, Ladder
<1>20. CASE UNCHANGED pollVars
  BY <1>20 DEF pollVars, LadderAgrees, PollInv, Ladder
<1> QED
  BY <1>1, <1>2, <1>3, <1>4, <1>5, <1>6, <1>7, <1>8, <1>9, <1>10,
     <1>11, <1>12, <1>13, <1>14, <1>15, <1>16, <1>17, <1>18, <1>19, <1>20 DEF PollNext

\* Each step keeps what fits, of the source it is about and of the others.
LEMMA FitsStep == PollInv /\ [PollNext]_pollVars => \A s \in Source : Fits(s)'
<1> SUFFICES ASSUME PollInv, [PollNext]_pollVars, NEW t \in Source PROVE Fits(t)'
  OBVIOUS
<1>0. /\ Fits(t) /\ PollTypeOK
      /\ health[t] # "paused" => health[t] = Ladder(failures[t])
  BY DEF PollInv, LadderAgrees
<1> USE <1>0 DEF Fits, Address, table, poll, world
<1>1. ASSUME NEW s \in Source, List(s) PROVE Fits(t)'
  <2>1. CASE t = s
    <3>1. failures[s] < DeadAt
      <4>1. health[s] \notin {"dead", "paused"}
        BY <1>1 DEF List, Listable
      <4>2. failures[s] \in 0 .. DeadAt /\ DeadAt \in Nat
        BY LadderAssumption DEF PollTypeOK
      <4>3. Ladder(failures[s]) # "dead"
        BY <4>1, <2>1
      <4> QED
        BY <4>2, <4>3 DEF Ladder
    <3>2. health[s] # "paused" /\ feed[s] \in Feeds /\ row \in [Source -> Row]
      BY <1>1 DEF List, Listable, PollTypeOK
    <3>3. polling'[s] = IF feed[s] = NoFeed THEN "lost" ELSE "fetching"
      BY <1>1 DEF List, PollTypeOK
    <3>4. row'[s] = [paused |-> health[s] = "paused", feed |-> feed[s], etag |-> etag[s]]
      BY <1>1, <3>2 DEF List
    <3>5. ~row'[s].paused /\ row'[s].feed = feed[s]
      <4>1. (health[s] = "paused") = FALSE
        BY <3>2
      <4>2. row'[s] = [paused |-> FALSE, feed |-> feed[s], etag |-> etag[s]]
        BY <3>4, <4>1, Zenon
      <4> QED
        BY <4>2
    <3>6. failures' = failures /\ feed' = feed /\ judged' = judged /\ published' = published
      BY <1>1 DEF List
    <3> QED
      BY <2>1, <3>1, <3>2, <3>3, <3>5, <3>6 DEF Feeds
  <2>2. CASE t # s
    BY <1>1, <2>2 DEF List, PollTypeOK
  <2> QED
    BY <2>1, <2>2
<1>2. ASSUME NEW s \in Source, Skip(s) PROVE Fits(t)'
  BY <1>2 DEF Skip, PollTypeOK, Over, Nothing
<1>3. ASSUME NEW s \in Source, Discover(s) PROVE Fits(t)'
  <2>1. CASE t = s
    <3>1. /\ polling'[s] \in {"claiming", "nowhere"} /\ polling[s] = "lost"
          /\ polling'[s] = "claiming" => got'[s].feed \in Feed
      BY <1>3, PollSourceAssumption DEF Discover, PollTypeOK
    <3> QED
      BY <1>3, <2>1, <3>1 DEF Discover
  <2>2. CASE t # s
    <3>1. polling'[t] = polling[t] /\ got'[t] = got[t]
      BY <1>3, <2>2 DEF Discover, PollTypeOK
    <3> QED
      BY <1>3, <3>1 DEF Discover
  <2> QED
    BY <2>1, <2>2
<1>4. ASSUME NEW s \in Source, FindNothing(s) PROVE Fits(t)'
  BY <1>4 DEF FindNothing, PollTypeOK, Fail, Over, Nothing
<1>5. ASSUME NEW s \in Source, RecordDuplicate(s) PROVE Fits(t)'
  BY <1>5 DEF RecordDuplicate, PollTypeOK, Fail, Over, Nothing
<1>6. ASSUME NEW s \in Source, ClaimFeed(s) PROVE Fits(t)'
  BY <1>6 DEF ClaimFeed, PollTypeOK, Over, Nothing
<1>7. ASSUME NEW s \in Source, NotModified(s) PROVE Fits(t)'
  BY <1>7 DEF NotModified, PollTypeOK, Succeed, Over, Nothing
<1>8. ASSUME NEW s \in Source, RateLimited(s) PROVE Fits(t)'
  BY <1>8 DEF RateLimited, PollTypeOK, Over, Nothing
<1>9. ASSUME NEW s \in Source, FetchFails(s) PROVE Fits(t)'
  BY <1>9 DEF FetchFails, PollTypeOK, Fail, Over, Nothing
<1>10. ASSUME NEW s \in Source, Fetch(s) PROVE Fits(t)'
  BY <1>10 DEF Fetch, PollTypeOK
<1>11. ASSUME NEW s \in Source, Ingest(s) PROVE Fits(t)'
  <2>1. CASE t = s
    <3>1. judged'[s] = got[s].edition /\ polling'[s] = "recording" /\ polling[s] = "judging"
      BY <1>11 DEF Ingest, PollTypeOK
    <3>2. feed[s] # NoFeed
      BY <3>1, <2>1, PollSourceAssumption
    <3> QED
      BY <1>11, <2>1, <3>1, <3>2 DEF Ingest
  <2>2. CASE t # s
    BY <1>11, <2>2 DEF Ingest, PollTypeOK
  <2> QED
    BY <2>1, <2>2
<1>12. ASSUME NEW s \in Source, RecordSuccess(s) PROVE Fits(t)'
  BY <1>12 DEF RecordSuccess, PollTypeOK, Succeed, Over, Nothing
<1>13. ASSUME NEW s \in Source, Accident(s) PROVE Fits(t)'
  BY <1>13 DEF Accident, PollTypeOK, Over, Nothing
<1>14. ASSUME NEW s \in Source, ComesRound(s) PROVE Fits(t)'
  BY <1>14 DEF ComesRound, PollTypeOK
<1>15. ASSUME NEW s \in Source, PauseByHand(s) PROVE Fits(t)'
  BY <1>15 DEF PauseByHand, PollTypeOK
<1>16. ASSUME NEW s \in Source, RestoreByHand(s) PROVE Fits(t)'
  <2>1. 0 < DeadAt
    BY LadderAssumption
  <2> QED
    BY <1>16, <2>1 DEF RestoreByHand, PollTypeOK
<1>17. ASSUME NEW s \in Source, Prune(s) PROVE Fits(t)'
  BY <1>17 DEF Prune, PollTypeOK
<1>18. ASSUME NEW s \in Source, Resume(s) PROVE Fits(t)'
  <2>1. 0 < DeadAt
    BY LadderAssumption
  <2> QED
    BY <1>18, <2>1 DEF Resume, PollTypeOK
<1>19. ASSUME NEW f \in Feed, Publish(f) PROVE Fits(t)'
  BY <1>19 DEF Publish, PollTypeOK, Edition, Feeds
<1>20. CASE UNCHANGED pollVars
  BY <1>20 DEF pollVars
<1> QED
  BY <1>1, <1>2, <1>3, <1>4, <1>5, <1>6, <1>7, <1>8, <1>9, <1>10,
     <1>11, <1>12, <1>13, <1>14, <1>15, <1>16, <1>17, <1>18, <1>19, <1>20 DEF PollNext

\* An edition is published by an event, and there are as many as are counted.
LEMMA EditionsStep == PollInv /\ [PollNext]_pollVars => EditionsAreCounted'
<1> SUFFICES ASSUME PollInv, [PollNext]_pollVars, NEW f \in Feed PROVE published'[f] <= 1 + events'
  BY DEF EditionsAreCounted
<1>0. /\ published \in [Feed -> 1 .. 1 + MaxEvents] /\ events \in 0 .. MaxEvents
      /\ published[f] <= 1 + events /\ MaxEvents \in Nat
  BY PollBoundAssumption DEF PollInv, PollTypeOK, EditionsAreCounted
<1>1. ASSUME NEW g \in Feed, Publish(g) PROVE published'[f] <= 1 + events'
  BY <1>0, <1>1 DEF Publish, Happens
<1>2. ASSUME NEW s \in Source, Accident(s) PROVE published'[f] <= 1 + events'
  BY <1>0, <1>2 DEF Accident, Happens
<1>3. CASE published' = published /\ events' = events
  BY <1>0, <1>3
<1> QED
  BY <1>1, <1>2, <1>3 DEF PollNext, pollVars, world, table, poll, List, Skip, Discover, FindNothing, RecordDuplicate, ClaimFeed, NotModified, RateLimited,
     FetchFails, Fetch, Ingest, RecordSuccess, ComesRound, PauseByHand, RestoreByHand, Prune, Resume

\* A validator is taken from an edition that was judged, and editions do not go back.
LEMMA ValidatorsStep == PollInv /\ [PollNext]_pollVars => ValidatorsAreEarned'
<1> SUFFICES ASSUME PollInv, [PollNext]_pollVars, NEW t \in Source PROVE etag'[t] <= judged'[t]
  BY DEF ValidatorsAreEarned
<1>0. /\ etag \in [Source -> Edition] /\ judged \in [Source -> Edition]
      /\ got \in [Source -> [feed : Feeds, edition : Edition]]
      /\ etag[t] <= judged[t] /\ Fits(t)
  BY DEF PollInv, PollTypeOK, ValidatorsAreEarned
<1>1. Edition \subseteq Nat
  BY PollBoundAssumption DEF Edition
<1>2. ASSUME NEW s \in Source, Ingest(s) PROVE etag'[t] <= judged'[t]
  <2>1. CASE t = s
    <3>1. judged'[t] = got[t].edition /\ etag' = etag /\ judged[t] <= got[t].edition
      BY <1>0, <1>2, <2>1 DEF Ingest, Fits, table
    <3>2. etag[t] \in Nat /\ judged[t] \in Nat /\ got[t].edition \in Nat
      BY <1>0, <1>1
    <3> QED
      BY <1>0, <3>1, <3>2
  <2>2. CASE t # s
    BY <1>0, <1>2, <2>2 DEF Ingest, table
  <2> QED
    BY <2>1, <2>2
<1>3. ASSUME NEW s \in Source, RecordSuccess(s) PROVE etag'[t] <= judged'[t]
  <2>1. CASE t = s
    <3>1. etag'[t] = got[t].edition /\ judged' = judged /\ judged[t] = got[t].edition
      BY <1>0, <1>3, <2>1 DEF RecordSuccess, Fits, world
    <3>2. got[t].edition \in Nat
      BY <1>0, <1>1
    <3> QED
      BY <3>1, <3>2
  <2>2. CASE t # s
    BY <1>0, <1>3, <2>2 DEF RecordSuccess, world
  <2> QED
    BY <2>1, <2>2
<1>4. ASSUME NEW s \in Source, Resume(s) PROVE etag'[t] <= judged'[t]
  <2>1. (etag'[t] = 0 \/ etag'[t] = etag[t]) /\ judged' = judged
    BY <1>0, <1>4 DEF Resume, world
  <2>2. etag[t] \in Nat /\ judged[t] \in Nat
    BY <1>0, <1>1
  <2> QED
    BY <1>0, <2>1, <2>2
<1>5. CASE etag' = etag /\ judged' = judged
  BY <1>0, <1>5
<1> QED
  BY <1>2, <1>3, <1>4, <1>5 DEF PollNext, pollVars, table, world, List, Skip, Discover, FindNothing, RecordDuplicate, ClaimFeed,
     NotModified, RateLimited, FetchFails, Fetch, Accident, ComesRound, PauseByHand, RestoreByHand, Prune, Publish

LEMMA PollStep == PollInv /\ [PollNext]_pollVars => PollInv'
BY PollTypeStep, EditionsStep, LadderStep, ValidatorsStep, FitsStep DEF PollInv

\* A source that a person has paused is brought back by a person, or by the poll that
\* had listed it before.
LEMMA PauseStep ==
  ASSUME PollInv, [PollNext]_pollVars, NEW t \in Source,
         health[t] = "paused", note[t] = "person", health'[t] # "paused"
  PROVE  RestoreByHand(t) \/ (polling[t] # "idle" /\ ~row[t].paused)
<1>0. ~row[t].paused /\ health \in [Source -> {"healthy", "degraded", "failing", "dead", "paused"}]
  BY DEF PollInv, PollTypeOK, Fits
<1>1. ASSUME NEW s \in Source, health'[t] # health[t] => s = t,
             polling[s] # "idle" \/ RestoreByHand(s)
      PROVE  RestoreByHand(t) \/ (polling[t] # "idle" /\ ~row[t].paused)
  BY <1>0, <1>1
<1>2. ASSUME NEW s \in Source,
             \/ FindNothing(s) \/ RecordDuplicate(s) \/ FetchFails(s) \/ NotModified(s)
             \/ RecordSuccess(s)
      PROVE  RestoreByHand(t) \/ (polling[t] # "idle" /\ ~row[t].paused)
  BY <1>0, <1>1, <1>2 DEF FindNothing, RecordDuplicate, FetchFails, NotModified, RecordSuccess,
     Fail, Succeed
<1>3. ASSUME NEW s \in Source, RestoreByHand(s)
      PROVE  RestoreByHand(t) \/ (polling[t] # "idle" /\ ~row[t].paused)
  <2>1. health' = [health EXCEPT ![s] = "healthy"]
    BY <1>3 DEF RestoreByHand
  <2> QED
    BY <1>0, <1>1, <1>3, <2>1
<1>4. ASSUME NEW s \in Source, Discover(s) \/ PauseByHand(s) \/ Prune(s) PROVE FALSE
  BY <1>0, <1>4 DEF Discover, PauseByHand, Prune
<1>5. ASSUME NEW s \in Source, Resume(s) PROVE FALSE
  BY <1>0, <1>5 DEF Resume
<1>6. CASE health' = health
  BY <1>6
<1> QED
  BY <1>2, <1>3, <1>4, <1>5, <1>6 DEF PollNext, pollVars, table, List, Skip, ClaimFeed, RateLimited,
     Fetch, Ingest, Accident, ComesRound, Publish

\* However often sources fail, are paused and come back, side by side and with polls cut
\* short: the health is that of the failures, and no validator is kept for an edition
\* whose items were not judged.
THEOREM RowsSayWhatWasSeen == PollSpec => []PollRowsAgree
<1>1. PollSpec => []PollInv
  BY PollStarts, PollStep, PTL DEF PollSpec
<1>2. PollInv => PollRowsAgree
  BY DEF PollInv, PollRowsAgree
<1> QED
  BY <1>1, <1>2, PTL

\* Type correctness; failures in a row are bounded by DeadAt.
THEOREM PollTypes == PollSpec => []PollTypeOK
<1>1. PollSpec => []PollInv
  BY PollStarts, PollStep, PTL DEF PollSpec
<1>2. PollInv => PollTypeOK
  BY DEF PollInv
<1> QED
  BY <1>1, <1>2, PTL

\* No job lifts the pause of a person, except the poll that had listed the source before
\* (releases.ts:120, sources.ts:98).
THEOREM PausesHold == PollSpec => PersonsPauseHolds
<1>1. PollSpec => []PollInv
  BY PollStarts, PollStep, PTL DEF PollSpec
<1>2. PollInv /\ [PollNext]_pollVars =>
        [\A s \in Source :
           health[s] = "paused" /\ note[s] = "person" /\ health'[s] # "paused" =>
             \/ RestoreByHand(s)
             \/ polling[s] # "idle" /\ ~row[s].paused]_pollVars
  BY PauseStep
<1> QED
  BY <1>1, <1>2, PTL DEF PollSpec, PersonsPauseHolds

------------------------------------------------------------------------------
(* The ledger of the sources job.                                          *)

\* The ledger keys a page by a host, and a host is its own key among the candidates.
LEMMA KeysAreHosts == \A x \in Site : HostOf[x] \in Host /\ KeyOf(x) \in Host
BY LedgerAssumption DEF KeyOf

\* Who is about to be added has a feed of its own.
LedgerTypes == LedgerTypeOK /\ (act # "none" => ~NoFeedAt(subject))

LEMMA LedgerTypesBegin == LedgerInit => LedgerTypes
BY LedgerAssumption DEF LedgerInit, LedgerTypes, LedgerTypeOK

LEMMA LedgerTypesGoOn == LedgerTypes /\ [LedgerNext]_ledgerVars => LedgerTypes'
<1>. SUFFICES ASSUME LedgerTypes, [LedgerNext]_ledgerVars PROVE LedgerTypes'
  OBVIOUS
<1>. USE LedgerAssumption DEF LedgerTypes, LedgerTypeOK, ledger, job
<1>1. ASSUME \/ StartJob /\ rows' \subseteq Candidates
             \/ Continue /\ rows' \subseteq Untried
      PROVE  LedgerTypes'
  <2>1. rows' \subseteq Host \cup Entry
    BY <1>1 DEF Candidates, Untried
  <2>. QED BY <1>1, <2>1 DEF StartJob, Continue
<1>2. ASSUME NEW h \in Host, JudgeCandidate(h) PROVE LedgerTypes'
  BY <1>2 DEF JudgeCandidate, Settle, Rejected
<1>3. ASSUME NEW e \in Entry, JudgeTracked(e) PROVE LedgerTypes'
  <2>1. Home[e] \in Site /\ KeyOf(Home[e]) \in Host
    BY KeysAreHosts
  <2>. QED BY <1>3, <2>1 DEF JudgeTracked, Settle, Rejected
<1>4. CASE Insert
  <2>1. subject \in Site /\ FeedAt[subject] \in Site
    BY <1>4 DEF Insert, NoFeedAt
  <2>2. [site |-> subject, feed |-> FeedAt[subject]] \in [site : Site, feed : Site]
    BY <2>1
  <2>. QED BY <1>4, <2>1, <2>2 DEF Insert, Settle, Finish
<1>5. CASE SettlePromoted
  BY <1>5 DEF SettlePromoted, Settle
<1>6. CASE EndJob
  BY <1>6 DEF EndJob, Finish
<1>7. CASE Abort
  BY <1>7 DEF Abort, Finish
<1>8. ASSUME NEW h \in Host, Refer(h) PROVE LedgerTypes'
  <2>1. refs[h] + 1 \in 0 .. MinReferrers
    BY <1>8 DEF Refer
  <2>. QED BY <1>8, <2>1 DEF Refer
<1>9. ASSUME NEW s \in Others, AddOther(s) PROVE LedgerTypes'
  BY <1>9 DEF AddOther
<1>10. CASE UNCHANGED ledgerVars
  BY <1>10 DEF ledgerVars
<1>. QED
  BY <1>1, <1>2, <1>3, <1>4, <1>5, <1>6, <1>7, <1>8, <1>9, <1>10
  DEF LedgerNext, SourcesJob, StartJob, Continue, Batches

\* Nothing that the job still has to judge was judged before, as far as the ledger can
\* tell its domain, and what it is about to call promoted is held.
LedgerInv ==
  /\ verdict \in [Host -> {"none", "promoted", "rejected", "deferred"}]
  /\ PromotedIsPolled
  /\ act \in {"none", "insert", "settle"} /\ (act # "none" => channel # "idle")
  /\ act # "none" => subject \in Site /\ (verdict[Domain] = "none" \/ Ambiguous(Domain))
  /\ act # "none" /\ channel = "candidates" => subject \in Host
  /\ act = "settle" => subject \in Sites
  /\ channel \in {"idle", "candidates", "tracked"}
  /\ channel = "candidates" => rows \subseteq Host /\ \A h \in rows : verdict[h] = "none"
  /\ channel = "tracked" =>
       /\ rows \subseteq Entry
       /\ \A e \in rows :
            LET d == KeyOf(Home[e]) IN
            \/ Ambiguous(d)
            \/ verdict[d] = "none" /\ (act # "none" => Domain # d)

LEMMA LedgerStarts == LedgerInit => LedgerInv
BY DEF LedgerInit, LedgerInv, PromotedIsPolled

LEMMA DomainsAreHosts ==
  ASSUME LedgerInv, act # "none"
  PROVE  Domain \in Host /\ Domain \in {HostOf[subject], KeyOf(subject)}
BY LedgerAssumption, KeysAreHosts DEF LedgerInv, Domain

\* A step that settles one domain without a verdict, or an ambiguous one, with anything but
\* a false promotion.
LEMMA Settling ==
  ASSUME LedgerInv, NEW d \in Host, NEW v \in {"promoted", "rejected", "deferred"},
         Settle(d, v), held' = held, verdict[d] = "none" \/ Ambiguous(d),
         v = "promoted" => \E x \in Sites : d \in {HostOf[x], KeyOf(x)}
  PROVE  /\ verdict' \in [Host -> {"none", "promoted", "rejected", "deferred"}]
         /\ PromotedIsPolled' /\ VerdictsStand
         /\ \A h \in Host \ {d} : verdict'[h] = verdict[h]
BY DEF LedgerInv, Settle, PromotedIsPolled, VerdictsStand, Sites

\* A step that settles nothing and takes no source away.
LEMMA NotSettling ==
  ASSUME LedgerInv, UNCHANGED verdict, held \subseteq held'
  PROVE  /\ verdict' \in [Host -> {"none", "promoted", "rejected", "deferred"}]
         /\ PromotedIsPolled' /\ VerdictsStand
<1>1. Sites \subseteq Sites'
  BY DEF Sites
<1> QED
  BY <1>1 DEF LedgerInv, PromotedIsPolled, VerdictsStand

LEMMA JudgeCandidateStep ==
  ASSUME LedgerInv, NEW h \in Host, JudgeCandidate(h)
  PROVE  LedgerInv' /\ VerdictsStand
<1>0. /\ channel = "candidates" /\ channel' = "candidates" /\ act = "none" /\ h \in rows
      /\ rows \subseteq Host /\ held' = held /\ verdict[h] = "none" /\ h \in Site
  BY LedgerAssumption DEF LedgerInv, JudgeCandidate
<1>1. CASE ~Rejected(h, h) /\ h \in FirstParty
  <2>1. subject' = h /\ act' = "insert" /\ rows' = rows /\ verdict' = verdict
    BY <1>1 DEF JudgeCandidate
  <2>2. verdict' \in [Host -> {"none", "promoted", "rejected", "deferred"}]
        /\ PromotedIsPolled' /\ VerdictsStand
    BY <1>0, <2>1, NotSettling
  <2> QED
    BY <1>0, <2>1, <2>2 DEF LedgerInv, Domain, Ambiguous
<1>2. CASE ~(~Rejected(h, h) /\ h \in FirstParty)
  <2>1. PICK v \in {"rejected", "deferred"} : Settle(h, v)
    BY <1>2 DEF JudgeCandidate
  <2>2. rows' = rows \ {h} /\ act' = act /\ subject' = subject
    BY <1>2 DEF JudgeCandidate
  <2>3. /\ verdict' \in [Host -> {"none", "promoted", "rejected", "deferred"}]
        /\ PromotedIsPolled' /\ VerdictsStand
        /\ \A g \in Host \ {h} : verdict'[g] = verdict[g]
    BY <1>0, <2>1, Settling
  <2> QED
    BY <1>0, <2>2, <2>3 DEF LedgerInv
<1> QED
  BY <1>1, <1>2

LEMMA JudgeTrackedStep ==
  ASSUME LedgerInv, NEW e \in Entry, JudgeTracked(e)
  PROVE  LedgerInv' /\ VerdictsStand
<1> DEFINE x == Home[e]
           d == KeyOf(x)
<1>0. /\ channel = "tracked" /\ channel' = "tracked" /\ act = "none" /\ held' = held
      /\ x \in Site /\ d \in Host /\ rows' = rows \ {e} /\ rows \subseteq Entry
      /\ Ambiguous(d) \/ verdict[d] = "none"
  BY LedgerAssumption, KeysAreHosts DEF LedgerInv, JudgeTracked
<1>1. \A f \in rows' : KeyOf(Home[f]) = d => Ambiguous(KeyOf(Home[f]))
  BY <1>0 DEF Ambiguous
<1>2. CASE ~Rejected(d, x) /\ FeedAt[x] \notin HeldFeeds
  <2>1. subject' = x /\ act' = "insert" /\ verdict' = verdict
    BY <1>2 DEF JudgeTracked
  <2>2. verdict' \in [Host -> {"none", "promoted", "rejected", "deferred"}]
        /\ PromotedIsPolled' /\ VerdictsStand
    BY <1>0, <2>1, NotSettling
  <2>3. Domain' = d
    BY <1>0, <2>1 DEF Domain, KeyOf
  <2>4. \A f \in rows' :
          \/ Ambiguous(KeyOf(Home[f]))
          \/ verdict'[KeyOf(Home[f])] = "none" /\ Domain' # KeyOf(Home[f])
    <3>. TAKE f \in rows'
    <3>1. CASE KeyOf(Home[f]) = d
      BY <1>1, <3>1
    <3>2. CASE KeyOf(Home[f]) # d
      <4>1. Ambiguous(KeyOf(Home[f])) \/ verdict[KeyOf(Home[f])] = "none"
        BY <1>0 DEF LedgerInv
      <4>. QED
        BY <2>1, <2>3, <3>2, <4>1
    <3>. QED
      BY <3>1, <3>2
  <2> HIDE DEF x, d
  <2> QED
    BY <1>0, <2>1, <2>2, <2>3, <2>4 DEF LedgerInv, Ambiguous, KeyOf
<1>3. CASE ~(~Rejected(d, x) /\ FeedAt[x] \notin HeldFeeds)
  <2>1. Settle(d, "rejected") /\ act' = act /\ subject' = subject
    BY <1>3 DEF JudgeTracked
  <2>2. /\ verdict' \in [Host -> {"none", "promoted", "rejected", "deferred"}]
        /\ PromotedIsPolled' /\ VerdictsStand
        /\ \A g \in Host \ {d} : verdict'[g] = verdict[g]
    BY <1>0, <2>1, Settling
  <2>3. \A f \in rows' :
          Ambiguous(KeyOf(Home[f])) \/ verdict'[KeyOf(Home[f])] = "none"
    <3>. TAKE f \in rows'
    <3>1. Home[f] \in Site /\ KeyOf(Home[f]) \in Host
      BY <1>0, LedgerAssumption, KeysAreHosts
    <3>. QED
      BY <1>0, <1>1, <2>2, <3>1 DEF LedgerInv
  <2> HIDE DEF x, d
  <2> QED
    BY <1>0, <2>1, <2>2, <2>3 DEF LedgerInv, Ambiguous, KeyOf
<1> QED
  BY <1>2, <1>3

\* The last two statements of a promotion.
LEMMA PromotionStep ==
  ASSUME LedgerInv, Insert \/ SettlePromoted
  PROVE  LedgerInv' /\ VerdictsStand
<1>0. /\ act # "none" /\ Domain \in Host /\ Domain \in {HostOf[subject], KeyOf(subject)}
      /\ verdict[Domain] = "none" \/ Ambiguous(Domain)
      /\ channel \in {"candidates", "tracked"} /\ subject \in Site
  BY DomainsAreHosts DEF Insert, SettlePromoted, LedgerInv
<1>1. ASSUME NEW v \in {"promoted", "rejected"}, Settle(Domain, v), subject \in Sites,
             held' = held, channel' = channel, act' = "none", rows' = rows \ {subject}
      PROVE  LedgerInv' /\ VerdictsStand
  <2>1. /\ verdict' \in [Host -> {"none", "promoted", "rejected", "deferred"}]
        /\ PromotedIsPolled' /\ VerdictsStand
        /\ \A g \in Host \ {Domain} : verdict'[g] = verdict[g]
    <3> HIDE DEF Domain
    <3> QED BY <1>0, <1>1, Settling
  <2>2. CASE channel = "candidates"
    <3>1. Domain = subject
      BY <2>2 DEF Domain
    <3> QED
      BY <1>0, <1>1, <2>1, <2>2, <3>1 DEF LedgerInv
  <2>3. CASE channel = "tracked"
    <3>1. \A f \in rows' :
            Ambiguous(KeyOf(Home[f])) \/ verdict'[KeyOf(Home[f])] = "none"
      <4>. TAKE f \in rows'
      <4>1. f \in rows /\ f \in Entry /\ Home[f] \in Site /\ KeyOf(Home[f]) \in Host
        BY <1>1, <2>3, LedgerAssumption, KeysAreHosts DEF LedgerInv
      <4>2. \/ Ambiguous(KeyOf(Home[f]))
            \/ verdict[KeyOf(Home[f])] = "none" /\ Domain # KeyOf(Home[f])
        BY <1>0, <2>3, <4>1 DEF LedgerInv
      <4>. QED
        BY <2>1, <4>1, <4>2
    <3> QED
      BY <1>0, <1>1, <2>1, <2>3, <3>1 DEF LedgerInv, Ambiguous, KeyOf
  <2> QED
    BY <1>0, <2>2, <2>3
<1>2. CASE Insert /\ subject \in Sites
  BY <1>1, <1>2 DEF Insert
<1>3. CASE Insert /\ subject \notin Sites /\ FeedAt[subject] \in HeldFeeds
  <2>1. UNCHANGED <<held, verdict>> /\ channel' = "idle" /\ act' = "none"
    BY <1>3 DEF Insert, Finish
  <2>2. verdict' \in [Host -> {"none", "promoted", "rejected", "deferred"}]
        /\ PromotedIsPolled' /\ VerdictsStand
    BY <2>1, NotSettling
  <2> QED
    BY <2>1, <2>2 DEF LedgerInv
<1>4. CASE Insert /\ subject \notin Sites /\ FeedAt[subject] \notin HeldFeeds
  <2>1. /\ held' = held \cup {[site |-> subject, feed |-> FeedAt[subject]]} /\ act' = "settle"
        /\ UNCHANGED <<verdict, rows, subject, channel>>
    BY <1>4 DEF Insert
  <2>2. subject \in Sites'
    <3>1. [site |-> subject, feed |-> FeedAt[subject]] \in held'
      BY <2>1
    <3> QED
      BY <3>1 DEF Sites
  <2>3. verdict' \in [Host -> {"none", "promoted", "rejected", "deferred"}]
        /\ PromotedIsPolled' /\ VerdictsStand
    BY <2>1, NotSettling
  <2> QED
    BY <1>0, <2>1, <2>2, <2>3 DEF LedgerInv, Domain, Ambiguous, KeyOf
<1>5. CASE SettlePromoted
  <2>1. subject \in Sites
    BY <1>5 DEF SettlePromoted, LedgerInv
  <2> QED
    BY <1>1, <1>5, <2>1 DEF SettlePromoted
<1> QED
  BY <1>2, <1>3, <1>4, <1>5

\* Each step of the job settles what has no verdict, and keeps the invariant.
LEMMA LedgerStep ==
  ASSUME LedgerTypeOK, LedgerInv, [LedgerNext]_ledgerVars
  PROVE  LedgerInv' /\ VerdictsStand
<1> USE DEF ledger, job
<1>1. CASE StartJob
  <2>1. rows' \subseteq Candidates
    BY <1>1 DEF StartJob, Batches
  <2>2. rows' \subseteq Host /\ \A h \in rows' : verdict[h] = "none"
    BY <2>1 DEF Candidates, LedgerTypeOK
  <2>3. PromotedIsPolled' /\ VerdictsStand
    BY <1>1, NotSettling DEF StartJob
  <2> QED
    BY <1>1, <2>2, <2>3 DEF StartJob, LedgerInv
<1>2. CASE Continue
  <2>1. rows' \subseteq Untried
    BY <1>2 DEF Continue, Batches
  <2>2. ASSUME NEW e \in rows'
        PROVE  e \in Entry /\ (Ambiguous(KeyOf(Home[e])) \/ verdict[KeyOf(Home[e])] = "none")
    <3>1. e \in Entry /\ verdict[Tail[HostOf[Home[e]]]] = "none"
      BY <2>1, <2>2 DEF Untried
    <3> QED
      BY <3>1 DEF Ambiguous
  <2>3. PromotedIsPolled' /\ VerdictsStand
    BY <1>2, NotSettling DEF Continue
  <2> QED
    BY <1>2, <2>2, <2>3 DEF Continue, LedgerInv, Ambiguous, KeyOf
<1>3. CASE EndJob \/ Abort
  <2>1. PromotedIsPolled' /\ VerdictsStand
    BY <1>3, NotSettling DEF EndJob, Abort
  <2> QED
    BY <1>3, <2>1 DEF EndJob, Abort, Finish, LedgerInv
<1>4. CASE \/ \E h \in Host : Refer(h)
           \/ \E s \in Others : AddOther(s)
           \/ UNCHANGED ledgerVars
  <2>1. held \subseteq held' /\ UNCHANGED <<verdict, job>>
    BY <1>4 DEF Refer, AddOther, ledgerVars
  <2>2. PromotedIsPolled' /\ VerdictsStand /\ Sites \subseteq Sites'
    BY <2>1, NotSettling DEF Sites
  <2> QED
    BY <2>1, <2>2 DEF LedgerInv, Domain, Ambiguous, KeyOf
<1> QED
  BY <1>1, <1>2, <1>3, <1>4, JudgeCandidateStep, JudgeTrackedStep, PromotionStep
  DEF LedgerNext, SourcesJob

\* Whatever the auditions find, whoever adds sources beside the job, wherever it dies and
\* however the entries share hosts: what is called promoted is polled, and a verdict about
\* a domain of one entry is given once.
THEOREM LedgerIsRight == LedgerSpec => LedgerKeepsItsWord
<1>1. LedgerSpec => []LedgerTypeOK
  <2>1. LedgerTypes => LedgerTypeOK
    BY DEF LedgerTypes
  <2> QED
    BY <2>1, LedgerTypesBegin, LedgerTypesGoOn, PTL DEF LedgerSpec
<1>2. LedgerTypeOK /\ LedgerInv /\ [LedgerNext]_ledgerVars => LedgerInv'
  BY LedgerStep
<1>3. LedgerSpec => []LedgerInv
  BY <1>1, <1>2, LedgerStarts, PTL DEF LedgerSpec
<1>4. LedgerTypeOK /\ LedgerInv /\ [LedgerNext]_ledgerVars
        => [PromotedIsPolled' /\ VerdictsStand]_ledgerVars
  BY LedgerStep DEF LedgerInv
<1> QED
  BY <1>1, <1>3, <1>4, PTL DEF LedgerSpec, LedgerKeepsItsWord

------------------------------------------------------------------------------
(* Backfill.                                                               *)

\* A set of numbers has a least member.
LEMMA MinimalElement ==
  ASSUME NEW R, IsWellFoundedOn(R, Nat), NEW S, S \subseteq Nat, S # {}
  PROVE  \E n \in S : \A m \in S : <<m, n>> \notin R
BY WFMin

LEMMA LeastNumber ==
  ASSUME NEW S \in SUBSET Nat, S # {}
  PROVE  \E n \in S : \A m \in S : n <= m
<1>1. PICK R : /\ IsWellFoundedOn(R, Nat)
               /\ \A m, n \in Nat : m < n => <<m, n>> \in R
  <2>1. \A m, n \in Nat : m < n => <<m, n>> \in OpToRel(<, Nat)
    BY DEF OpToRel
  <2>. QED BY <2>1, NatLessThanWellFounded, Zenon
<1>2. PICK n \in S : \A m \in S : <<m, n>> \notin R
  BY <1>1, MinimalElement
<1>3. ASSUME NEW m \in S PROVE n <= m
  <2>1. m \in Nat /\ n \in Nat /\ ~(m < n)
    BY <1>1, <1>2
  <2>. QED BY <2>1
<1>. QED BY <1>3

\* The cursor after a page by time is the stamp of one of its items, the oldest.
LEMMA LeastStamp ==
  ASSUME NEW S \in SUBSET Past, S # {}
  PROVE  \E k \in S : /\ Min({Stamp[i] : i \in S}) = Stamp[k]
                      /\ \A i \in S : Stamp[k] <= Stamp[i]
<1>. DEFINE T == {Stamp[i] : i \in S}
<1>1. T \in SUBSET Nat /\ T # {}
  BY WalkAssumption
<1>2. PICK n \in T : \A m \in T : n <= m
  BY <1>1, LeastNumber
<1>3. \A x \in T : (\A m \in T : x <= m) => x = n
  BY <1>1, <1>2
<1>4. Min(T) \in T /\ \A m \in T : Min(T) <= m
  BY <1>2 DEF Min
<1>. QED BY <1>4

\* The walk begins after every item.
LEMMA BeginsAfterAll ==
  /\ Begin \in Nat
  /\ paging = "time" => \A i \in Past : Stamp[i] < Begin
  /\ paging # "time" => Begin = 0
<1>. DEFINE T == {Stamp[i] : i \in Past} \cup {0}
<1>1. T \in SUBSET Nat
  BY WalkAssumption
<1>2. \E n \in T : \A m \in T : n >= m
  <2>1. CASE Depth = 0
    BY <2>1 DEF Past
  <2>2. CASE Depth # 0
    <3>1. 1 \in Past /\ \A i \in Past : i = 1 \/ 1 < i
      BY <2>2, WalkAssumption DEF Past
    <3>2. Stamp[1] \in T /\ \A i \in Past : Stamp[1] >= Stamp[i]
      BY <3>1, WalkAssumption
    <3>. QED BY <3>1, <3>2, WalkAssumption
  <2>. QED BY <2>1, <2>2
<1>3. Max(T) \in T /\ \A m \in T : Max(T) >= m
  BY <1>2 DEF Max
<1>4. Max(T) \in Nat /\ \A i \in Past : Stamp[i] <= Max(T) /\ Stamp[i] \in Nat
  BY <1>1, <1>3, WalkAssumption
<1>. QED BY <1>4 DEF Begin

\* A page by time holds the newest of what is older than its cursor.
LEMMA NewestAreTaken ==
  ASSUME paging = "time", NEW c \in Nat,
         NEW k \in PageAt(c), NEW i \in OlderThan(c), i \notin PageAt(c)
  PROVE  k < i
<1>. DEFINE Newer(n) == {j \in OlderThan(c) : j < n}
<1>1. OlderThan(c) \subseteq Past /\ IsFiniteSet(Past) /\ Past \subseteq Nat
  <2>1. Depth \in Int /\ 1 \in Int
    BY WalkAssumption
  <2>2. IsFiniteSet(1 .. Depth)
    BY <2>1, FS_Interval
  <2>. QED BY <2>1, <2>2 DEF OlderThan, Past
<1>2. ASSUME NEW n \in Nat PROVE IsFiniteSet(Newer(n)) /\ Cardinality(Newer(n)) \in Nat
  <2>1. Newer(n) \in SUBSET Past
    BY <1>1
  <2>. QED BY <1>1, <2>1, FS_Subset, FS_CardinalityType
<1>3. k \in Nat /\ i \in Nat /\ Cardinality(Newer(k)) < PageSize /\ ~(Cardinality(Newer(i)) < PageSize)
  BY <1>1 DEF PageAt
<1>4. SUFFICES ASSUME i <= k PROVE FALSE
  BY <1>3
<1>5. Newer(i) \in SUBSET Newer(k)
  <2>1. ASSUME NEW j \in OlderThan(c), j < i PROVE j < k
    <3>1. j \in Nat
      BY <1>1
    <3>. QED BY <1>3, <1>4, <2>1, <3>1
  <2>. QED BY <2>1
<1>6. Cardinality(Newer(i)) <= Cardinality(Newer(k))
  BY <1>2, <1>3, <1>5, FS_Subset
<1>. QED BY <1>2, <1>3, <1>6, WalkAssumption

\* An empty page by time is the end of the archive.
LEMMA EmptyIsTheEnd ==
  ASSUME paging = "time", NEW c \in Nat, PageAt(c) = {}
  PROVE  OlderThan(c) = {}
<1>. SUFFICES ASSUME OlderThan(c) # {} PROVE FALSE
  OBVIOUS
<1>1. OlderThan(c) \in SUBSET Nat
  BY WalkAssumption DEF OlderThan, Past
<1>2. PICK i \in OlderThan(c) : \A j \in OlderThan(c) : i <= j
  BY <1>1, LeastNumber
<1>3. {j \in OlderThan(c) : j < i} = {}
  BY <1>1, <1>2
<1>4. Cardinality({j \in OlderThan(c) : j < i}) < PageSize
  BY <1>3, FS_EmptySet, WalkAssumption
<1>. QED BY <1>2, <1>4 DEF PageAt

\* What a page and the cursor after it are to what lies before its own cursor.
LEMMA PagesJoin ==
  ASSUME paging \in {"offset", "time"}, newer \in Nat, NEW c \in Nat
  PROVE  /\ PageAt(c) \subseteq Past /\ NextOf(c) \in Nat
         /\ Behind(NextOf(c)) \subseteq Behind(c) \cup PageAt(c)
         /\ NextOf(c) = Begin => Past \subseteq Behind(c) \cup PageAt(c)
         /\ \A i \in PageAt(c), j \in Past : j <= i => j \in Behind(c) \cup PageAt(c)
<1>. USE WalkAssumption
<1>0. Past \subseteq Nat \ {0} /\ PageSize \in Nat \ {0} /\ \A i \in Past : i <= Depth /\ Stamp[i] \in Nat
  BY DEF Past
<1>1. CASE paging = "time"
  <2>1. PageAt(c) \subseteq OlderThan(c) /\ OlderThan(c) \subseteq Past
    BY <1>1 DEF PageAt, OlderThan
  <2>2. \A i \in Past : i \in Behind(c) \/ i \in OlderThan(c)
    BY <1>0, <1>1 DEF Behind, OlderThan
  <2>3. \A i \in PageAt(c), j \in Past : j <= i => j \in Behind(c) \cup PageAt(c)
    <3>. SUFFICES ASSUME NEW i \in PageAt(c), NEW j \in Past, j <= i, j \in OlderThan(c), j \notin PageAt(c)
                  PROVE  FALSE
      BY <2>2
    <3>1. i < j
      BY <1>1, NewestAreTaken
    <3>2. i \in Nat /\ j \in Nat
      BY <1>0, <2>1
    <3>. QED BY <3>1, <3>2
  <2>4. CASE PageAt(c) = {}
    <3>1. NextOf(c) = Begin /\ Past \subseteq Behind(c)
      BY <1>1, <2>2, <2>4, EmptyIsTheEnd DEF NextOf
    <3>2. Behind(Begin) = {}
      <4>1. ASSUME NEW i \in Past PROVE ~(Stamp[i] >= Begin)
        <5>1. Stamp[i] \in Nat /\ Begin \in Nat /\ Stamp[i] < Begin
          BY <1>0, <1>1, BeginsAfterAll
        <5>. QED BY <5>1
      <4>. QED BY <1>1, <4>1 DEF Behind
    <3>. QED BY <2>1, <2>3, <3>1, <3>2, BeginsAfterAll
  <2>5. CASE PageAt(c) # {}
    <3>1. PageAt(c) \in SUBSET Past
      BY <2>1
    <3>2. PICK k \in PageAt(c) : /\ Min({Stamp[i] : i \in PageAt(c)}) = Stamp[k]
                                 /\ \A i \in PageAt(c) : Stamp[k] <= Stamp[i]
      BY <2>5, <3>1, LeastStamp
    <3>3. NextOf(c) = Stamp[k] /\ k \in Past
      BY <1>1, <2>1, <2>5, <3>2 DEF NextOf
    <3>4. NextOf(c) \in Nat /\ NextOf(c) # Begin
      BY <1>0, <1>1, <3>3, BeginsAfterAll
    <3>5. ASSUME NEW i \in Past, Stamp[i] >= Stamp[k], i \in OlderThan(c), i \notin PageAt(c) PROVE FALSE
      <4>1. k < i
        BY <1>1, <3>5, NewestAreTaken
      <4>2. Stamp[k] > Stamp[i]
        BY <3>3, <4>1
      <4>. QED BY <1>0, <3>3, <3>5, <4>2
    <3>6. Behind(NextOf(c)) \subseteq Behind(c) \cup PageAt(c)
      BY <1>1, <2>2, <3>3, <3>5 DEF Behind
    <3>. QED BY <2>1, <2>3, <3>4, <3>6
  <2>. QED BY <2>4, <2>5
<1>2. CASE paging = "offset"
  <2>1. Begin = 0
    BY <1>2, BeginsAfterAll
  <2>2. PageAt(c) = {i \in Past : c < newer + i /\ newer + i <= c + PageSize}
        /\ \A d \in Nat : Behind(d) = {i \in Past : newer + i <= d}
    BY <1>2 DEF PageAt, Behind
  <2>3. NextOf(c) = IF c + PageSize <= newer + Depth THEN c + PageSize ELSE 0
    BY <1>2, <2>1 DEF NextOf
  <2>4. /\ PageAt(c) \subseteq Past
        /\ \A i \in PageAt(c), j \in Past : j <= i => j \in Behind(c) \cup PageAt(c)
        /\ \A i \in Past : newer + i <= c + PageSize => i \in Behind(c) \cup PageAt(c)
    <3>1. PageAt(c) \subseteq Past /\ Behind(c) = {i \in Past : newer + i <= c}
      BY <2>2
    <3>2. ASSUME NEW i \in Past, newer + i <= c + PageSize PROVE i \in Behind(c) \cup PageAt(c)
      <4>1. i \in Nat /\ (newer + i <= c \/ c < newer + i)
        BY <1>0
      <4>. QED BY <2>2, <3>1, <3>2, <4>1
    <3>3. ASSUME NEW i \in PageAt(c), NEW j \in Past, j <= i PROVE newer + j <= c + PageSize
      <4>1. i \in Nat /\ j \in Nat /\ newer + i <= c + PageSize
        BY <1>0, <2>2
      <4>. QED BY <1>0, <3>3, <4>1
    <3>. QED BY <3>1, <3>2, <3>3
  <2>5. CASE c + PageSize <= newer + Depth
    <3>1. NextOf(c) = c + PageSize /\ NextOf(c) \in Nat /\ NextOf(c) # Begin
      BY <1>0, <2>1, <2>3, <2>5
    <3>2. Behind(NextOf(c)) = {i \in Past : newer + i <= c + PageSize}
      BY <2>2, <3>1
    <3>. QED BY <2>4, <3>1, <3>2
  <2>6. CASE ~(c + PageSize <= newer + Depth)
    <3>1. ASSUME NEW i \in Past PROVE newer + i <= c + PageSize
      BY <1>0, <2>6
    <3>2. Past \subseteq Behind(c) \cup PageAt(c)
      BY <2>4, <3>1
    <3>3. NextOf(c) \in Nat /\ Behind(NextOf(c)) \subseteq Past
      BY <2>2, <2>3, <2>6
    <3>. QED BY <2>4, <3>2, <3>3
  <2>. QED BY <2>5, <2>6
<1>. QED BY <1>1, <1>2

\* What is stored, or in the hands of a run that is about to store it.
Has(w) == stored \cup (IF walking[w] = "ingesting" THEN page[w].items ELSE {})

\* A run has what lies before its cursor, and once it holds a page what lies before the
\* next one too, wherever newcomers have moved the items since.
RunsLeaveNothing ==
  \A w \in Walker :
    /\ walking[w] # "idle" => Behind(at[w]) \cap Wanted \subseteq stored
    /\ walking[w] \in {"ingesting", "saving", "deciding"} =>
         /\ Behind(page[w].next) \cap Wanted \subseteq Has(w)
         /\ page[w].next = Begin => Wanted \subseteq Has(w)
         /\ \A i \in page[w].items, j \in Wanted : j <= i => j \in Has(w)

WalkInv == WalkTypeOK /\ PastIsWhole /\ RunsLeaveNothing

LEMMA WalkBegins == WalkInit => WalkInv
<1>. SUFFICES ASSUME WalkInit PROVE WalkInv
  OBVIOUS
<1>1. WalkTypeOK
  BY WalkAssumption, BeginsAfterAll DEF WalkInit, WalkTypeOK
<1>2. Behind(Begin) = {}
  <2>1. \A i \in Past : i \in Nat \ {0} /\ Stamp[i] \in Nat
    BY WalkAssumption DEF Past
  <2>. QED BY <2>1, BeginsAfterAll DEF WalkInit, Behind
<1>. QED BY <1>1, <1>2 DEF WalkInit, WalkInv, PastIsWhole, NothingIsLeftBehind, CompleteIsWhole, RunsLeaveNothing

\* A run goes from one statement to the next and nothing is stored.
LEMMA WalkGoesOn ==
  ASSUME WalkInv, WalkTypeOK', NEW w \in Walker, NEW to, walking' = [walking EXCEPT ![w] = to],
         UNCHANGED <<paging, newer, page, stored>>,
         at' = at \/ at' = [at EXCEPT ![w] = at'[w]],
         PastIsWhole',
         to # "idle" => Behind(at'[w]) \cap Wanted \subseteq stored,
         to \in {"saving", "deciding"} => walking[w] \in {"saving", "deciding"},
         to # "ingesting"
  PROVE  WalkInv'
<1>1. /\ \A v \in Walker : v # w => walking'[v] = walking[v] /\ at'[v] = at[v]
      /\ walking'[w] = to
  BY DEF WalkInv, WalkTypeOK
<1>2. Begin' = Begin /\ Wanted' = Wanted /\ \A c : Behind(c)' = Behind(c)
  BY DEF Begin, Wanted, Behind
<1>3. RunsLeaveNothing'
  <2>. SUFFICES ASSUME NEW v \in Walker
                PROVE  /\ walking'[v] # "idle" => Behind(at'[v]) \cap Wanted \subseteq stored
                       /\ walking'[v] \in {"ingesting", "saving", "deciding"} =>
                            /\ Behind(page[v].next) \cap Wanted \subseteq Has(v)'
                            /\ page[v].next = Begin => Wanted \subseteq Has(v)'
                            /\ \A i \in page[v].items, j \in Wanted : j <= i => j \in Has(v)'
    BY <1>2 DEF RunsLeaveNothing
  <2>1. CASE v # w
    BY <1>1, <2>1 DEF WalkInv, RunsLeaveNothing, Has
  <2>2. CASE v = w
    BY <1>1, <2>2 DEF WalkInv, RunsLeaveNothing, Has
  <2>. QED BY <2>1, <2>2
<1>. QED BY <1>3 DEF WalkInv

------------------------------------------------------------------------------
LEMMA WalkTypeKept == WalkTypeOK /\ [WalkNext]_walkVars => WalkTypeOK'
<1>. SUFFICES ASSUME WalkTypeOK, [WalkNext]_walkVars PROVE WalkTypeOK'
  OBVIOUS
<1>. USE WalkAssumption DEF WalkTypeOK
<1>1. CASE UNCHANGED walkVars
  BY <1>1 DEF walkVars
<1>2. CASE Arrive
  BY <1>2 DEF Arrive
<1>3. ASSUME NEW w \in Walker, Walk(w) PROVE WalkTypeOK'
  <2>1. CASE Load(w)
    BY <2>1 DEF Load, Goes
  <2>2. CASE Start(w)
    BY <2>2 DEF Start, Goes
  <2>3. CASE FetchPage(w)
    <3>1. PageAt(at[w]) \in SUBSET Past /\ NextOf(at[w]) \in Nat
      BY PagesJoin
    <3>. QED BY <2>3, <3>1 DEF FetchPage, Goes
  <2>4. CASE IngestPage(w)
    BY <2>4 DEF IngestPage, Goes
  <2>5. CASE SaveProgress(w)
    BY <2>5 DEF SaveProgress, Goes
  <2>6. CASE Stop(w)
    BY <2>6 DEF Stop, Goes
  <2>7. CASE Onwards(w)
    BY <2>7 DEF Onwards, Goes
  <2>8. CASE EndWalk(w)
    BY <2>8 DEF EndWalk, Goes
  <2>. QED BY <1>3, <2>1, <2>2, <2>3, <2>4, <2>5, <2>6, <2>7, <2>8 DEF Walk
<1>4. ASSUME NEW w \in Walker, WalkFails(w) PROVE WalkTypeOK'
  BY <1>4 DEF WalkFails, Goes
<1>. QED BY <1>1, <1>2, <1>3, <1>4 DEF WalkNext

LEMMA WalkLeavesNothing == WalkInv /\ [WalkNext]_walkVars => WalkInv'
<1>. SUFFICES ASSUME WalkInv, [WalkNext]_walkVars PROVE WalkInv'
  OBVIOUS
<1>0. WalkTypeOK' /\ WalkTypeOK
  BY WalkTypeKept DEF WalkInv
<1>. USE <1>0
<1>1. CASE UNCHANGED walkVars
  <2>1. Begin' = Begin /\ Wanted' = Wanted /\ \A c : Behind(c)' = Behind(c)
    BY <1>1 DEF walkVars, Begin, Wanted, Behind
  <2>. QED BY <1>1, <2>1 DEF walkVars, WalkInv, PastIsWhole, NothingIsLeftBehind, CompleteIsWhole, RunsLeaveNothing, Has
<1>2. CASE Arrive
  <2>1. Begin' = Begin /\ Wanted' = Wanted
    BY <1>2 DEF Arrive, Begin, Wanted
  <2>2. ASSUME NEW c \in Nat PROVE Behind(c)' \subseteq Behind(c)
    <3>1. CASE paging = "time"
      BY <1>2, <3>1 DEF Arrive, Behind
    <3>2. CASE paging = "offset"
      <4>1. ASSUME NEW i \in Past, newer' + i <= c PROVE newer + i <= c
        BY <1>2, <4>1, WalkAssumption DEF Arrive, Past, WalkTypeOK
      <4>. QED BY <1>2, <3>2, <4>1 DEF Arrive, Behind
    <3>. QED BY <3>1, <3>2 DEF WalkTypeOK
  <2>3. cursor \in Nat /\ \A w \in Walker : at[w] \in Nat /\ page[w].next \in Nat
    BY DEF WalkTypeOK
  <2>4. PastIsWhole'
    BY <1>2, <2>1, <2>2, <2>3 DEF Arrive, WalkInv, PastIsWhole, NothingIsLeftBehind, CompleteIsWhole
  <2>5. RunsLeaveNothing'
    <3>1. \A w \in Walker : Has(w)' = Has(w)
      BY <1>2 DEF Arrive, Has
    <3>. QED BY <1>2, <2>1, <2>2, <2>3, <3>1 DEF Arrive, WalkInv, RunsLeaveNothing
  <2>. QED BY <2>4, <2>5 DEF WalkInv
<1>3. ASSUME NEW w \in Walker, Walk(w) \/ WalkFails(w) PROVE WalkInv'
  <2>0. walking[w] \in {"idle", "starting", "fetching", "ingesting", "saving", "deciding"}
    BY DEF WalkTypeOK
  <2>9. /\ PastIsWhole
        /\ walking[w] # "idle" => Behind(at[w]) \cap Wanted \subseteq stored
        /\ walking[w] \in {"ingesting", "saving", "deciding"} =>
             /\ Behind(page[w].next) \cap Wanted \subseteq Has(w)
             /\ page[w].next = Begin => Wanted \subseteq Has(w)
             /\ \A i \in page[w].items, j \in Wanted : j <= i => j \in Has(w)
    BY DEF WalkInv, RunsLeaveNothing
  <2>10. ASSUME UNCHANGED <<paging, newer>> PROVE Begin' = Begin /\ Wanted' = Wanted /\ \A c : Behind(c)' = Behind(c)
    BY <2>10 DEF Begin, Wanted, Behind
  <2>11. ASSUME UNCHANGED <<paging, newer, cursor, stored>>, status' \notin {"complete", "exhausted"} \/ UNCHANGED status
         PROVE  PastIsWhole'
    BY <2>9, <2>10, <2>11 DEF PastIsWhole, NothingIsLeftBehind, CompleteIsWhole
  <2>1. CASE Load(w)
    <3>1. at'[w] = cursor
      BY <2>1 DEF Load, WalkTypeOK
    <3>. QED BY <2>1, <2>9, <2>11, <3>1, WalkGoesOn DEF Load, Goes, PastIsWhole, NothingIsLeftBehind, Behind
  <2>2. CASE Start(w)
    BY <2>2, <2>9, <2>11, WalkGoesOn DEF Start, Goes, Behind
  <2>3. CASE FetchPage(w)
    <3>. DEFINE c == at[w]
    <3>1. c \in Nat /\ Behind(c) \cap Wanted \subseteq stored /\ walking[w] = "fetching"
      BY <2>3, <2>9 DEF FetchPage, WalkTypeOK
    <3>2. /\ page'[w] = [items |-> PageAt(c), next |-> NextOf(c)] /\ walking'[w] = "ingesting"
          /\ UNCHANGED <<paging, cursor, status, stored, newer, at>>
          /\ \A v \in Walker : v # w => page'[v] = page[v] /\ walking'[v] = walking[v]
      BY <2>3 DEF FetchPage, Goes, WalkTypeOK
    <3>3. /\ Behind(NextOf(c)) \subseteq Behind(c) \cup PageAt(c)
          /\ NextOf(c) = Begin => Past \subseteq Behind(c) \cup PageAt(c)
          /\ \A i \in PageAt(c), j \in Past : j <= i => j \in Behind(c) \cup PageAt(c)
      BY <3>1, PagesJoin DEF WalkTypeOK
    <3>4. Has(w)' = stored \cup PageAt(c) /\ \A v \in Walker : v # w => Has(v)' = Has(v)
      BY <3>2 DEF Has
    <3>5. Wanted \subseteq Past
      BY DEF Wanted
    <3>6. /\ Behind(NextOf(c)) \cap Wanted \subseteq Has(w)'
          /\ NextOf(c) = Begin => Wanted \subseteq Has(w)'
          /\ \A i \in PageAt(c), j \in Wanted : j <= i => j \in Has(w)'
      BY <3>1, <3>3, <3>4, <3>5
    <3>7. /\ Begin' = Begin /\ Wanted' = Wanted
          /\ \A v \in Walker : Behind(at[v])' = Behind(at[v]) /\ Behind(page[v].next)' = Behind(page'[v].next)
      BY <3>2 DEF Begin, Wanted, Behind
    <3>8. RunsLeaveNothing'
      <4>. SUFFICES ASSUME NEW v \in Walker
                    PROVE  /\ walking'[v] # "idle" => Behind(at'[v]) \cap Wanted \subseteq stored
                           /\ walking'[v] \in {"ingesting", "saving", "deciding"} =>
                                /\ Behind(page'[v].next) \cap Wanted \subseteq Has(v)'
                                /\ page'[v].next = Begin => Wanted \subseteq Has(v)'
                                /\ \A i \in page'[v].items, j \in Wanted : j <= i => j \in Has(v)'
        BY <3>2, <3>7 DEF RunsLeaveNothing, Behind
      <4>1. CASE v = w
        BY <3>1, <3>2, <3>6, <4>1
      <4>2. CASE v # w
        BY <3>2, <3>4, <4>2 DEF WalkInv, RunsLeaveNothing
      <4>. QED BY <4>1, <4>2
    <3>. QED BY <2>11, <3>2, <3>8 DEF WalkInv
  <2>4. CASE IngestPage(w)
    <3>1. /\ walking[w] = "ingesting" /\ walking'[w] = "saving"
          /\ stored' = stored \cup (page[w].items \cap Wanted)
          /\ UNCHANGED <<paging, cursor, status, newer, at, page>>
          /\ \A v \in Walker : v # w => walking'[v] = walking[v]
      BY <2>4 DEF IngestPage, Goes, WalkTypeOK
    <3>2. Begin' = Begin /\ Wanted' = Wanted /\ \A c : Behind(c)' = Behind(c)
      BY <2>10, <3>1
    <3>3. \A v \in Walker : Has(v) \cap Wanted \subseteq Has(v)'
      BY <3>1 DEF Has
    <3>4. PastIsWhole'
      BY <2>9, <3>1, <3>2 DEF PastIsWhole, NothingIsLeftBehind, CompleteIsWhole
    <3>5. RunsLeaveNothing'
      <4>. SUFFICES ASSUME NEW v \in Walker
                    PROVE  /\ walking'[v] # "idle" => Behind(at[v]) \cap Wanted \subseteq stored'
                           /\ walking'[v] \in {"ingesting", "saving", "deciding"} =>
                                /\ Behind(page[v].next) \cap Wanted \subseteq Has(v)'
                                /\ page[v].next = Begin => Wanted \subseteq Has(v)'
                                /\ \A i \in page[v].items, j \in Wanted : j <= i => j \in Has(v)'
        BY <3>1, <3>2 DEF RunsLeaveNothing, Behind
      <4>1. walking'[v] # "idle" <=> walking[v] # "idle"
        BY <3>1
      <4>2. walking'[v] \in {"ingesting", "saving", "deciding"} <=> walking[v] \in {"ingesting", "saving", "deciding"}
        BY <3>1
      <4>. QED BY <3>1, <3>3, <4>1, <4>2 DEF WalkInv, RunsLeaveNothing
    <3>. QED BY <3>4, <3>5 DEF WalkInv
  <2>5. CASE SaveProgress(w)
    <3>1. /\ walking[w] = "saving" /\ at'[w] = page[w].next
          /\ UNCHANGED <<paging, newer, page, stored, status>> /\ cursor' = page[w].next
      BY <2>5 DEF SaveProgress, WalkTypeOK
    <3>2. Behind(page[w].next) \cap Wanted \subseteq stored
      BY <2>9, <3>1 DEF Has
    <3>3. PastIsWhole'
      BY <2>9, <2>10, <3>1, <3>2 DEF PastIsWhole, NothingIsLeftBehind, CompleteIsWhole, Behind
    <3>4. at' = [at EXCEPT ![w] = at'[w]]
      BY <2>5 DEF SaveProgress, WalkTypeOK
    <3>. QED BY <2>5, <3>1, <3>2, <3>3, <3>4, WalkGoesOn DEF SaveProgress, Goes, Behind
  <2>6. CASE Stop(w)
    BY <2>6, <2>9, <2>11, WalkGoesOn DEF Stop, Goes
  <2>7. CASE Onwards(w)
    BY <2>7, <2>9, <2>11, WalkGoesOn DEF Onwards, Goes
  <2>8. CASE EndWalk(w)
    <3>1. /\ walking[w] = "deciding" /\ (page[w].next = Begin \/ Reached(w))
          /\ UNCHANGED <<paging, newer, page, stored, cursor, at>>
      BY <2>8 DEF EndWalk
    <3>2. Has(w) = stored
      BY <3>1 DEF Has
    <3>3. ASSUME Reached(w), NEW j \in Wanted PROVE j \in stored
      <4>1. PICK i \in page[w].items : Stamp[i] <= Until
        BY <3>3 DEF Reached
      <4>2. i \in Past /\ j \in Past /\ Stamp[j] >= Until
        BY DEF WalkTypeOK, Wanted
      <4>3. i \in Nat /\ j \in Nat /\ Stamp[i] \in Nat /\ Stamp[j] \in Nat /\ Until \in Nat
        BY <4>2, WalkAssumption DEF Past
      <4>4. i < j => Stamp[i] > Stamp[j]
        BY <4>2, WalkAssumption
      <4>5. j <= i
        BY <4>1, <4>2, <4>3, <4>4
      <4>. QED BY <2>9, <3>1, <3>2, <4>1, <4>5
    <3>4. Wanted \subseteq stored
      BY <2>9, <3>1, <3>2, <3>3
    <3>5. PastIsWhole'
      BY <2>10, <3>1, <3>4 DEF PastIsWhole, NothingIsLeftBehind, CompleteIsWhole
    <3>. QED BY <2>8, <3>1, <3>5, WalkGoesOn DEF EndWalk, Goes
  <2>12. CASE WalkFails(w)
    <3>1. status' \notin {"complete", "exhausted"} \/ UNCHANGED status
      BY <2>12 DEF WalkFails
    <3>. QED BY <2>11, <2>12, <3>1, WalkGoesOn DEF WalkFails, Goes
  <2>. QED BY <1>3, <2>1, <2>2, <2>3, <2>4, <2>5, <2>6, <2>7, <2>8, <2>12 DEF Walk
<1>. QED BY <1>1, <1>2, <1>3 DEF WalkNext

\* However many runs walk at once and die where they like, whatever is published
\* meanwhile and however large the pages are: what the saved cursor has passed is stored.
THEOREM PastIsKept == WalkSpec => []PastIsWhole
<1>1. WalkInv => PastIsWhole
  BY DEF WalkInv
<1>. QED BY <1>1, WalkBegins, WalkLeavesNothing, PTL DEF WalkSpec

------------------------------------------------------------------------------
(* The instance that is checked.                                           *)

\* No part touches the variables of another: what is proved of each by itself holds of
\* the behaviours that the run enumerates.
LEMMA EachByItself == Spec => PollSpec /\ LedgerSpec /\ WalkSpec /\ VocabSpec
<1>1. Init => PollInit /\ LedgerInit /\ WalkInit /\ VocabInit
  BY DEF Init
<1>2. [Next]_vars => [PollNext]_pollVars
  BY DEF Next, vars, Polls, Ledgers, Walks, Vocabs
<1>3. [Next]_vars => [LedgerNext]_ledgerVars
  BY DEF Next, vars, Polls, Ledgers, Walks, Vocabs
<1>4. [Next]_vars => [WalkNext]_walkVars
  BY DEF Next, vars, Polls, Ledgers, Walks, Vocabs
<1>5. [Next]_vars => [VocabNext]_vocabVars
  BY DEF Next, vars, Polls, Ledgers, Walks, Vocabs
<1>. QED
  BY <1>1, <1>2, <1>3, <1>4, <1>5, PTL DEF Spec, PollSpec, LedgerSpec, WalkSpec, VocabSpec

\* The components keep their types, whatever the constants are.
THEOREM FeedTypes == Spec => []FeedsTypeOK
<1>1. LedgerSpec => []LedgerTypeOK
  <2>1. LedgerTypes => LedgerTypeOK
    BY DEF LedgerTypes
  <2>. QED BY <2>1, LedgerTypesBegin, LedgerTypesGoOn, PTL DEF LedgerSpec
<1>2. WalkSpec => []WalkTypeOK
  <2>1. WalkInit => WalkTypeOK
    BY WalkBegins DEF WalkInv
  <2>. QED BY <2>1, WalkTypeKept, PTL DEF WalkSpec
<1>3. PollTypeOK /\ LedgerTypeOK /\ WalkTypeOK /\ VocabTypeOK => FeedsTypeOK
  BY DEF FeedsTypeOK
<1>. QED BY <1>1, <1>2, <1>3, EachByItself, PollTypes, VocabTypesHold, PTL

=============================================================================
