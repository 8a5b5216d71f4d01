# NewsTrack, verified

TLA+ models of NewsTrack (a news collector and archive in TypeScript over PostgreSQL), the TLC
configurations that check them on small instances, and TLAPS proofs of what matters most for
instances of any size. Everything is translated from the source; line numbers refer to it.

    tlc -workers 2 -config sched_claims.cfg MCScheduler     # any run of section 3
    tlapm SchedulerProofs.tla                               # any of the eight *Proofs modules

`PROJECT.json` is the index: components, runs, the mutant that each property must catch, the
source lines of every definition, hazards, findings and theorems.

Contents: 1 the system; 2 the models; 3 the runs; 4 assumptions, bounds and fairness; 5 the
proofs; 6 divergences between code and its documentation; 7 what is not modelled; 8 the plan.

## 1. The system

One Node process (`src/main.ts`) serves the web pages and runs a scheduler. Several processes may
run against one database, and then divide the jobs between them. **No multi-statement operation of
the pipeline runs in a transaction**: every statement is atomic, and between any two of them other
processes act, the process can die, or the database can go away. That is what makes the
system hard, and it fixes the grain of the models: *one step is one statement*.

| Component | State | Operations | Interacts with |
|---|---|---|---|
| Job scheduler `run/scheduler.ts` | `job_runs`; per process the timer, `registered`, `running`, failure count | start, register, reclaim, tick, claim, run, release, stop | all jobs; other processes through `job_runs` |
| Job catalogue `run/jobs.ts` | none | which jobs with which cadence, hour and lease | scheduler |
| Collection `collect/ingest.ts`, `db/repos/stories.ts` | `stories`, `story_keys`, `story_members` | `ingestItems` | polls of other sources, backfill, retain |
| Retention and rollup `maintain/rollup.ts`, `retain.ts`, `ui/favourites.ts` | `rollup_log`, monthly tables, `favourites` | rollup, retain, lapsed sweep, star and unstar | late polls, readers, each other |
| Polling and source health `collect/cycle.ts`, `pipeline.ts`, `fetcher.ts`, `repos/sources.ts` | `sources`, domain timers | list, discover, fetch, success, failure, pause, resume, tune | collection, scripts, release feeds |
| Source lifecycle `maintain/sources.ts`, `collect/audition.ts` | `source_candidates`, `sources` | refer, audition, insert, settle | polling, vocabulary |
| Backfill `collect/backfill.ts` | `backfill_state` | page, ingest, save the cursor, stop | collection, retention gates |
| Deduplication `process/dedup.ts` | `superseded_by`, members, counts, questions | compare, ask, merge | collection, snapshots |
| Snapshots `process/snapshot.ts` | `snapshot_schedule`, snapshots | schedule, copy, mark | collection, retention |
| Model router `llm/router.ts`, `budgets.ts` | `llm_cache`, provider rows | look up, choose, call, record | every job that asks a model |
| Scoring and classification `process/classify.ts`, `score.ts` | category, scores and who gave them | classify, triage, escalate, apply | router |
| Emerging names `process/emerging.ts` | names, sightings, stamps | scan, record, recount, gate | router, members |
| Vocabulary `process/discover.ts`, `tagstacks.ts` | `stacks`, candidates, tags, markers | propose, promote, decide, tag, re-examine | classification, release feeds |
| Reports `analysis/briefing.ts` | briefings per field, day rows | pool, write, save, release | router, stories |
| Reference and adoption `collect/reference.ts`, `adoption.ts` | rows by age | take a slice, ask, back off | vocabulary |
| Settings `settings.ts`, `ui/settings.ts` | stored settings, their history, caches | save, reset, overlay | every cycle |
| Worker of the edge platform `workers/cron.ts`, `db/client.ts`, `lib/subrequests.ts` | the pool and the budget of an isolate's modules | open, defer, cycle, statements, close, clear | the cycle, other invocations in the isolate |
| Launcher `launcher/launch.ts`, `plan.ts` | configuration file, cluster, roles | choose, start, migrate, seed, serve, stop | the database itself |

**What makes each correct.** Scheduler: a due job is run, by one process, not before its cadence and
back-off, daily ones at their hour, never more at once than allowed, and no death loses a job.
Collection: the key that leads to a story stays with it; a credit is for a story that the source has;
nothing a feed offers is refused for ever. Retention: a favourite is never touched; a late story ends up
counted. Polling: health and validators say what was seen, no
source starves, no poll asks a domain too often. Source lifecycle: a verdict stands, what is promoted
is polled. Backfill: no story between the cursor and the present is missing, and
the walk arrives. Dedup: what is merged is behind a story that is shown. Router and scoring: every
story is scored in the end, and a score names who gave it. Names: tracked on evidence. Vocabulary: one
entry a term, and its stories find it. Reports: no story twice, no gap between the windows, and quiet
means quiet. Settings: what is
set is acted on, and the history explains it. Launcher: no start harms the archive. Worker: an invocation
has its own pool and stays within its allowance.

**What is hard.** Statements of two actors in any order (claims, keys, favourites, prune marks, tags,
cursors); invocations that share the variables of a module; lists read once and used statement after
statement (`pendingMonths`, the reclaimed rows, the rows a cycle read, the taxonomy a promotion loaded);
processes that die between two writes that belong together; one failing element that fails a batch;
leases and cooldowns that run out under a run; jobs that are meant to be ordered and are only scheduled;
places in a slice that the same rows take every time. `PROJECT.json` lists each at its line as a hazard,
with the property that covers it or the reason why none can.

## 2. The models

| Module | What it models | Instance |
|---|---|---|
| `Scheduler` | `run/scheduler.ts`, the shutdown of `main.ts`, table `job_runs` | `MCScheduler` |
| `ExclusiveJobs` | what a claim promises: a job that is taken was in nobody's hands | (abstract) |
| `StoryIdentity` | `ingestItems` with `story_keys`, beside `retain()` | `MCStoryIdentity` |
| `Retention` | rollup, retain, lapsed sweep, favourites, late arrivals | `MCRetention`, `MCKeeping` |
| `Polling` | one source from poll to poll: discovery, fetch, health ladder, pauses | `MCSources` |
| `SourceLedger` | the two channels of the sources job and their ledger | `MCSources` |
| `Backfill` | walks into the past by offset and by time | `MCSources` |
| `Vocabulary` | candidates, promotion, tagging, a model's judgement | `MCSources` |
| `ModelWork` | classification and scoring through cache, chain and budgets | `MCSystem` |
| `Names` | the ledger of emerging names | `MCSystem` |
| `Snapshots` | schedule, capture and mark | `MCSystem` |
| `Refresh` | which subject adoption and reference ask for next | `MCSystem` |
| `Settings` | saves, history, overlay, cached preferences | `MCSettings`, `MCSystem` |
| `Dedup` | comparisons, questions, the statements of a merge | `MCRecords` |
| `Reports` | windows, fields and rows of the daily report | `MCRecords` |
| `Launcher` | the start from the choice of a database to the served page, and the stop | `MCRecords` |
| `PollQueue` | order of the due sources, back-off, `Retry-After`, tuning | `MCRecords` |
| `Politeness` | the gate of one domain under concurrent polls | `MCRecords` |
| `EdgeWorker` | invocations of the Worker in one isolate: pool, budget, cycle | `MCEdgeWorker`, `MCRecords` |

Proofs are in `SchedulerProofs`, `StoryIdentityProofs`, `RetentionProofs`, `VocabularyProofs`,
`SourcesProofs` (Polling, SourceLedger, Backfill), `WorkProofs` (ModelWork, Names, Snapshots, Refresh,
Settings), `CollectorProofs` (PollQueue, Politeness, EdgeWorker) and `RecordsProofs` (Dedup, Reports,
Launcher). `SourcesProofs`, `WorkProofs` and `RecordsProofs` extend the module of the run that checks
these components together, so that they speak of the composition as well.

`Retention` and `StoryIdentity` both contain `retain()`: the first its effect on months and stars, with
one step per delete, the second its effect on keys. They share no variable and are not composed. The
same holds for `Polling` and `PollQueue`, which split a source between what a poll writes and when it
is next, and for `ModelWork` and the jobs that use the router, in which a call is one step with every
outcome it can have.

### Scheduler

`job_runs` is `listed, dueIn, holder, age, cfails, rested`; the fields of one `Scheduler` object are
`pc, registered, stopping, failures, wait, todo, awaited` and, per job, `task, held`. A timestamp is
kept as its distance from `now()`, which is how the SQL uses it; `Advance` moves all distances. The
distances stop counting at the value beyond which no comparison can tell them apart.

| Code | Actions |
|---|---|
| `start`, `register` (one upsert a job) | `Start`, `Register` |
| `reclaimFromDeadRunners` (SELECT, then UPDATE) | `FindDead`, `Reclaim` |
| `schedule`, `nextDelayMs` | `Timer`, `Settle`, `Reject` |
| `tick` | `Select`, `TickDone`, `StatementFails` |
| `claimAndRun`, `release` | `Claim`, `ClaimFails`, `Finish`, `Release`, `ReleaseFails` |
| `stop`, `main.ts` shutdown, a kill | `Stop`, `HandBack`, `Exit` |

Faults are a constant: an outage of the database at any statement, a crash at any point, a stop.
A row in the table that no runner builds (`Legacy`) and runners with different catalogues are
constants too. What a job does is not here: it is a span of time that ends well or not.

### StoryIdentity

`keys` is `story_keys` (a hash is its preimage: an address or a text), `story` the rows of `stories`,
`members` those of `story_members`. A call of `ingestItems` keeps `step, batch, reading, claimed,
joins`. The steps are its statements: `LookUp` (findManyByUrl), `Read` (the pages of items whose text is
too short, any subset of them; then the second lookup, and the bar that drops what is still short), `MatchBodies` (findManyByContent), `ClaimUrls` or
`ClaimRefused`, `LookUpOwners`, `InsertStories`, `RegisterKeys`, `AddMembers`; and `Crash` between any
two. `retain()` is `StripKeys`, `DeleteStories`, `SweepKeys`, `SweepMembers`: the sweep takes every key
without a story, those of a claim that is not yet written under too. The lexical gates of ingest decide
which items there are at all (`Offered`).

### Retention

`life[s]` takes a story from a poll's gate (`Gate`) through insert and dirty mark (`Land`, `Mark`) to
deletion; `fav` is the favourites table, in which a released row counts for a grace period
(`Save`, `Release`, `Lapse`); `window` is the first month still open (`CloseMonth`). `counted`,
`analysis`, `rolled`, `pruned`, `dirty` are `month_totals`, the other monthly tables and the columns of
`rollup_log`. Rollup: `StartRollup` reads the list of months, then `DropTotals, CountTotals,
DropAnalysis, FillAnalysis, LogRollup` for each. Retain: `Survey`, `StripChildren`, `Unstar`,
`DeleteBatch` (any `Batch` of the doomed) until `DeleteDone`, or `DeleteRefused` by the trigger of
migration 0037, then `Stamp`. `RollupFails` and `KeeperFails` cut either short. A month's analysis is
the set of stories it counts; a superseded or dismissed story, a forced re-roll and a dry run are
left out.

### Polling, PollQueue, Politeness

`Polling` keeps of a source's row `health, failures, feed, etag, due, note` and of its poll what the
cycle read (`row`), the next step (`polling`) and what it has in hand (`got`). `List` is the SELECT of
`dueAcrossShards`; `Discover`, `FindNothing`, `RecordDuplicate`, `ClaimFeed` are `resolveFeedUrl` and
`setFeedUrl` with its unique index; `NotModified`, `RateLimited`, `FetchFails`, `Fetch`, `Ingest`,
`RecordSuccess` are the ways out of `collectSource`; `Skip` is the deadline, `Accident` a throw or a
death. Beside them scripts pause and restore (`PauseByHand`, `RestoreByHand`, `Prune`), and
`syncTrackedReleases` resumes (`Resume`). `judged` remembers the last edition whose items went through
the gates, which no column says. An edition is judged in one step, where the code goes item by item; and
the upsert of `releases.ts:206-209`, which changes the feed of a source and keeps its validator, is
left out. `PollQueue` has the same sources as `wait, interval, failed`: a cycle
takes the `Slots` that come first by `Precedes` (lateness measured in the source's own interval), each
poll ends well, fails, is told to wait, or throws, which leaves its row as it is (`thrown` counts those),
and `tuneIntervals` moves intervals. `Politeness` is the gate: `FallAsleep` reads the last request,
`WakeUp` writes it, `PassAtOnce` does both. Who asks is a worker of a poll: the poll itself up to its
items (`TurnToPages`), and then `Width` of them until the articles are in (`PagesAreIn`). The probes of
`resolveFeedUrl` (`pipeline.ts:521-523`) neither read nor write the state of the gate.

### SourceLedger, Backfill

`SourceLedger`: `held` are the sources, `refs` and `listed` what stories refer to, `verdict` the ledger.
`JudgeCandidate` and `JudgeTracked` are an audition in either channel; a promotion is `Insert`, then
`SettlePromoted`, and `Abort` falls between. A verdict on an entry is written under the host of its home
page (`KeyOf`), and what has one is looked up by the registrable tail (`Tail`); several entries may have
one host. `Backfill`: `FetchPage`, `IngestPage`, `SaveProgress`, then
`Stop` or `Onwards`; `Arrive` puts a newcomer at the front, which moves every page of an archive that is
paged by offset. Walkers share one row and nothing keeps them apart.

### Vocabulary

`entries`, `candidacy`, `tags`, `examined`, `opinion` are the rows; the job and the page of the
administrator each promote (`ReadQueue` or `Accept`, `LoadTaxonomy`, `InsertStack` or `RejectKnown`,
`MarkPromoted`, `Reexamine`), the tagger reads, writes and marks (`LoadVocabulary`, `ReadRows`,
`WriteTags`, `MarkRows`), and `Judge` is the model's answer in `classify.ts`. `mode` says how much may
overlap (section 4).

### ModelWork, Names

`ModelWork` is the process job after deduplication: batches are read (`Begin`, `NextBatch`), looked up
in the cache, put to the providers of the call's chain in order (`Answer`, `Babble`, `Limit`, `Break`)
or deferred, and each story is written by a statement of its own (`ApplyClassification`, `ApplyScore`);
`Escalate` and `Rescore` are the second call about the best of a batch. An answer speaks of any of what
was asked, and triage may flag a story outside of it (`NoStory`): then the job throws (`EscalateStray`),
and the answer is in the cache. `flagged, resting, spent` are the
columns of a provider; `cooling` is the truth about it; another job uses the `Shared` ones. `Names`
is one pass: `Unscanned`, `Read` or `Refused` per batch, then for each find `RecordName`, `Sight`,
`CarriedBy` per member, `Recount`; `Stamp` when the batch is done, `ApplyGate` when all are. `RecordFails`
is the upsert of a name whose row and story both have no field: `array_agg` over nothing is NULL, which
the column does not take.

### Snapshots, Refresh, Settings

`Snapshots`: `Schedule`, then per run `ReadDue`, `CopyCounts` per offset, `Mark`. `Refresh`: `TakeSlice`
takes what is due (`IsDue`) in the order of the query (`Leads` by `AskedBefore`), then `Found`, `Unresolved`, `Fail` or `BreakOff`; both jobs
are one module with a variable that says which. `Settings`: a post is one step per key, with the
statements of an upsert apart (`Select`, `Upsert`), `Delete`, `Reset`, with the values as `Coerce` makes
them (what is posted blank, and both bounds of a number), the overlay of a cycle (`Cycle`) and the
reader's cache (`LoadPrefs`, `CachePrefs`, `Expire`).

### Dedup, Reports, Launcher

`Dedup`: `LookAt` compares a story with the ones before, `ReadTitles` and `AskModel` are the doubtful
pairs, and a merge is `ReadBoth`, `Supersede`, `AddMember`, `CountCoverage`, with `Stops` between any two;
`Repost` is a link that arrives again. `Reports`: `Begin` fixes the window, `Brief` takes what comes
of a field (`Comes`: too little, a briefing, none, or something that throws and is taken for none),
`SaveField` and `SaveDay` store, and `CutShort` is a death or a throw outside the fields. `Launcher`: the steps of `main` in `launch.ts` in their
order, each failing or not (`ScriptFails`, `RoleFails`, `Fail`), `Kill` at any point, `Outage` of a
server that is the user's. What is on the disk is `file, cluster, schema`; what the process remembers
is `config, started`.

### EdgeWorker

`workerPool, ended` are the pool that `createWorkerDb` keeps in its module, named by the invocation that
opened it, and the pools that `end()` was called on; `active, used` the budget. Of an invocation there
are the step it awaits (`doing`), the pool its queries go to (`db`), the sources nobody in its cycle has
taken (`left`), the requests that each poll has still to make (`asks`), and `spent`, what the platform
counts, which no variable of the code says. `Open` is `withInvocation` up to its first await; then
`ReadSettings`, `Defer` (`schedulerIsRunning`), and either `RunStatement` or the cycle: `List`, `Take` by a
worker of `mapWithConcurrency`, `PassDeadline`, `Fetch`, `EndCycle`. `ClosePool` and `ForgetPool` are the
two sides of the await in `closeWorkerDb`, `Clear` is `clearBudget`. A redirect that is followed, and the
requests to the model providers, are not counted in `spent`: the properties are about a cycle.

## 3. The runs

| Run | Instance | Shows |
|---|---|---|
| `sched_claims` | 2 runners on 2 hosts, one interval job; crash, outage, stop | `TypeOK`; a claimed row stays due, so that a death costs a lease and not an interval (`ClaimedIsDue`); no run begins before cadence and back-off (`CadenceKept`); a due job is started in the end, also if a dead host's claim is on it (`EventuallyRuns`) |
| `sched_timely` | 2 processes of one host, same faults, under `Timely` | `Exclusive`; a run within its lease keeps its row (`ClaimKept`); refinement of `ExclusiveJobs` (`TakesOnlyFreeJobs`) |
| `sched_mixed` | 1 runner, an interval job and two daily ones of one hour, 2 places, day of 4 units, outages | `AtMostMaxParallel` though a failed tick leaves its jobs running; `DailyKeepsItsHour` |
| `ident_retire` | 2 polls, 2 items, one of them old, whose texts are on pages that declare one address; retain beside them, in any order; 1 crash | `TypeOK`; `KeepsItsAddress`: no claim, registration, strip or sweep takes the key from a story within the window; `CreditsAreTrue`: a source is credited with what it offers, whatever was claimed, taken over and deleted meanwhile |
| `ident_race` | the same polls and items | **violation** of `OneStoryPerUrl` (section 6) |
| `keep_any` | 2 stories, one late, both retain modes, any interleaving; and the same archive when everything is kept, with a backfill, 1 cut, fair; and StoryIdentity: 2 polls that go on, 1 crash, fair | `FavouritesAreSpared`; `KeptAreCounted`: a late story ends up in its month's analysis; `ItemsAreCredited`: no claim left by a dead poll bars an item for ever |
| `feeds` | Polling: 2 sites of one feed; SourceLedger: 3 hosts, 4 addresses and 3 entries, two of them on one host and one under a subdomain; Backfill: 4 items in pages of 2, 2 walkers, both pagings; Vocabulary: 2 terms, 1 story | `PollRowsAgree`; `LedgerKeepsItsWord`; `SourcesAreSettled`; `PastIsWhole`, `PastIsReached`; `VocabIsSound`, `VocabIsApplied`; `FeedsTypeOK` |
| `work` | ModelWork: 2 stories, 2 providers, one shared; Names: 2 stories, 2 names, 2 papers; Snapshots: 3 offsets, 2 cameras; Refresh: 4 subjects, slices of 2; Settings: a number, a text and a list, 1 page, 1 daemon | `ClaudeMeansClaude`, `EachIsScored`; `NamesAreEarned`, `NamesAreTracked`; `OffsetsAreTaken`; `AllComeRound`; `SettingsAreKept`; `WorkTypesOK` |
| `records` | Dedup: 3 copies of 2 outlets, 2 passes; Reports: 2 stories of 2 fields, 5 moments; Launcher: 3 faults; PollQueue: 3 sources, 1 place, 1 poll that throws; Politeness: 2 polls of 2 workers; EdgeWorker: 3 invocations, 3 sources, one of them an adapter's | `MergesAreSound`; `DaysAreWhole`; `StartsAreSafe`; `ServedInTime`; `OwnGapIsKept`; `LoneOnesAreServed`; `RecordsTypeOK` |
| `ident_twins` | one feed with two links that one page answers | **violation** of `EventuallyCredited` (section 6) |
| `launch_again` | the embedded cluster, started twice, nothing going wrong | **violation** of `EachStartServes` (section 6) |
| `edge_budget` | one tick of the Worker, 5 sources without a stored feed, the numbers of the code | **violation** of `StaysWithinAllowance` (section 6) |

**Runs of several components.** `feeds`, `work` and `records` each check modules that share no variable. An
interleaving of their steps would only multiply states and tell nothing new, so a behaviour takes the
steps of one of them, chosen at the start by the variable `part`, and the others rest in one initial
state. A liveness property of one is stated as `part = "..." => ...`. What would be lost is a
property across two of them; there is none. `keep_any` does the same for the two kinds of archive and for
the polls that fill it: `MCKeeping` takes a second instance of `Retention`, in which everything is kept,
over the same variables, and one of `StoryIdentity`.

**Properties of several parts.** Some properties are a conjunction of named facts that one module has
to keep together, because each is what the next one rests on:

| Property | Parts |
|---|---|
| `PollRowsAgree` | the health is that of the failures (`LadderAgrees`); a validator is kept only for an edition whose items were judged (`ValidatorsAreEarned`) |
| `LedgerKeepsItsWord` | what is called promoted is polled (`PromotedIsPolled`); no verdict on a domain is changed, unless it is `Ambiguous`: shared by two entries, or not the tail its entry is looked up by (`VerdictsStand`) |
| `PastIsWhole` | nothing wanted is missing behind the cursor (`NothingIsLeftBehind`); a walk called complete is (`CompleteIsWhole`) |
| `VocabIsSound` | a promoted term has its entry, one, and a model's tags stay |
| `NamesAreEarned` | tracked on evidence, stamped when sighted, dated by its first story |
| `SettingsAreKept` | the history explains the value; a set value is acted on; the cache catches up |
| `MergesAreSound` | one story of an event is shown; what is merged is a member; a count is that of the members |
| `DaysAreWhole` | no story in two briefings; a day has the briefings it lists; what is called quiet had too little (`QuietIsTrue`); the windows of the days meet |
| `LoneOnesAreServed` | an invocation that nothing ran beside has a pool of its own, open while it asks, closed at its end (`PoolIsItsOwn`); it stays within its allowance (`StaysWithinAllowance`) |
| `StartsAreSafe` | one archive is ever served, with its tables and passwords; a cluster that was adopted is not stopped |

Each property of a passing run has a mutant: a plausible slip in the code (a dropped back-off, `>=`
for `>` in a lease test, a cursor saved before its page, a reset of the archive forgotten) under which
the same run fails. The mutated definitions stand beside the originals, marked `a mutant`; nothing uses
them.

## 4. Assumptions, bounds and fairness

**Restrictions on behaviour.** These conditions make a model narrower than what the code can do. Each
excludes a window that the code leaves open, found by a counterexample; section 6 says what happens
in it.

* `TimelySpec` (Scheduler): a run is over and recorded within its lease; a row found abandoned is not
  taken by another host before it is cleared; `stop()` gives back nothing that still runs. Leases are
  600 s and more for jobs that usually take seconds or minutes.
* `PromptSpec` (Scheduler): statements take less than one unit of the clock, so that a claim is
  answered before the next tick of its runner. `AtMostMaxParallel` needs that, `DailyKeepsItsHour` does
  not; for it the restriction only keeps the run small.
* `mode` (Vocabulary): "alone" is one job at a time and the page only in between, "deciding" lets the
  page decide while a promotion runs, "all" lets the tagger overlap too. `feeds` has the first two;
  entries are unique in the first, a model's tags safe in both, and the rest needs no mode.
* `Blocks` (ModelWork), `Blocked` (Names): the two liveness properties are for behaviours in which no cached
  answer keeps a story back and no story's name fails its upsert. The models have both.
* `Thorough` (Names): a valid answer speaks of every story it was asked about. `StampedIsSighted` rests on it.
* `Ambiguous` (SourceLedger): `VerdictsStand` leaves these domains out; the instance has some.
* `Slice` above the number of `Undescribed` foremost subjects (Refresh, instance of `work`).
* `alone` (EdgeWorker): `LoneOnesAreServed` speaks of invocations that nothing ran beside, after whatever
  ran side by side before, and in `records` each source costs one request.
* One launcher at a time (Launcher): the module has no second one beside it.
* `thrown` (PollQueue): `ServedInTime` grants a longest interval for each poll that has thrown.
* `stops = 0`, `cuts = 0`, `falls = 0` in three parts of properties (`MergedIsMember`, `ReadOnce`, the second
  half of `NamesComeThrough`): what a death costs there is in section 6; the other parts hold with deaths.

`keep_any`, `sched_claims`, `PollRowsAgree`, `PastIsWhole`, `StartsAreSafe`, `LoneOnesAreServed`,
`OwnGapIsKept`, `OffsetsAreTaken` and `SettingsAreKept` need none of them.

**Bounds.** `MaxFails` stops the scheduler's failure counters; a back-off multiplier and the table of
powers are computed exactly up to it, and with one failure counted the cadence already doubles, which
is what `CadenceKept` tells apart. `MaxLate` bounds how overdue a row is told from another; only the
ORDER BY uses it. `MaxCrashes`, `MaxEvents`, `MaxAborts`, `Failures`, `MaxEnds`, `MaxDeaths`, `MaxFalls`,
`MaxLost`, `MaxStops`, `MaxCuts`, `MaxFaults`, `MaxLapses`, `MaxThrown` bound deaths and failures: one is enough for
every two-actor window here, since it can fall between any two statements and all that follows is
free; a launcher gets three, because its hard cases are a kill, a failing script and an outage after one
another. `MaxEdits`, `MaxTime` and `LastMoment` bound saves, days and the clock at the gate; `MaxPartial` bounds
the answers that are not about what was asked, of which one is enough to block; `Newcomers` bounds the
items that shift the pages. `Few` is the batch of the sources job: two of four domains, so that some wait.
`Width` 2 lets two workers of one poll sleep side by side. A ladder of 1, 2 and 3 failures stands for 3, 10 and 40. Two stories or items per month
suffice to have a deleted and a kept one in one month. A lease, a cadence and a tick of one unit let a run be
shorter, equal and longer than its lease. Pages of two of four items let a page end on a boundary and
be cut by a newcomer. With `Batch` 1 the deletion takes several statements, and each of them
interleaves. Three copies are what it takes for a winner to lose. Story ids are interchangeable in
`ident_retire` and `ident_race`, invocations in `records` and sources in `edge_budget` (symmetry; no liveness there). Two
invocations that overlap and a third that comes when they are over are the least that `PoolIsItsOwn`
speaks of; an allowance of 4 lets a cycle end for want of budget. `edge_budget` has the numbers of the
code: 50, 5, 4, 4.

**Deadlock** is checked in every Scheduler and StoryIdentity run. It is not in the others: there, when
all stories have come and gone, all faults have happened and all is done, the model has reached
its bounds.

**Fairness.** Everything is weak, except where something that may be refused again and again succeeds at
last.

* Scheduler: time passes; in a process that lives, its timers fire, its statements return (with an
  error if the database is down) and its jobs end. Nothing makes a process start, stop or crash, or
  an outage end: `EventuallyRuns` asks for one runner that stays up with a database that stays up.
* StoryIdentity: polls come again and go through to their end, because the `collect` job comes every 30
  seconds and its statements return or throw; so does retain. Retention: the nightly rollup comes
  again and a job, once begun, goes through its statements, unless it is cut short.
* Polling: a poll goes on, a source comes round; and a page that is asked again and again is looked at
  (strong: a deadline may always cut a poll off first, but not always). Backfill: a walk goes on, and somebody starts the script until it is complete.
* Vocabulary: what was begun goes on; the tagger comes round if it may start again and again (strong,
  since the page may be at work whenever it would).
* ModelWork, Names: the jobs run; cooldowns and windows end; and a model that is asked again and again
  answers at last (strong: `llmCall` may be refused any number of times in between). Triage and
  classification ask for that, the call to Claude does not: without it a story keeps its first score.
* Snapshots, Refresh, Settings: the jobs are run and their requests end; hours pass (strong, because a
  pass may be on its way whenever one would).

## 5. The proofs

All for any number of processes, jobs, stories, sources, terms, months, and any values of the constants
that the modules' ASSUMEs allow. `tlapm` checks every leaf.

| Theorem | States | Argument |
|---|---|---|
| `TypeCorrect` | `Spec => []TypeOK` (Scheduler) | one lemma per kind of action; delays are positive (`NextDelayPositive`) because `UntilHour` is never 0 |
| `ClaimedStaysDue` | `Spec => []ClaimedIsDue` | inductive with `TypeOK`: the claim requires due, time only makes a row more due, only `Release` moves `next_run_at` and it clears the claim in the same statement. No assumption on time: holds under take-overs and stale releases |
| `OneRunnerPerJob` | `TimelySpec => []Exclusive` | `Inv == TypeOK /\ Timely /\ Owner`. `Exclusive` is not inductive: that no one else runs a job says nothing about the row. `Owner` adds that each run in flight is the row's holder and that `age` equals the run's own `held`, so that a row that may be taken over has no run within its lease |
| `ClaimsAreExclusive` | `TimelySpec => TakesOnlyFreeJobs` | the refinement of `ExclusiveJobs`, from the same `Inv`: a claim maps to a take of a job that is in no hands (`ClaimableIsFree`), an end or a death to a give-back, everything else to a stutter |
| `ClaimsAreKept` | `TimelySpec => []ClaimKept` | `Owner` again |
| `CadenceHolds` | `Spec => CadenceKept` | `RestInv`: the time since a job's last end and the time until it is due add up to its cadence with the back-off of its failures at least; `InHandIsListed` gives the row that every release finds. The powers are a recursive function, whose values are bounded by cases |
| `HourIsKept` | `Spec => []DailyKeepsItsHour` | `HourInv`: time of day and distance add up to the hour, of today or tomorrow; every step of the clock moves both |
| `RoomIsKept` | `PromptSpec => []AtMostMaxParallel` | `RoomInv`: what runs and what was picked are together within the places; `NoneHangs` says that between ticks no claim is under way, which is what `Prompt` gives. For a finite set of jobs |
| `IdentityTypes` | `Spec => []TypeOK` (StoryIdentity) | from stronger types of what a poll has read |
| `AddressesStayTaken` | `Spec => KeepsItsAddress` | from the types: every statement that writes a key asks whether a story is behind it, or registers only what is free, and what retain() takes is doomed or without a story. Under every interleaving, races and sweeps included |
| `CreditsAreDeserved` | `Spec => []CreditsAreTrue` | `CreditsInv`: an id is handed out once (`IdsInv`), and as long as no story is under it, it is known by one address only (`FreshInv`); a key leads to a story it is a key of (`LeadsInv`), so that what a lookup finds is what the item names. `CreditsAreTrue` is not inductive: it says nothing of a key that a later lookup follows |
| `NoFavouriteIsTaken` | `Spec => FavouritesAreSpared` (Retention) | `IInv` adds that a star that counts is on a held story; then every delete's predicate, read anew by each statement, excludes it. Under every interleaving and any crashes |
| `RetentionTypes` | `Spec => []TypeOK` (Retention) | with `archived` within `rolled` and a non-empty `safe` |
| `RowsSayWhatWasSeen` | `PollSpec => []PollRowsAgree` | `PollInv`: beside the two facts, `Fits` says per step of a poll what it has in hand, and `EditionsAreCounted` that no edition is read before it is published |
| `PollTypes`, `PausesHold` | `PollSpec => []PollTypeOK`, `PersonsPauseHolds` | the same invariant; a dead source is not listed, so that failures stay within the ladder. A pause by a person is only lifted by a poll that had read the row before it |
| `LedgerIsRight` | `LedgerSpec => LedgerKeepsItsWord` | `LedgerInv`: the rows a channel has still to judge are without a verdict or ambiguous, none is the subject of a promotion under way, and what is to be settled is already a source |
| `VocabularyIsSound` | `VocabSpec => []VocabIsSound` | `VocabInv`: what an actor is about to mark has its entry (`ActorsInv`); alone, it knows every entry among its candidates (`AloneInv`); unless all overlap, the tags in the tagger's hand are those of the rows (`TaggerInv`) |
| `ClaudeIsNamedRightly` | `WorkSpec => []ClaudeMeansClaude` | `ScoreInv` follows the reply through the second call: nothing counts as rescored before there is an answer, and then what an answer of Claude speaks of |
| `LedgerIsEarned` | `NamesSpec => []NamesAreEarned` | `NamesInv`: the numbers of a row never exceed its sightings (`CountInv`, over finite sets), what a batch names is sighted or in hand (`ReadInv`), and a name in hand is dated by its story or before (`FirstInv`) |
| `NobodyStarves` | `QueueSpec => []ServedInTime` | `QueueInv`: when a source is more than *m* - 1 of the longest intervals late, *m* sources are less than *m* moments late (`OthersAreServed`). A cycle that passes it over serves one that was at least *m* - 1 moments late (`ServedIsLate`, with each lateness measured in the source's own interval), so that one more begins anew, or a poll of it throws, which is counted. The set of those cannot outgrow the sources |
| `EachKeepsItsInterval` | `PoliteSpec => []OwnGapIsKept` | `GateInv`: a worker that sleeps wakes at its interval after a request that is not before its own last one |
| `LonePoolIsItsOwn` | `EdgeSpec => []PoolIsItsOwn` | `PoolInv`: while no invocation is between its opening and its forgetting there is no pool in the module (`NoneIsLeftBehind`), so that one that finds nobody running opens its own; and while it runs alone nobody else can end it (`LoneOnes`) |
| `OverrunIsBounded` | `EdgeSpec =>` a lone invocation spends at most `Allowance - Reserve - PerSource - 1 + Slip`, where a source costs at most `most` and `Slip` is `most` for each poll side by side and for each adapter | `BudgetInv`: what is used and what the polls under way still owe stay below a ceiling (`Balance`), counted as sets of requests; a poll is begun only with `PerSource` left, and at most `Concurrency` are under way |
| `PastIsKept` | `WalkSpec => []PastIsWhole` | `WalkInv`: a run has what lies before its cursor, and, once it holds a page, what lies before the next (`RunsLeaveNothing`). `PagesJoin` says that a page and the cursor after it leave nothing between them, in both pagings; newcomers only push items to where they are read again |
| `MergesStaySound` | `DedupSpec => []MergesAreSound` | `MergeInv`: every merge goes to a better story (`Upwards`), what a pass has in hand are two stories of which the winner is the better one (`MergesFit`), and a count is that of the members or about to be (`CountsAreTrue`). `TrailsEndLive` then finds the shown story at the end of a trail: the best of the trail, since a merge away from it would lead to a better one. Two passes in any order, any pairs, any deaths |
| `DaysFitTogether` | `ReportsSpec => []DaysAreWhole` under `CatchesUp` | `DaysInv`: a window begins where the last stored one ends, or at the limit of the catch-up (`RunFits`); what has come of a field is what its window holds, or nothing was read of it (`Decided`); and a briefing lies within the windows of the days (`BriefingsFit`). `CatchesUp`, `2 * DayLength - 1 <= MaxCatchup`, says that a missed day is within reach, and `records` has it with equality; the code has seven days. Only `WindowsMeet` needs it |
| `EveryStartIsSafe` | `LaunchSpec => StartsAreSafe`, one launcher at a time | `LaunchInv`: the process remembers the database of the file, and nothing else was ever served (`UrlInv`); the schema is there behind the migration (`SchemaInv`); the worker's password is written last, so that it vouches for both (`RolesInv`) |
| `MarkedIsCaptured` | `SnapSpec => []CapturedIsTaken` | `SnapInv`: what a run is about to mark was copied, under the offset it was due for |
| `HistoryHolds` | `SettingsSpec => []HistoryExplains` | `SettingsInv`: what a page is about to store differs from the environment and is a value of the definition, so that each statement keeps row and history alike |
| `DedupTypes`, `ReportsTypes`, `LaunchTypes` | the type invariants of these modules | the invariants above |
| `FeedTypes`, `WorkTypesHold`, `RecordTypes` | `Spec => []FeedsTypeOK`, `[]WorkTypesOK`, `[]RecordsTypeOK` of the compositions | `EachByItself`: a behaviour of the composition is one of each of its parts, for no part touches the variables of another; so what is proved of each module by itself holds of the behaviours that the run enumerates |

`OverrunIsBounded` turns the divergence of `edge_budget` into a number: with the numbers of the code and
without adapters it stays within the allowance while a source costs two requests at the most.

**Assumptions on constants.** Each module names them (`...Assumption`) and TLC evaluates them in every
run. One line of `QueueAssumption`, that `2^n` is a number, is no fact about the model: the provers have
no theory of powers. `SettingsAssumption` says that only numbers have a least value (`def.min`), without
which a text could be stored below it. The one hypothesis of a theorem, `CatchesUp`, holds in the run.

**Only model-checked.** Every invariant and every action property that a passing run checks is proved, but
for `LoneOnesAreServed`; what remains is liveness, which is out of the prover's reach: `EventuallyRuns`, `ItemsAreCredited`,
`KeptAreCounted`, `SourcesAreSettled`, `PastIsReached`, `VocabIsApplied`, `EachIsScored`, `NamesAreTracked`,
`OffsetsAreTaken`, `AllComeRound`, `SettingsAreKept`. What is safety behind two of these is proved:
`MarkedIsCaptured` (`OffsetsAreTaken`) and `HistoryHolds` (`SettingsAreKept`). Of `LoneOnesAreServed` the part
about the pool is proved (`LonePoolIsItsOwn`), and of the allowance the bound of `OverrunIsBounded`.

## 6. Divergences between the code and its documentation

### Kept as runs

* **Two polls of one address write two stories** (`ident_race`). A claim is a row of `story_keys` under whose
  id no story is yet, and until the insert it looks like one whose story was deleted: the second
  `claimUrls` takes it over, and both polls insert. `stories.ts:430`: "two polls on one URL still produce
  one story and one member".
* **One page behind two links loses the batch** (`ident_twins`). `claimUrls` sends one row per item;
  when two items of a batch resolve to one address, `ON CONFLICT DO UPDATE` would touch a row twice,
  PostgreSQL refuses the statement, and `ingestItems` throws: nothing of the batch is stored, now or at
  any later poll that offers both. `ingest.ts:616` expects "the first one won".
* **The second start does not start the cluster** (`launch_again`). The first start remembers the address
  of its own cluster in the configuration (`launch.ts:112`); `chooseDatabase` (`plan.ts:94-97`) takes any
  remembered address for a server of the user's, so that the next start waits for it to answer
  instead of starting it. `launch.ts:23`: "the second run is the first run minus the waiting".
* **A tick makes more requests than it may** (`edge_budget`). `canAfford(4)` is asked before each source, but
  a source without a stored feed costs its home page, what that page advertises and ten probes
  (`pipeline.ts:515-535`), and four polls pass the check before any of them has counted what it will
  use. With 50 granted and 45 counted, four discoveries and a fifth begun beside the last of them come to
  51 and more; the platform then ends the invocation. `cycle.ts:51` calls its 4 the "worst-case outbound
  cost of one source".

### What the models showed beside the runs

Found with the same modules, by a property or a constant that no run of the table uses. They are the
reason for the restrictions of section 4. A property named here is defined in the module.

Scheduler

* *Stale release.* `release()` updates `WHERE name = $1` only: a run that outlived its lease clears
  the claim of the runner that took the job over (`ClaimKept` without `Timely`).
* *Reclaim by name.* Between the SELECT and the UPDATE of `reclaimFromDeadRunners` another host can
  take an expired row, and loses it (`scheduler.ts:198`: "Claims from any other host are left alone").
* *stop() does not wait for all.* `Promise.all` rejects on the first failing claim and leaves the other
  runs behind, also behind `this.idle`, which `stop()` awaits.
* *A tick awaits its jobs*, so a job falling due waits for the longest of them although there is room
  (`main.ts:128-130` says fifteen seconds at most).
* *Unknown rows starve known ones.* The SELECT is LIMITed before rows of other catalogues are skipped;
  as many such rows as places and the runner starts nothing (`EventuallyRuns` with `Legacy` rows).
* *A claim that hangs is not counted.* `this.running` gains a job when its claim returns; if another
  claim of the tick fails first, the next tick has no knowledge of the one that hangs, and
  `maxParallel` is exceeded (`AtMostMaxParallel` without `Prompt`).
* *Same hour.* rollup and retain both have `atHour: 3`; the order that `jobs.ts:30-31` documents is
  not in the schedule.

Collection

* *After the race* of `ident_race`: if the poll that lost the story but took the key then dies, and its feed
  has two links to that page, it is refused at every later poll: the race and `ident_twins` together
  bar its items for good.
* *The sweep takes a claim.* One poll and one retain() suffice: the poll claims, the sweep of keys without a
  story (`retain.ts:267-269`, of any age) deletes the claim, the poll inserts. `registerKeys` writes the key
  anew; if the poll dies before it, the story is there for good without its key, and its address is free for
  another story. `stories.ts:94`: "THE STORY CANNOT EXIST WITHOUT OWNING ITS ADDRESS".
* *KEEP_FOREVER strips keys.* The child deletes run although no story is deleted, and the addresses
  of stories that stay become unknown.
* *Content keys without a story* refuse an item while retain() is between delete and sweep, since
  `findManyByContent` does not join `stories`.

Retention

* *A pruned month is rolled again.* `rollupAll` reads its list once (`rollup.ts:319`); retain, which the
  same tick starts (both are at hour 3, `jobs.ts:272` and `jobs.ts:287`), prunes a month of it; `rollMonth`
  then replaces its analysis by what is left. `rollup.ts:120`: "A PRUNED MONTH IS NEVER RE-ROLLED".
* *The lapsed sweep deletes no story.* Its predicate asks for a favourites row, and
  the statement before the delete removes exactly those rows (`retain.ts:244-246`). The month is stamped
  pruned all the same. `retain.ts:13-15` promises "deleted a day later".
* *retain() that dies before `pruned_at`*, with a favourite left in the month, lets the next rollup
  replace the analysis (`AnalysisOutlivesStories` with a crash).
* *A late story* that lands after its month was counted, pruned or not, is deleted by the next retain and in
  no analysis (`AnalysisOutlivesStories` with `Late`): whether a month is safe is whether it is in
  `rollup_log` (`retain.ts:202`). `rollup.ts:9`: "analysis before deletion, always".
* *A star put back* between the statement that strips a lapsed story's keys and the one that deletes it
  keeps a story without keys.
* *A dirty mark set during a rollup* is cleared by its last statement although the story came too late
  to be counted; the next night counts it (`KeptAreCounted` holds).
* *Partitions.* `lib/retention.ts:136-141` says that a month in the past needs its partition; the tables are
  partitioned by `collected_at`, `seen_at` and `captured_at`, which default to `now()`.

Sources

* *The pause of a duplicate does not last* (`DuplicateStaysPaused`). `setFeedUrl` pauses the source,
  `resolveFeedUrl` returns null, and `recordFailure` writes the ladder over the pause; `sources.ts:158`
  says "it is paused with that reason". After as many polls as the ladder has, it is dead instead.
* *Requests to a domain come closer than its interval* (`DomainGapIsKept`). The gate reads, sleeps, then
  writes (`fetcher.ts:145`); two polls, and two workers of one poll (`ingest.ts:415-427`), may read the same
  last request, and the probes for a feed go past it, against `fetcher.ts:128-131` and `pool.ts:6-8`.
* *A poll that throws is first again* (`ServedInTime`, with as many throws as there are cycles). `cycle.ts:100`
  catches it and leaves `next_fetch_at`, so that the source is still the latest: as many of them as a cycle
  has places, and no other source is polled. `cycle.ts:129`: "every source is served in bounded time".
* *A settled domain is offered again*, against `maintain/sources.ts:310`. Entries are looked up by the
  registrable tail and settled under the host: one under a subdomain is tried again each week, two of one
  host write their verdicts over one another (`VerdictsStand`, but for `Ambiguous`), a home page that is no
  address is passed over without a verdict (`sources.ts:308`), and a candidate whose feed is held under
  another site makes the insert, and the job, throw each week. With as many of these as a batch has
  places, no domain behind them is tried.
* *Pruning writes over a person's note*, so that a release feed a person paused comes back.
* *Items of one second* at the boundary of a Hacker News page may be skipped when they fill more than a
  page; the instance has one item a second.

Stories and models

* *A merge that dies after `supersede`* leaves the loser behind the winner without its outlet in the
  coverage; the members that the loser had do not move; equal `collected_at` is decided by the order of the
  rows (`dedup.ts:247`), which `Dedup` takes for the same in both passes; retain may delete a winner. *Two passes at once* make one story a member of two (`CountedOnce`).
* *A snapshot is measured twice* after a death between copy and mark (`TakenOnce`), and *a late one goes
  under the earlier label* (`TakenInTime`, against `snapshot.ts:7`).
* *The cooldown is cleared by a success that was asked for before it* (`CooldownStands`, with a shared
  provider, against `budgets.ts:28`).
* *An answer that blocks* (`Blocks`; `EveryStoryIsScored` without its condition, against `router.ts:105`,
  "Nothing blocks"). An empty answer is cached, and the batch is unclassified or unscored at every later
  run. An index beyond the batch that triage rates high makes `batch[idx]!` throw (`score.ts:153`) after the
  answer was cached (`router.ts:84-91`): each later run throws at that batch, and none behind it is scored. A
  cache INSERT that fails after a good answer counts as a failure of the provider.
* *A name without a field stops the scan* (`Blocked`; `NamesComeThrough` without it). Where a name's row has
  no field and the story that mentions it again has none, `array_agg` over nothing is NULL
  (`emerging.ts:188-189`) and the column is NOT NULL: the pass dies at the same batch each time, unstamped,
  and the gate is not reached.
* *A partial answer is stamped as read* (`StampedIsSighted` without `Thorough`), and *a pass that dies between
  a sighting and the count* leaves the numbers behind for ever, because a known sighting is not recounted
  (`CountsAreTrue`, `emerging.ts:245`).

Vocabulary, reports, reference

* *Overlapping promotions make two entries* (`OneEntryPerTerm` in mode "deciding"), *a reset is lost under
  the tagger* (`EntriesAreTagged`), and *a judgement is overwritten* (`JudgementStands`), each in mode "all";
  `tagstacks.ts:195` says it "must not be overwritten". A death between entry and decision lets the next
  pass reject the candidate as already there; one before the reset leaves its stories untagged.
* *A field whose briefing failed or threw is not read again*: `briefing.ts:451-453` takes a failing query for
  a field that was not written, of which nothing was read, and the day's row moves the window past its
  stories (`NoneIsSkipped`, against `jobs.ts:252-253` and `briefing.ts:93-94`). A death between the day's row and the release repeats the
  day with an empty window, which replaces the row; one between two fields lets the first be read
  twice the next day. A story that is collected late is never read.
* *As many subjects without a description as a slice has places* keep all others waiting, because they are
  always due and come first (`reference.ts:265-268`).

Settings, launcher, worker

* *A cleared setting stays active* until a restart (`ClearedShowsEnvironment`): the overlay is laid over a
  configuration that has the last one in it (`db/repos/settings.ts:37`). *An empty number field is 0*
  where 0 is allowed (`BlankIsNoValue`). A form posts all fields of its group, so that of two pages the
  second takes back what the first changed.
* *A second start at which the second role script fails* gives the app a password that the first
  script has rotated (`NoneIsStale`, `launch.ts:268`). `fail()` returns on a terminal, and the start goes on.
* *A pool that nobody closes* (`EveryPoolIsClosed` with three invocations). The first to end closes the pool
  of the module under the others; while its `end()` is under way a second one, refused at once, forgets the
  pool; a third opens its own, and the first then forgets that one (`client.ts:90-91`). `client.ts:62`: "The
  caller must close it". Side by side they also share one budget, which each opening resets and each end
  removes.

## 7. What is not modelled

`PROJECT.json` has a reason per component. The models map the state and control of the pipeline, which
is the smaller part of the code by lines; the larger one is of three kinds that say nothing to a
model checker:

* *Rendering*: the web pages (`ui/*`, a style sheet, a client script, queries shown as HTML) read and
  keep nothing; what they write is in `Settings`, `Retention` (stars) and `Vocabulary` (decisions).
* *Text*: parsing, extraction, language detection, the lexical gates, the prompts and their schemas are
  functions over text whose outcome is a choice in the models; the closed vocabularies are tables.
* *Figures*: trends, diversification of a briefing, strategy and evaluation of sources are computed from
  what was read and written in one statement.

Without state of their own beyond one statement: sessions (signed cookies, no table), dismissals and
read marks; and the site worker, an adapter of the web interface. Without a caller: `lease()` and
`complete()` of the job queue. The database driver is represented by what every
statement can do, succeed or fail.

Inside the modelled components: `Scheduler` has one task per job and process, so that a second claim
sent for a job whose first claim still hangs is left out (the row admits one of them); it leaves out
logging and the `job_runs` columns that only the status page shows, and `enabled`, which no code
clears. `StoryIdentity` leaves out the rows written beside the keys, and duplicate members; an item that is
refused for another reason than its length is not in `Offered`. `Retention`
treats the calendar as a counter of months. `Polling` leaves out sources that are read by an adapter
(`pipeline.ts:218-316`): they have neither feed to discover nor validator. `Dedup` and `Snapshots`
have no retain beside them. `Reports` leaves out what is chosen within a field. `Launcher` takes a seed
and a migration as one statement each.

## 8. The plan

Done: `Scheduler` with `ExclusiveJobs`, `StoryIdentity`, `Retention` and their proofs; then sources
(`Polling`, `PollQueue`, `Politeness`, `SourceLedger`, `Backfill`), stories (`Dedup`, `Snapshots`,
`ModelWork`, `Names`, `Vocabulary`, `Reports`, `Refresh`), `Settings`, `EdgeWorker` and `Launcher`, with
the proofs of section 5.

Left, in this order:

1. A composition of `Retention` with `StoryIdentity` over one `retain()`, and of `Dedup` with `Retention`,
   where a deleted winner leaves its losers hidden.
2. Sources with an adapter in `Polling`, and the monthly evaluation.
3. Pure algorithms against a reference definition: the retention window over calendar months,
   `resolveItemUrls`, the round trip of the reader's filters.

Abstract specifications worth stating: an archive in which a story is counted, then gone (for
`Retention`); a set of addresses with one owner each (for `StoryIdentity`).
