------------------------------ MODULE Backfill -------------------------------
(***************************************************************************)
(* The walk of src/collect/backfill.ts into the past of one archive: page  *)
(* after page towards older items, a cursor in backfill_state after each   *)
(* page, and a run that resumes from it.  Nothing keeps two runs apart.    *)
(*                                                                         *)
(* Items are numbered from the newest on.  An archive is paged by offset   *)
(* (arXiv and, by page number, GitHub), where every newcomer moves the     *)
(* rest back by one, or by time (Hacker News), where a page is what is     *)
(* strictly older than the cursor.                                         *)
(***************************************************************************)
EXTENDS Integers, FiniteSets, FiniteSetsExt

CONSTANTS
  Walker,         \* runs of the script, started by a person
  Depth,          \* the archive holds the items 1 .. Depth when it is first walked
  Stamp,          \* Stamp[i]: the second in which i was published
  PageSize,       \* 100
  Until,          \* how far back history is asked for
  Newcomers,      \* bound: items published during the walk
  Failures        \* bound: requests and statements that fail, runs that die

Past == 1 .. Depth

ASSUME WalkAssumption ==
  /\ Depth \in Nat /\ PageSize \in Nat \ {0} /\ Until \in Nat
  /\ Stamp \in [Past -> Nat] /\ Newcomers \in Nat /\ Failures \in Nat
  /\ \A i, j \in Past : i < j => Stamp[i] > Stamp[j]

VARIABLES
  paging,         \* how this archive is paged: "time" or "offset"
  cursor,         \* backfill_state.cursor; Begin for NULL
  status,         \* backfill_state.status
  stored,         \* the items of the past that ingest was given
  newer,          \* newcomers so far
  walking,        \* the statement a run sends next
  at,             \* its cursor
  page,           \* the page it holds
  mishaps

walkVars == <<paging, cursor, status, stored, newer, walking, at, page, mishaps>>

\* Where a walk begins: at offset 0, or now.
Begin == IF paging = "time" THEN Max({Stamp[i] : i \in Past} \cup {0}) + 1 ELSE 0

\* The items of the page at c.
OlderThan(c) == {i \in Past : Stamp[i] < c}
PageAt(c) ==
  IF paging = "time" THEN {i \in OlderThan(c) : Cardinality({j \in OlderThan(c) : j < i}) < PageSize}
  ELSE {i \in Past : c < newer + i /\ newer + i <= c + PageSize}

\* Its cursor for the next page, Begin when there is none.
NextOf(c) ==
  IF paging = "time" THEN IF PageAt(c) = {} THEN Begin ELSE Min({Stamp[i] : i \in PageAt(c)})
  ELSE IF c + PageSize <= newer + Depth THEN c + PageSize ELSE Begin

\* The items that `until` lets through.
Wanted == {i \in Past : Stamp[i] >= Until}

WalkInit ==
  /\ paging \in {"offset", "time"}
  /\ cursor = Begin /\ status = "pending" /\ stored = {} /\ newer = 0
  /\ walking = [w \in Walker |-> "idle"]
  /\ at = [w \in Walker |-> Begin]
  /\ page = [w \in Walker |-> [items |-> {}, next |-> Begin]]
  /\ mishaps = 0

Goes(w, to) == walking' = [walking EXCEPT ![w] = to]

\* loadState: a complete walk is not walked again.
Load(w) ==
  /\ walking[w] = "idle" /\ status # "complete"
  /\ at' = [at EXCEPT ![w] = cursor]
  /\ Goes(w, "starting")
  /\ UNCHANGED <<paging, cursor, status, stored, newer, page, mishaps>>

Start(w) ==
  /\ walking[w] = "starting"
  /\ status' = "running"
  /\ Goes(w, "fetching")
  /\ UNCHANGED <<paging, cursor, stored, newer, at, page, mishaps>>

FetchPage(w) ==
  /\ walking[w] = "fetching"
  /\ page' = [page EXCEPT ![w] = [items |-> PageAt(at[w]), next |-> NextOf(at[w])]]
  /\ Goes(w, "ingesting")
  /\ UNCHANGED <<paging, cursor, status, stored, newer, at, mishaps>>

\* A mutant: the cursor is saved with the page still to be ingested.
SaveEarly(w) ==
  /\ walking[w] = "ingesting"
  /\ cursor' = page[w].next
  /\ Goes(w, "saving")
  /\ UNCHANGED <<paging, status, stored, newer, at, page, mishaps>>

IngestPage(w) ==
  /\ walking[w] = "ingesting"
  /\ stored' = stored \cup (page[w].items \cap Wanted)
  /\ Goes(w, "saving")
  /\ UNCHANGED <<paging, cursor, status, newer, at, page, mishaps>>

\* saveProgress.
SaveProgress(w) ==
  /\ walking[w] = "saving"
  /\ cursor' = page[w].next /\ at' = [at EXCEPT ![w] = page[w].next]
  /\ Goes(w, "deciding")
  /\ UNCHANGED <<paging, status, stored, newer, page, mishaps>>

Reached(w) == \E i \in page[w].items : Stamp[i] <= Until

\* A mutant: a run that stops forgets where.
StopAndForget(w) ==
  /\ walking[w] = "deciding" /\ page[w].next # Begin /\ ~Reached(w)
  /\ status' = "pending" /\ cursor' = Begin
  /\ Goes(w, "idle")
  /\ UNCHANGED <<paging, stored, newer, at, page, mishaps>>

\* maxPages, or the deadline.
Stop(w) ==
  /\ walking[w] = "deciding" /\ page[w].next # Begin /\ ~Reached(w)
  /\ status' = "pending"
  /\ Goes(w, "idle")
  /\ UNCHANGED <<paging, cursor, stored, newer, at, page, mishaps>>

Onwards(w) ==
  /\ walking[w] = "deciding" /\ page[w].next # Begin /\ ~Reached(w)
  /\ Goes(w, "fetching")
  /\ UNCHANGED <<paging, cursor, status, stored, newer, at, page, mishaps>>

EndWalk(w) ==
  /\ walking[w] = "deciding" /\ (page[w].next = Begin \/ Reached(w))
  /\ status' = IF page[w].next = Begin THEN "exhausted" ELSE "complete"
  /\ Goes(w, "idle")
  /\ UNCHANGED <<paging, cursor, stored, newer, at, page, mishaps>>

\* The catch: the cursor survives.  The UPDATE may be lost, or the process die.
WalkFails(w) ==
  /\ walking[w] # "idle" /\ mishaps < Failures
  /\ mishaps' = mishaps + 1
  /\ status' \in {status, "failed"}
  /\ Goes(w, "idle")
  /\ UNCHANGED <<paging, cursor, stored, newer, at, page>>

Arrive ==
  /\ newer < Newcomers /\ newer' = newer + 1
  /\ UNCHANGED <<paging, cursor, status, stored, walking, at, page, mishaps>>

Walk(w) ==
  \/ Load(w) \/ Start(w) \/ FetchPage(w) \/ IngestPage(w) \/ SaveProgress(w)
  \/ Stop(w) \/ Onwards(w) \/ EndWalk(w)

WalkNext == Arrive \/ \E w \in Walker : Walk(w) \/ WalkFails(w)

WalkSpec == WalkInit /\ [][WalkNext]_walkVars

\* Somebody starts the script again until the walk is complete.
WalkFairSpec == WalkSpec /\ \A w \in Walker : WF_walkVars(Walk(w))

------------------------------------------------------------------------------
(* Properties.                                                             *)

WalkTypeOK ==
  /\ paging \in {"offset", "time"}
  /\ cursor \in Nat /\ status \in {"pending", "running", "failed", "exhausted", "complete"}
  /\ stored \subseteq Past /\ newer \in 0 .. Newcomers
  /\ walking \in [Walker -> {"idle", "starting", "fetching", "ingesting", "saving", "deciding"}]
  /\ at \in [Walker -> Nat]
  /\ page \in [Walker -> [items : SUBSET Past, next : Nat]]
  /\ mishaps \in 0 .. Failures

\* The items that a walk at c leaves behind it for ever.
Behind(c) == IF paging = "time" THEN {i \in Past : Stamp[i] >= c} ELSE {i \in Past : newer + i <= c}

\* backfill.ts:13, "RESUMABLE": whoever goes on from the saved cursor has what is
\* before it, whatever died, whoever else walks and however the pages have moved.
NothingIsLeftBehind == Behind(cursor) \cap Wanted \subseteq stored

\* A walk that is called complete or exhausted has the history that was asked for.
CompleteIsWhole == status \in {"complete", "exhausted"} => Wanted \subseteq stored

\* Neither the cursor nor the status of a walk claims a story that is not stored.
PastIsWhole == NothingIsLeftBehind /\ CompleteIsWhole

\* Runs that stop, fail and die get there in the end, a page or more at a time.
HistoryIsReached == <>(Wanted \subseteq stored)

=============================================================================
