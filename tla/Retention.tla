------------------------------ MODULE Retention ------------------------------
(***************************************************************************)
(* The life of a story after it is collected: src/maintain/rollup.ts       *)
(* reduces a settled month to an analysis, src/maintain/retain.ts deletes  *)
(* the stories of the months that are not kept, src/ui/favourites.ts       *)
(* exempts some of them, and a late poll of src/collect/ingest.ts adds to  *)
(* a month that was settled already.                                       *)
(*                                                                         *)
(* Rollup and retain are jobs of the scheduler, each a sequence of         *)
(* statements without a transaction; each statement is one step.           *)
(***************************************************************************)
EXTENDS Integers, FiniteSets, FiniteSetsExt

CONSTANTS
  Story,        \* stories that are ever collected
  Account,      \* readers with a favourites list
  MonthOf,      \* MonthOf[s]: the month of published_at
  Late,         \* stories whose age the gates of ingest do not see: from a
                \* backfill, or dated by their page only
  Backfilled,   \* those among them that a backfill collects
  LastMonth,    \* bound: months are 1 .. LastMonth
  KeepForever,  \* RETENTION_KEEP_MONTHS = 0
  Modes,        \* which of the jobs "retain" and "lapsed" run
  Batch,        \* stories deleted by one statement, 5000 in the code
  MaxCrashes    \* bound: jobs cut short

Month == 1 .. LastMonth

ASSUME StoryAssumption ==
  /\ MonthOf \in [Story -> Month] /\ Backfilled \subseteq Late /\ Late \subseteq Story
ASSUME BoundAssumption ==
  /\ LastMonth \in Nat \ {0} /\ Batch \in Nat \ {0} /\ MaxCrashes \in Nat
  /\ KeepForever \in BOOLEAN /\ Modes \subseteq {"retain", "lapsed"}

VARIABLES
  life,         \* "unseen", "landing" in a poll, "marking", "held", "gone"
  archived,     \* archived[s]: the months its poll has read from rollup_log
  whole,        \* stories with their keys and snapshot schedule
  fav,          \* fav[a][s]: "none", "kept", "released" or, past its grace, "lapsed"
  window,       \* the first month that is still open
  \* The tables of the rollup.
  counted,      \* month_totals: months that have a row
  analysis,     \* the stories that the month's other tables count
  rolled,       \* months in rollup_log
  pruned,       \* those with a pruned_at
  dirty,        \* those with a dirty_at
  \* The rollup job.
  roll,         \* the statement it sends next
  months,       \* the months it has still to reduce
  \* A retain() call.
  keeper,       \* the statement it sends next
  mode,         \* which job called it
  cutoff,       \* the window as it was when it began
  safe,         \* the months it may prune
  crashes

archive == <<life, archived, whole>>
tables  == <<counted, analysis, rolled, pruned, dirty>>
rollup  == <<roll, months>>
call    == <<mode, cutoff>>
keep    == <<keeper, safe, call>>
vars    == <<archive, fav, window, tables, rollup, keep, crashes>>

Held == {s \in Story : life[s] \in {"marking", "held"}}
HeldIn(m) == {s \in Held : MonthOf[s] = m}

\* The exemption, one SQL fragment that every delete uses.
KeptOnly(s) == \E a \in Account : fav[a][s] = "kept"                 \* a mutant
Protected(s) == \E a \in Account : fav[a][s] \in {"kept", "released"}

\* doomedWhere.
Doomed(job, first) ==
  {s \in Held : /\ MonthOf[s] < first /\ ~Protected(s)
                /\ job = "lapsed" => \E a \in Account : fav[a][s] # "none"}

\* pendingMonths: settled months that hold stories and were never pruned.
NeverRolled ==                                                       \* a mutant
  {m \in Month : m < window /\ HeldIn(m) # {} /\ m \notin rolled}
PendingMonths == {m \in Month : m < window /\ HeldIn(m) # {} /\ m \notin pruned}

------------------------------------------------------------------------------
Init ==
  /\ life = [s \in Story |-> "unseen"]
  /\ archived = [s \in Story |-> {}]
  /\ whole = {}
  /\ fav = [a \in Account |-> [s \in Story |-> "none"]]
  /\ window = 1
  /\ counted = {} /\ analysis = [m \in Month |-> {}]
  /\ rolled = {} /\ pruned = {} /\ dirty = {}
  /\ roll = "idle" /\ months = {}
  /\ keeper = "idle" /\ mode = "retain" /\ cutoff = 1 /\ safe = {}
  /\ crashes = 0

(* Collecting.                                                             *)

\* A poll lets the item through: its month is open, or nothing is ever too old, or
\* the feed does not say how old it is.  A backfill reads no rollup_log.
Gate(s) ==
  /\ life[s] = "unseen"
  /\ s \in Late \/ KeepForever \/ MonthOf[s] >= window
  /\ life' = [life EXCEPT ![s] = "landing"]
  /\ archived' = [archived EXCEPT ![s] = IF s \in Backfilled THEN {} ELSE rolled]
  /\ UNCHANGED <<whole, fav, window, tables, rollup, keep, crashes>>

\* insertStories; the keys follow.
Land(s) ==
  /\ life[s] = "landing"
  /\ life' = [life EXCEPT ![s] = "marking"]
  /\ whole' = whole \cup {s}
  /\ UNCHANGED <<archived, fav, window, tables, rollup, keep, crashes>>

\* UPDATE rollup_log SET dirty_at, for the months the poll knows to be rolled.
Mark(s) ==
  /\ life[s] = "marking"
  /\ life' = [life EXCEPT ![s] = "held"]
  /\ dirty' = dirty \cup ({MonthOf[s]} \cap archived[s])
  /\ UNCHANGED <<archived, whole, fav, window, counted, analysis, rolled, pruned, rollup, keep,
                 crashes>>

------------------------------------------------------------------------------
(* Favourites: setFavourite, and the clock.                                *)

Save(a, s) ==
  /\ s \in Held /\ fav[a][s] # "kept"
  /\ fav' = [fav EXCEPT ![a][s] = "kept"]
  /\ UNCHANGED <<archive, window, tables, rollup, keep, crashes>>

Release(a, s) ==
  /\ fav[a][s] = "kept"
  /\ fav' = [fav EXCEPT ![a][s] = "released"]
  /\ UNCHANGED <<archive, window, tables, rollup, keep, crashes>>

\* The grace window of a released favourite has passed.
Lapse(a, s) ==
  /\ fav[a][s] = "released"
  /\ fav' = [fav EXCEPT ![a][s] = "lapsed"]
  /\ UNCHANGED <<archive, window, tables, rollup, keep, crashes>>

\* A month leaves the window.
CloseMonth ==
  /\ window <= LastMonth
  /\ window' = window + 1
  /\ UNCHANGED <<archive, fav, tables, rollup, keep, crashes>>

------------------------------------------------------------------------------
(* rollupAll: pendingMonths once, then rollMonth on each, oldest first.    *)

StartRollup ==
  /\ roll = "idle" /\ PendingMonths # {}
  /\ months' = PendingMonths
  /\ roll' = "dropping totals"
  /\ UNCHANGED <<archive, fav, window, tables, keep, crashes>>

DropTotals ==
  /\ roll = "dropping totals"
  /\ counted' = counted \ {Min(months)}
  /\ roll' = "counting"
  /\ UNCHANGED <<archive, fav, window, analysis, rolled, pruned, dirty, months, keep, crashes>>

CountTotals ==
  /\ roll = "counting"
  /\ counted' = counted \cup {Min(months)}
  /\ roll' = "dropping"
  /\ UNCHANGED <<archive, fav, window, analysis, rolled, pruned, dirty, months, keep, crashes>>

\* DELETE FROM stack_month; the tables after it go the same way.
DropAnalysis ==
  /\ roll = "dropping"
  /\ analysis' = [analysis EXCEPT ![Min(months)] = {}]
  /\ roll' = "filling"
  /\ UNCHANGED <<archive, fav, window, counted, rolled, pruned, dirty, months, keep, crashes>>

FillAnalysis ==
  /\ roll = "filling"
  /\ analysis' = [analysis EXCEPT ![Min(months)] = HeldIn(Min(months))]
  /\ roll' = "logging"
  /\ UNCHANGED <<archive, fav, window, counted, rolled, pruned, dirty, months, keep, crashes>>

LogRollup ==
  /\ roll = "logging"
  /\ rolled' = rolled \cup {Min(months)}
  /\ dirty' = dirty \ {Min(months)}
  /\ months' = months \ {Min(months)}
  /\ roll' = IF months' = {} THEN "idle" ELSE "dropping totals"
  /\ UNCHANGED <<archive, fav, window, counted, analysis, pruned, keep, crashes>>

RollupFails ==
  /\ roll # "idle" /\ crashes < MaxCrashes
  /\ crashes' = crashes + 1
  /\ roll' = "idle" /\ months' = {}
  /\ UNCHANGED <<archive, fav, window, tables, keep>>

------------------------------------------------------------------------------
(* retain().                                                               *)

\* Which months are past the window, and is each rolled up and counted.  Only the
\* lapsed sweep goes on when one is not, and neither when there is nothing to take.
Survey(job) ==
  LET doomed  == Doomed(job, window)
      spared  == {s \in Held : MonthOf[s] < window /\ Protected(s)}
      past    == {MonthOf[s] : s \in doomed \cup spared}
      allowed == past \cap rolled \cap counted
      take    == {s \in doomed : MonthOf[s] \in allowed} IN
  /\ keeper = "idle" /\ job \in Modes
  /\ job = "retain" => past = allowed
  /\ take # {}
  /\ mode' = job /\ cutoff' = window /\ safe' = allowed
  /\ keeper' = "stripping"
  /\ UNCHANGED <<archive, fav, window, tables, rollup, crashes>>

\* DELETE FROM snapshot_schedule, story_keys and jobs.
StripChildren ==
  /\ keeper = "stripping"
  /\ whole' = whole \ Doomed(mode, cutoff)
  /\ keeper' = "unstarring"
  /\ UNCHANGED <<life, archived, fav, window, tables, rollup, safe, call, crashes>>

\* DELETE FROM favourites, the lapsed claims.
Unstar ==
  /\ keeper = "unstarring"
  /\ fav' = [a \in Account |->
       [s \in Story |-> IF s \in Doomed(mode, cutoff) THEN "none" ELSE fav[a][s]]]
  /\ keeper' = "deleting"
  /\ UNCHANGED <<archive, window, tables, rollup, safe, call, crashes>>

\* The batches of one DELETE FROM stories.
Batches == {S \in SUBSET Doomed(mode, cutoff) :
              Cardinality(S) = Min({Batch, Cardinality(Doomed(mode, cutoff))})}

DeleteBatch ==
  /\ keeper = "deleting" /\ ~KeepForever /\ Doomed(mode, cutoff) # {}
  /\ \E S \in Batches :
       /\ \A s \in S : MonthOf[s] \in rolled
       /\ life' = [s \in Story |-> IF s \in S THEN "gone" ELSE life[s]]
  /\ UNCHANGED <<archived, whole, fav, window, tables, rollup, keep, crashes>>

\* The trigger of migration 0037 refuses a row whose month is not rolled up, and with
\* it the whole statement; the call fails.
DeleteRefused ==
  /\ keeper = "deleting" /\ ~KeepForever
  /\ \E S \in Batches : \E s \in S : MonthOf[s] \notin rolled
  /\ keeper' = "idle"
  /\ UNCHANGED <<archive, fav, window, tables, rollup, safe, call, crashes>>

\* No row was deleted: go on to the orphans and the months.
DeleteDone ==
  /\ keeper = "deleting" /\ (KeepForever \/ Doomed(mode, cutoff) = {})
  /\ whole' = whole \cap Held
  /\ keeper' = IF KeepForever THEN "idle" ELSE "stamping"
  /\ UNCHANGED <<life, archived, fav, window, tables, rollup, safe, call, crashes>>

\* pruned_at, for one month after the other.
Stamp ==
  /\ keeper = "stamping"
  /\ rolled' = rolled \cup {Min(safe)} /\ pruned' = pruned \cup {Min(safe)}
  /\ safe' = safe \ {Min(safe)}
  /\ keeper' = IF safe' = {} THEN "idle" ELSE "stamping"
  /\ UNCHANGED <<archive, fav, window, counted, analysis, dirty, rollup, call, crashes>>

KeeperFails ==
  /\ keeper # "idle" /\ crashes < MaxCrashes
  /\ crashes' = crashes + 1
  /\ keeper' = "idle"
  /\ UNCHANGED <<archive, fav, window, tables, rollup, safe, call>>

RollupStep ==
  StartRollup \/ DropTotals \/ CountTotals \/ DropAnalysis \/ FillAnalysis \/ LogRollup
RetainStep ==
  StripChildren \/ Unstar \/ DeleteBatch \/ DeleteRefused \/ DeleteDone \/ Stamp

Next ==
  \/ \E s \in Story : Gate(s) \/ Land(s) \/ Mark(s)
  \/ \E a \in Account, s \in Story : Save(a, s) \/ Release(a, s) \/ Lapse(a, s)
  \/ CloseMonth \/ RollupStep \/ RollupFails
  \/ \E job \in {"retain", "lapsed"} : Survey(job)
  \/ RetainStep \/ KeeperFails

Spec == Init /\ [][Next]_vars

\* A run of a job goes on to its end, and the nightly rollup comes again.
FairSpec ==
  /\ Spec /\ WF_vars(RollupStep) /\ WF_vars(RetainStep)
  /\ \A s \in Story : WF_vars(Land(s) \/ Mark(s))

------------------------------------------------------------------------------
(* Properties.                                                             *)

TypeOK ==
  /\ life \in [Story -> {"unseen", "landing", "marking", "held", "gone"}]
  /\ archived \in [Story -> SUBSET Month]
  /\ whole \subseteq Story
  /\ fav \in [Account -> [Story -> {"none", "kept", "released", "lapsed"}]]
  /\ window \in 1 .. LastMonth + 1
  /\ counted \subseteq Month /\ analysis \in [Month -> SUBSET Story]
  /\ rolled \subseteq Month /\ pruned \subseteq rolled /\ dirty \subseteq rolled
  /\ roll \in {"idle", "dropping totals", "counting", "dropping", "filling", "logging"}
  /\ months \subseteq Month /\ (roll = "idle" <=> months = {})
  /\ keeper \in {"idle", "stripping", "unstarring", "deleting", "stamping"}
  /\ mode \in {"retain", "lapsed"} /\ cutoff \in 1 .. LastMonth + 1
  /\ safe \subseteq Month
  /\ crashes \in 0 .. MaxCrashes

\* "Analysis before deletion, always" (rollup.ts:9) and "monthly analysis outlives
\* the stories" (rollup.ts:132): a story is deleted only when its month counts it,
\* and the month goes on counting it.  It does not hold, and no run claims it: a story that
\* lands after its month was counted is deleted all the same.
AnalysisOutlivesStories == \A s \in Story : life[s] = "gone" => s \in analysis[MonthOf[s]]

\* retain.ts:84-91 and 0037:27: a favourite, and a released one within its grace, is
\* exempt: no step of any delete, whatever runs beside it, takes the star, the story
\* or, "leaving a favourite that renders as a stub", its keys.
FavouritesAreSpared ==
  [][\A a \in Account, s \in Story :
       fav[a][s] \in {"kept", "released"} =>
         /\ fav'[a][s] # "none" /\ s \in Held'
         /\ s \in whole => s \in whole']_vars

\* A story that stays in a settled month is in the end part of its analysis,
\* however late it came and whatever cut the rollup short.
EventuallyCounted ==
  \A s \in Story :
    []<>(s \in Held /\ MonthOf[s] < window /\ MonthOf[s] \notin pruned =>
           s \in analysis[MonthOf[s]])

=============================================================================
