------------------------------- MODULE Reports -------------------------------
(***************************************************************************)
(* The daily report: src/analysis/briefing.ts reads the stories of each    *)
(* field since the last report, has a model write a briefing from a        *)
(* selection of them (src/analysis/corpus.ts), and stores one row per      *)
(* field and one for the day.                                              *)
(*                                                                         *)
(* The day's row says how far the archive has been read, and the next run  *)
(* begins there; each field and each statement is a step of a run, which   *)
(* may be cut short anywhere and is then repeated.                         *)
(***************************************************************************)
EXTENDS Integers, FiniteSets, FiniteSetsExt

CONSTANTS
  Story,
  Field,
  FieldOf,        \* FieldOf[s]: the field whose vocabulary the story carries
  Delayed,        \* stories that are collected after a later moment than their date
  MinCorpus,      \* MIN_CORPUS: fewer stories are too little to write from
  DayLength,      \* moments in a day; the job is due at the first of them
  FirstRun,       \* FIRST_RUN_DAYS and
  MaxCatchup,     \* MAX_CATCHUP_DAYS, in moments
  MaxTime,        \* bound: moments
  MaxCuts         \* bound: runs cut short

ASSUME ReportsAssumption ==
  /\ IsFiniteSet(Story) /\ FieldOf \in [Story -> Field] /\ Delayed \subseteq Story
  /\ MinCorpus \in Nat \ {0} /\ DayLength \in Nat \ {0}
  /\ FirstRun \in Nat \ {0} /\ MaxCatchup \in Nat \ {0}
  /\ MaxTime \in Nat \ {0} /\ MaxCuts \in Nat

Moment == -FirstRun .. MaxTime
Today(t) == t \div DayLength
ReportDay == 0 .. Today(MaxTime)

VARIABLES
  now,
  dated,          \* dated[s]: published_at, or Never
  readable,       \* stories that are stored with a text
  due,            \* the scheduler has the job to run
  run,            \* the step of the run, its window, and the fields it has still to do
  outcome,        \* outcome[f]: what came of a field, and the stories it was read from
  briefings,      \* field_briefings: briefings[d][f]
  reports,        \* daily_reports: reports[d]
  swept,          \* moments that the window of a run that was stored has held
  cuts

reportVars == <<now, dated, readable, due, run, outcome, briefings, reports, swept, cuts>>

Never == MaxTime + 2
NoBriefing == [from |-> 0, to |-> 0, stories |-> {}]
NoDay == [from |-> 1, to |-> 0, written |-> {}, quiet |-> {}]
Unread == [status |-> "none", pool |-> {}]
Idle == [step |-> "idle", from |-> 0, to |-> 0, left |-> {}]
Stored == {d \in ReportDay : reports[d] # NoDay}

ReportsInit ==
  /\ now = 0 /\ due = TRUE
  /\ dated = [s \in Story |-> Never] /\ readable = {}
  /\ run = Idle /\ outcome = [f \in Field |-> Unread]
  /\ briefings = [d \in ReportDay |-> [f \in Field |-> NoBriefing]]
  /\ reports = [d \in ReportDay |-> NoDay]
  /\ swept = {} /\ cuts = 0

------------------------------------------------------------------------------
(* The archive that is read.                                               *)

\* A run at a moment reads what is dated before it: a moment is dated by its end.
Publish(s) ==
  /\ dated[s] = Never
  /\ dated' = [dated EXCEPT ![s] = now + 1]
  /\ readable' = IF s \in Delayed THEN readable ELSE readable \cup {s}
  /\ UNCHANGED <<now, due, run, outcome, briefings, reports, swept, cuts>>

TurnUp(s) ==
  /\ dated[s] <= now /\ s \notin readable
  /\ readable' = readable \cup {s}
  /\ UNCHANGED <<now, dated, due, run, outcome, briefings, reports, swept, cuts>>

\* The stories of the field that fieldPool finds in a window, open below.
ClosedBelow(f, from, to) ==                                          \* a mutant
  {s \in readable : FieldOf[s] = f /\ from <= dated[s] /\ dated[s] <= to}
Pool(f, from, to) ==
  {s \in readable : FieldOf[s] = f /\ from < dated[s] /\ dated[s] <= to}

------------------------------------------------------------------------------
(* A run.                                                                  *)

\* max(covered_to).
Covered == IF Stored = {} THEN Never ELSE Max({reports[d].to : d \in Stored})

From == IF Covered = Never THEN now - FirstRun ELSE Max({Covered, now - MaxCatchup})

\* runDailyReport: lastCoverage and nextWindow.
Begin ==
  /\ run = Idle /\ due
  /\ run' = [step |-> "reading", from |-> From, to |-> now, left |-> Field]
  /\ UNCHANGED <<now, dated, readable, due, outcome, briefings, reports, swept, cuts>>

\* The fields are taken one after the other, in an order that is always the same.
FirstOf(fields) == CHOOSE f \in fields : TRUE

\* briefField: too little to write from, a briefing, or no answer that cites a story;
\* briefArchive takes what throws in a field, its query too, for a field that has no
\* briefing and of which nothing was read, and goes on with the next.
Thrown == [status |-> "unwritten", pool |-> {}]
ThrownIsQuiet(f) ==                                                  \* a mutant
  LET P == Pool(f, run.from, run.to) IN
  IF Cardinality(P) < MinCorpus THEN {[status |-> "quiet", pool |-> P]}
  ELSE {[status |-> "written", pool |-> P], [status |-> "quiet", pool |-> {}]}
Comes(f) ==
  LET P == Pool(f, run.from, run.to) IN
  {Thrown} \cup IF Cardinality(P) < MinCorpus THEN {[status |-> "quiet", pool |-> P]}
               ELSE {[status |-> s, pool |-> P] : s \in {"written", "unwritten"}}

Brief(f) ==
  /\ run.step = "reading" /\ f \in run.left /\ f = FirstOf(run.left)
  /\ \E o \in Comes(f) : outcome' = [outcome EXCEPT ![f] = o]
  /\ run' = IF run.left = {f} THEN [run EXCEPT !.step = "saving", !.left = Field]
            ELSE [run EXCEPT !.left = @ \ {f}]
  /\ UNCHANGED <<now, dated, readable, due, briefings, reports, swept, cuts>>

Came(status) == {f \in Field : outcome[f].status = status}
Written == Came("written")
DayRow == [from |-> run.from, to |-> run.to, written |-> Written, quiet |-> Came("quiet")]

\* saveArchiveReport: the fields that were written, each with a statement of its own.
SaveField(f) ==
  /\ run.step = "saving" /\ f \in run.left \cap Written /\ f = FirstOf(run.left \cap Written)
  /\ briefings' = [briefings EXCEPT ![Today(run.to)][f] =
       [from |-> run.from, to |-> run.to, stories |-> outcome[f].pool]]
  /\ run' = [run EXCEPT !.left = @ \ {f}]
  /\ UNCHANGED <<now, dated, readable, due, outcome, reports, swept, cuts>>

\* The day's row, with its title and totals and the fields that have no briefing.
SaveDay ==
  /\ run.step = "saving" /\ run.left \cap Written = {}
  /\ reports' = [reports EXCEPT ![Today(run.to)] = DayRow]
  /\ swept' = swept \cup (run.from + 1 .. run.to)
  /\ run' = [run EXCEPT !.step = "releasing"]
  /\ UNCHANGED <<now, dated, readable, due, outcome, briefings, cuts>>

\* The scheduler puts the job down until tomorrow.
PutDown ==
  /\ run.step = "releasing" /\ run' = Idle /\ due' = FALSE
  /\ outcome' = [f \in Field |-> Unread]
  /\ UNCHANGED <<now, dated, readable, briefings, reports, swept, cuts>>

\* A statement outside the fields throws, lastCoverage or one that saves, or the process
\* dies; the job stays due.
CutShort ==
  /\ run # Idle /\ cuts < MaxCuts
  /\ cuts' = cuts + 1 /\ run' = Idle /\ outcome' = [f \in Field |-> Unread]
  /\ UNCHANGED <<now, dated, readable, due, briefings, reports, swept>>

\* A moment passes, longer than any run.  At seven the job is due again.
Tick ==
  /\ run = Idle /\ now < MaxTime /\ now' = now + 1
  /\ due' = (due \/ (now + 1) % DayLength = 0)
  /\ UNCHANGED <<dated, readable, run, outcome, briefings, reports, swept, cuts>>

ReportsNext ==
  \/ \E s \in Story : Publish(s) \/ TurnUp(s)
  \/ Begin \/ \E f \in Field : Brief(f) \/ SaveField(f)
  \/ SaveDay \/ PutDown \/ CutShort \/ Tick

ReportsSpec == ReportsInit /\ [][ReportsNext]_reportVars

------------------------------------------------------------------------------
(* Properties.                                                             *)

ReportsTypeOK ==
  /\ now \in 0 .. MaxTime /\ due \in BOOLEAN
  /\ dated \in [Story -> 0 .. Never] /\ readable \subseteq Story
  /\ run \in [step : {"idle", "reading", "saving", "releasing"}, from : Moment,
              to : 0 .. MaxTime, left : SUBSET Field]
  /\ run.from <= run.to
  /\ outcome \in [Field -> [status : {"none", "quiet", "written", "unwritten"}, pool : SUBSET Story]]
  /\ briefings \in [ReportDay -> [Field -> [from : Int, to : 0 .. MaxTime, stories : SUBSET Story]]]
  /\ reports \in [ReportDay -> [from : Int, to : 0 .. MaxTime, written : SUBSET Field,
                             quiet : SUBSET Field]]
  /\ swept \subseteq Moment /\ cuts \in 0 .. MaxCuts

\* briefing.ts:93, "no story is read into two briefings": the windows of the days do not
\* overlap.  A run that is cut short between two fields and comes again the next day
\* reads the stories of the first field again.
ReadOnce ==
  cuts = 0 =>
    \A d, e \in ReportDay, f \in Field :
      d # e => briefings[d][f].stories \cap briefings[e][f].stories = {}

\* Wherever a run is cut off, a day that is listed has the briefings it is said to have,
\* and they cover what it says.
DayIsBacked ==
  \A d \in Stored : \A f \in reports[d].written :
    briefings[d][f].stories # {} /\ briefings[d][f].to >= reports[d].to

\* briefing.ts:260, "Never call it quiet": quiet is what a field is called that had too
\* little in the window, and never a field that could not be read.
QuietIsTrue ==
  \A d \in Stored : \A f \in reports[d].quiet :
    Cardinality({s \in Story \ Delayed :
      FieldOf[s] = f /\ reports[d].from < dated[s] /\ dated[s] <= reports[d].to}) < MinCorpus

\* While no day goes without a report, the windows of the runs that were stored leave no
\* moment out, wherever others were cut off.
Unbroken == \A d \in ReportDay, e \in Stored : d <= e => d \in Stored
WindowsMeet ==
  Unbroken =>
    \A d, e \in Stored : (reports[d].from + 1) .. reports[e].to \subseteq swept

\* The windows of the days fit together, and the days are what their rows say.
DaysAreWhole == ReadOnce /\ DayIsBacked /\ QuietIsTrue /\ WindowsMeet

\* jobs.ts:252, "nothing is read twice and nothing between two runs is skipped": what
\* a stored report covers is in a briefing, unless there was too little of its field.
\* It does not hold, and no run claims it: a field that throws is left out for good.
Covers(d, s) == d \in Stored /\ reports[d].from < dated[s] /\ dated[s] <= reports[d].to
NoneIsSkipped ==
  \A s \in Story \ Delayed : (\E d \in ReportDay : Covers(d, s)) =>
    \E d \in ReportDay :
      \/ s \in briefings[d][FieldOf[s]].stories
      \/ (Covers(d, s) /\ FieldOf[s] \in reports[d].quiet)

=============================================================================
