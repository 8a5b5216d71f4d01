-------------------------------- MODULE Dedup --------------------------------
(***************************************************************************)
(* The first part of the process job: src/process/dedup.ts finds stories   *)
(* that are one event and merges them, with supersede and addMember of     *)
(* src/db/repos/stories.ts.                                                *)
(*                                                                         *)
(* The scheduler, the edge worker and a script each run it, so two passes  *)
(* may overlap.  Every statement is a step.  How near two stories are is   *)
(* given: a distance that merges, one that asks, or neither.               *)
(***************************************************************************)
EXTENDS Integers, FiniteSets, FiniteSetsExt

CONSTANTS
  Copies,         \* stories 1 .. Copies in the order of collected_at, and those of one
                  \* moment in the order in which the database returns them
  Outlet,         \* Outlet[s]: the source of s
  Flagged,        \* stories whose source is never_canonical
  Weight,         \* Weight[s]: the standing of its source
  Close,          \* pairs {s, t} that merge unasked
  Doubtful,       \* pairs that become a question
  Alike,          \* pairs that a model calls one event
  Titled,         \* Titled[s]: the hash of the translated title
  Day,            \* Day[s]: when it was published
  Pass,           \* the passes that may overlap
  MaxPairs,       \* questions in one pass
  MaxStops        \* bound: passes that die

Copy == 1 .. Copies
Pairs == {{s, t} : s, t \in Copy}

ASSUME DedupAssumption ==
  /\ Copies \in Nat \ {0} /\ Flagged \subseteq Copy /\ Weight \in [Copy -> Nat]
  /\ Close \subseteq Pairs /\ Doubtful \subseteq Pairs /\ Alike \subseteq Pairs
  /\ DOMAIN Outlet = Copy /\ DOMAIN Titled = Copy /\ DOMAIN Day = Copy
  /\ \A s, t \in Copy : Outlet[s] = Outlet[t] =>
       Weight[s] = Weight[t] /\ (s \in Flagged <=> t \in Flagged)
  /\ MaxPairs \in Nat /\ MaxStops \in Nat

VARIABLES
  arrived,        \* stories collected so far
  into,           \* into[s]: superseded_by, 0 for none
  members,        \* story_members: pairs <<of, story>>, and of itself for another address
  coverage,       \* coverage_count
  phase,          \* phase[p]: "idle", "near", "titles" or "asking"
  todo,           \* stories of the pass that are left to look at
  pairs,          \* pairs it is about to merge
  questions,      \* pairs it has to ask about
  merge,          \* the merge it is at
  stops

dedupVars == <<arrived, into, members, coverage, phase, todo, pairs, questions, merge, stops>>

NoMerge == [step |-> "none", a |-> 0, b |-> 0, winner |-> 0]
Live == {s \in arrived : into[s] = 0}

\* pickCanonical.  At equal times it takes the row that came first, and the SELECT has no
\* order: that two passes are given the same one is assumed.
PickFirst(s, t) == IF s <= t THEN s ELSE t                           \* a mutant
PickCanonical(s, t) ==
  IF (s \in Flagged) # (t \in Flagged) THEN (IF s \in Flagged THEN t ELSE s)
  ELSE IF Weight[s] # Weight[t] THEN (IF Weight[s] > Weight[t] THEN s ELSE t)
  ELSE IF s <= t THEN s ELSE t

\* What addMember counts: other outlets, each once.
Coverage(w) ==
  1 + Cardinality({Outlet[m[2]] : m \in {n \in members : n[1] = w}} \ {Outlet[w]})

DedupInit ==
  /\ arrived = {} /\ into = [s \in Copy |-> 0] /\ members = {}
  /\ coverage = [s \in Copy |-> 1]
  /\ phase = [p \in Pass |-> "idle"] /\ todo = [p \in Pass |-> {}]
  /\ pairs = [p \in Pass |-> {}] /\ questions = [p \in Pass |-> {}]
  /\ merge = [p \in Pass |-> NoMerge] /\ stops = 0

------------------------------------------------------------------------------
(* Layers 2, 3 and 4.                                                      *)

Free(p) == merge[p] = NoMerge
StartMerge(p, s, t) == merge' = [merge EXCEPT ![p] = [step |-> "reading", a |-> s, b |-> t, winner |-> 0]]

ReadRecent(p) ==
  /\ phase[p] = "idle"
  /\ phase' = [phase EXCEPT ![p] = "near"] /\ todo' = [todo EXCEPT ![p] = Live]
  /\ UNCHANGED <<arrived, into, members, coverage, pairs, questions, merge, stops>>

\* bandCandidates, in no order: those that are seen before one that merges become
\* questions, those behind it do not.
LookAt(p) ==
  /\ phase[p] = "near" /\ Free(p) /\ todo[p] # {}
  /\ LET s == Max(todo[p])
         near == {t \in Live \ {s} : Outlet[t] # Outlet[s]}
         sure == {t \in near : {s, t} \in Close}
         unsure == {<<s, t>> : t \in {u \in near : {s, u} \in Doubtful}}
     IN /\ todo' = [todo EXCEPT ![p] = @ \ {s}]
        /\ IF sure = {}
             THEN questions' = [questions EXCEPT ![p] = @ \cup unsure] /\ UNCHANGED merge
             ELSE /\ \E q \in SUBSET unsure : questions' = [questions EXCEPT ![p] = @ \cup q]
                  /\ \E t \in sure : StartMerge(p, s, t)
  /\ UNCHANGED <<arrived, into, members, coverage, phase, pairs, stops>>

\* mergeByTranslatedTitle: the first of each title against the others.  One source
\* may use a title again on another day.
ReadTitles(p) ==
  /\ phase[p] = "near" /\ Free(p) /\ todo[p] = {}
  /\ phase' = [phase EXCEPT ![p] = "titles"]
  /\ pairs' = [pairs EXCEPT ![p] =
       {q \in Live \X Live :
          /\ q[1] < q[2] /\ Titled[q[1]] = Titled[q[2]]
          /\ \A u \in Live : Titled[u] = Titled[q[1]] => q[1] <= u
          /\ Outlet[q[1]] = Outlet[q[2]] => Day[q[1]] = Day[q[2]]}]
  /\ UNCHANGED <<arrived, into, members, coverage, todo, questions, merge, stops>>

\* The questions above the ceiling are dropped.  A model answers, or refuses.
AskModel(p) ==
  /\ phase[p] = "titles" /\ Free(p) /\ pairs[p] = {}
  /\ phase' = [phase EXCEPT ![p] = "asking"] /\ questions' = [questions EXCEPT ![p] = {}]
  /\ \E kept \in kSubset(IF Cardinality(questions[p]) < MaxPairs
                           THEN Cardinality(questions[p]) ELSE MaxPairs, questions[p]) :
       pairs' \in {[pairs EXCEPT ![p] = {q \in kept : {q[1], q[2]} \in Alike}], pairs}
  /\ UNCHANGED <<arrived, into, members, coverage, todo, merge, stops>>

NextPair(p) ==
  /\ phase[p] \in {"titles", "asking"} /\ Free(p)
  /\ \E q \in pairs[p] :
       /\ phase[p] = "titles" => \A r \in pairs[p] : q[2] <= r[2]
       /\ StartMerge(p, q[1], q[2]) /\ pairs' = [pairs EXCEPT ![p] = @ \ {q}]
  /\ UNCHANGED <<arrived, into, members, coverage, phase, todo, questions, stops>>

Done(p) ==
  /\ phase[p] = "asking" /\ Free(p) /\ pairs[p] = {}
  /\ phase' = [phase EXCEPT ![p] = "idle"]
  /\ UNCHANGED <<arrived, into, members, coverage, todo, pairs, questions, merge, stops>>

------------------------------------------------------------------------------
(* mergeStories.                                                           *)

Loser(p) == IF merge[p].winner = merge[p].a THEN merge[p].b ELSE merge[p].a

\* The SELECT: nothing happens unless both are still there.
ReadBoth(p) ==
  /\ merge[p].step = "reading"
  /\ merge' = [merge EXCEPT ![p] =
       IF {merge[p].a, merge[p].b} \subseteq Live
         THEN [@ EXCEPT !.step = "superseding",
                        !.winner = PickCanonical(merge[p].a, merge[p].b)]
         ELSE NoMerge]
  /\ UNCHANGED <<arrived, into, members, coverage, phase, todo, pairs, questions, stops>>

\* supersede, which changes nothing when another pass was faster.
Supersede(p) ==
  /\ merge[p].step = "superseding"
  /\ into' = IF into[Loser(p)] = 0 THEN [into EXCEPT ![Loser(p)] = merge[p].winner] ELSE into
  /\ merge' = [merge EXCEPT ![p].step = "adding"]
  /\ UNCHANGED <<arrived, members, coverage, phase, todo, pairs, questions, stops>>

\* addMember, and its recount.
AddMember(p) ==
  /\ merge[p].step = "adding"
  /\ members' = members \cup {<<merge[p].winner, Loser(p)>>}
  /\ merge' = [merge EXCEPT ![p].step = "counting"]
  /\ UNCHANGED <<arrived, into, coverage, phase, todo, pairs, questions, stops>>

CountCoverage(p) ==
  /\ merge[p].step = "counting"
  /\ coverage' = [coverage EXCEPT ![merge[p].winner] = Coverage(merge[p].winner)]
  /\ merge' = [merge EXCEPT ![p] = NoMerge]
  /\ UNCHANGED <<arrived, into, members, phase, todo, pairs, questions, stops>>

------------------------------------------------------------------------------
(* What else happens.                                                      *)

Arrive(s) ==
  /\ s \notin arrived /\ 1 .. s - 1 \subseteq arrived
  /\ arrived' = arrived \cup {s}
  /\ UNCHANGED <<into, members, coverage, phase, todo, pairs, questions, merge, stops>>

\* The feed reposts it under a second address (addMembersBatch, which recounts).
Repost(s) ==
  /\ s \in arrived /\ <<s, s>> \notin members
  /\ members' = members \cup {<<s, s>>}
  /\ coverage' = [coverage EXCEPT ![s] = Coverage(s)']
  /\ UNCHANGED <<arrived, into, phase, todo, pairs, questions, merge, stops>>

\* The process dies, or a statement fails.
Stops(p) ==
  /\ phase[p] # "idle" /\ stops < MaxStops
  /\ stops' = stops + 1
  /\ phase' = [phase EXCEPT ![p] = "idle"] /\ todo' = [todo EXCEPT ![p] = {}]
  /\ pairs' = [pairs EXCEPT ![p] = {}] /\ questions' = [questions EXCEPT ![p] = {}]
  /\ merge' = [merge EXCEPT ![p] = NoMerge]
  /\ UNCHANGED <<arrived, into, members, coverage>>

DedupNext ==
  \/ \E p \in Pass :
       \/ ReadRecent(p) \/ LookAt(p) \/ ReadTitles(p) \/ AskModel(p) \/ NextPair(p) \/ Done(p)
       \/ ReadBoth(p) \/ Supersede(p) \/ AddMember(p) \/ CountCoverage(p) \/ Stops(p)
  \/ \E s \in Copy : Arrive(s) \/ Repost(s)

DedupSpec == DedupInit /\ [][DedupNext]_dedupVars

------------------------------------------------------------------------------
(* Properties.                                                             *)

DedupTypeOK ==
  /\ arrived \subseteq Copy /\ into \in [Copy -> 0 .. Copies] /\ members \subseteq Copy \X Copy
  /\ coverage \in [Copy -> 1 .. Copies]
  /\ phase \in [Pass -> {"idle", "near", "titles", "asking"}]
  /\ todo \in [Pass -> SUBSET Copy]
  /\ pairs \in [Pass -> SUBSET (Copy \X Copy)] /\ questions \in [Pass -> SUBSET (Copy \X Copy)]
  /\ merge \in [Pass -> [step : {"none", "reading", "superseding", "adding", "counting"},
                         a : 0 .. Copies, b : 0 .. Copies, winner : 0 .. Copies]]
  /\ stops \in 0 .. MaxStops

\* Everything that was merged is behind a story that is still shown, however passes
\* overlap; and a never_canonical link "can never be the surviving link"
\* (dedup.ts:190) of a story that an outlet of its own carries.  A trail of s leads
\* from it to wherever superseded_by points; the shortest has nothing else in it.
Trails(s) == {X \in SUBSET Copy : s \in X /\ \A t \in X : into[t] # 0 => into[t] \in X}
OneIsShown ==
  \A s \in arrived \ Live : \A X \in Trails(s) :
    \E w \in X \cap Live : w \in Flagged => s \in Flagged

\* dedup.ts:186, "points at the winner, and contributes a story_members row": as
\* long as no pass dies, what a story points at lists it as a member.
MergedIsMember ==
  stops = 0 => \A s \in arrived \ Live :
    \/ <<into[s], s>> \in members
    \/ \E p \in Pass : merge[p].step = "adding" /\ Loser(p) = s /\ merge[p].winner = into[s]

\* A publisher is no coverage of its own story, two addresses are not two outlets, and
\* a count that is behind belongs to a merge under way or to a pass that died.
CoverageIsTrue ==
  \A s \in arrived :
    LET outlets == {Outlet[t] : t \in {u \in Copy : <<s, u>> \in members}} \ {Outlet[s]}
    IN /\ coverage[s] <= 1 + Cardinality(outlets)
       /\ coverage[s] = 1 + Cardinality(outlets) \/ stops > 0
            \/ \E p \in Pass : merge[p].step = "counting" /\ merge[p].winner = s

\* Merging hides no story and counts no outlet that is not there.
MergesAreSound == OneIsShown /\ MergedIsMember /\ CoverageIsTrue

\* No story is a member of two others.  Two passes at once break it: supersede does
\* nothing for the slower one, and its addMember is done all the same.
CountedOnce ==
  \A s \in Copy : Cardinality({w \in Copy \ {s} : <<w, s>> \in members}) <= 1

=============================================================================
