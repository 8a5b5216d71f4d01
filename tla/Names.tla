-------------------------------- MODULE Names --------------------------------
(***************************************************************************)
(* The names job (src/process/emerging.ts): a model reads stories, oldest  *)
(* first, for tools that the taxonomy does not have; each name is kept     *)
(* with its sightings, and the evidence gate tracks it when enough         *)
(* publications carry it.                                                  *)
(*                                                                         *)
(* One pass runs at a time, and dies between any two of its statements.    *)
(* A call to the model is one step: what it takes is in ModelWork.         *)
(***************************************************************************)
EXTENDS Integers, FiniteSets

CONSTANTS
  Articles,       \* stories 1 .. Articles by published_at
  Name,           \* names that the taxonomy does not have
  Mentions,       \* Mentions[a]: the names that a model finds in a
  Paper,          \* the sources
  PaperOf,        \* PaperOf[a]: its source
  Carriers,       \* Carriers[a]: the sources that story_members comes to list
  Speakers,       \* sources that do not speak for the thing: independent
  BatchSize,      \* stories in one call
  Corroboration,  \* 2
  Thorough,       \* whether a valid answer speaks of every story it was asked about
  MaxFalls        \* bound: passes that die

Article == 1 .. Articles

ASSUME NamesAssumption ==
  /\ Articles \in Nat /\ Mentions \in [Article -> SUBSET Name]
  /\ PaperOf \in [Article -> Paper] /\ Carriers \in [Article -> SUBSET Paper]
  /\ \A a \in Article : PaperOf[a] \notin Carriers[a]
  /\ Speakers \subseteq Paper /\ BatchSize \in Nat \ {0} /\ Corroboration \in Nat \ {0}
  /\ Thorough \in BOOLEAN /\ MaxFalls \in Nat

VARIABLES
  collected,      \* stories with a summary that is long enough
  carried,        \* those whose members are listed
  tagged,         \* stories with a field: stacks is not empty
  ledger,         \* ledger[n]: the status, "none" before there is a row
  fielded,        \* the names whose row has a field
  sightings,      \* emerging_sightings: [name, article, paper]
  counted,        \* counted[n]: sources and independent_sources
  first,          \* first[n]: the story that first_seen_at is of
  scanned,        \* entities_scanned_at is set
  answered,       \* llm_cache: a batch and what the answer speaks of
  \* The pass.
  at,             \* what it does next
  waiting,        \* the stories it has read, without the batch
  reading,        \* the batch
  finds,          \* pairs <<a, n>> that are left to record
  find,           \* the one it is at
  refusals,
  falls           \* passes that have died

pass == <<at, waiting, reading, finds, find, refusals>>
namesVars == <<collected, tagged, carried, ledger, fielded, sightings, counted, first, scanned, answered, pass, falls>>

NoFind == [a |-> 0, n |-> 0, fresh |-> FALSE, left |-> {}]
Sighting(n, a, p) == [name |-> n, article |-> a, paper |-> p]
Papers(n) == {x.paper : x \in {y \in sightings : y.name = n}}

NamesInit ==
  /\ collected = {} /\ tagged = {} /\ carried = {} /\ fielded = {}
  /\ ledger = [n \in Name |-> "none"] /\ sightings = {}
  /\ counted = [n \in Name |-> [sources |-> 0, speakers |-> 0]] /\ first = [n \in Name |-> 0]
  /\ scanned = {} /\ answered = {}
  /\ at = "idle" /\ waiting = {} /\ reading = {} /\ finds = {} /\ find = NoFind
  /\ refusals = 0 /\ falls = 0

------------------------------------------------------------------------------
(* The pass.                                                               *)

Unscanned ==
  /\ at = "idle" /\ collected \ scanned # {}
  /\ at' = "asking" /\ waiting' = collected \ scanned /\ refusals' = 0
  /\ UNCHANGED <<collected, tagged, carried, ledger, fielded, sightings, counted, first, scanned, answered,
                 reading, finds, find, falls>>

Batch == {a \in waiting : Cardinality({b \in waiting : b < a}) < BatchSize}

\* What is cached, or what a model says.
Says ==
  LET kept == {x \in answered : x.batch = Batch}
  IN IF kept # {} THEN {x.said : x \in kept}
     ELSE IF Thorough THEN {Batch} ELSE SUBSET Batch

Read ==
  /\ at = "asking" /\ waiting # {}
  /\ \E said \in Says :
       /\ finds' = {f \in said \X Name : f[2] \in Mentions[f[1]]}
       /\ answered' = answered \cup {[batch |-> Batch, said |-> said]}
  /\ reading' = Batch /\ waiting' = waiting \ Batch /\ refusals' = 0 /\ at' = "recording"
  /\ UNCHANGED <<collected, tagged, carried, ledger, fielded, sightings, counted, first, scanned, find, falls>>

\* The second refusal in a row ends the pass.
Refused ==
  /\ at = "asking" /\ waiting # {} /\ \A x \in answered : x.batch # Batch
  /\ waiting' = waiting \ Batch /\ refusals' = refusals + 1
  /\ at' = IF refusals = 1 THEN "gating" ELSE "asking"
  /\ UNCHANGED <<collected, tagged, carried, ledger, fielded, sightings, counted, first, scanned, answered,
                 reading, finds, find, falls>>

Earliest(n, a) == IF first[n] = 0 \/ a < first[n] THEN a ELSE first[n]

\* array_agg over the fields of a row and a story that both have none is NULL, which the
\* column does not take.
Clashes(f) == ledger[f[2]] # "none" /\ f[2] \notin fielded /\ f[1] \notin tagged

\* record: the row, the sighting, one for each member, the numbers of the row.
RecordName ==
  /\ at = "recording"
  /\ \E f \in finds :
       /\ ~Clashes(f)
       /\ fielded' = IF f[1] \in tagged THEN fielded \cup {f[2]} ELSE fielded
       /\ finds' = finds \ {f} /\ find' = [NoFind EXCEPT !.a = f[1], !.n = f[2]]
       /\ ledger' = [ledger EXCEPT ![f[2]] = IF @ = "none" THEN "candidate" ELSE @]
       /\ first' = [first EXCEPT ![f[2]] = Earliest(f[2], f[1])]
  /\ at' = "sighting"
  /\ UNCHANGED <<collected, tagged, carried, sightings, counted, scanned, answered, waiting, reading,
                 refusals, falls>>

Sight ==
  /\ at = "sighting"
  /\ LET seen == Sighting(find.n, find.a, PaperOf[find.a])
     IN /\ sightings' = sightings \cup {seen}
        /\ find' = [find EXCEPT !.fresh = seen \notin sightings,
                                !.left = IF find.a \in carried THEN Carriers[find.a] ELSE {}]
  /\ at' = "carrying"
  /\ UNCHANGED <<collected, tagged, carried, ledger, fielded, counted, first, scanned, answered, waiting, reading,
                 finds, refusals, falls>>

CarriedBy ==
  /\ at = "carrying"
  /\ \E p \in find.left :
       /\ sightings' = sightings \cup {Sighting(find.n, find.a, p)}
       /\ find' = [find EXCEPT !.left = @ \ {p}]
  /\ UNCHANGED <<collected, tagged, carried, ledger, fielded, counted, first, scanned, answered, at, waiting,
                 reading, finds, refusals, falls>>

\* A mutant: every sighting counts.
CountEach(n) ==
  [sources |-> Cardinality({x \in sightings : x.name = n}),
   speakers |-> Cardinality({x \in sightings : x.name = n /\ x.paper \in Speakers})]
Count(n) ==
  [sources |-> Cardinality(Papers(n)), speakers |-> Cardinality(Papers(n) \cap Speakers)]

\* A name that its story was known to carry is not counted again.
Recount ==
  /\ at = "carrying" /\ find.left = {}
  /\ counted' = IF find.fresh THEN [counted EXCEPT ![find.n] = Count(find.n)] ELSE counted
  /\ find' = NoFind /\ at' = "recording"
  /\ UNCHANGED <<collected, tagged, carried, ledger, fielded, sightings, first, scanned, answered, waiting,
                 reading, finds, refusals, falls>>

Stamp ==
  /\ at = "recording" /\ finds = {}
  /\ scanned' = scanned \cup reading /\ reading' = {}
  /\ at' = "asking"
  /\ UNCHANGED <<collected, tagged, carried, ledger, fielded, sightings, counted, first, answered, waiting,
                 finds, find, refusals, falls>>

\* A mutant: one source more than it takes.
PassesAbove(n) == counted[n].sources > Corroboration \/ counted[n].speakers > 1
Passes(n) == counted[n].sources >= Corroboration \/ counted[n].speakers >= 1

ApplyGate ==
  /\ at = "gating" \/ (at = "asking" /\ waiting = {})
  /\ ledger' = [n \in Name |-> IF ledger[n] = "candidate" /\ Passes(n) THEN "tracked" ELSE ledger[n]]
  /\ at' = "idle" /\ waiting' = {}
  /\ UNCHANGED <<collected, tagged, carried, fielded, sightings, counted, first, scanned, answered, reading,
                 finds, find, refusals, falls>>

PassEnds ==
  /\ at' = "idle" /\ waiting' = {} /\ reading' = {} /\ finds' = {} /\ find' = NoFind
  /\ UNCHANGED <<collected, tagged, carried, ledger, fielded, sightings, counted, first, scanned,
                 answered, refusals>>

\* The upsert of a name fails, and with it the pass: its batch is not stamped, and the gate
\* is not reached.
RecordFails ==
  /\ at = "recording" /\ \E f \in finds : Clashes(f)
  /\ PassEnds /\ UNCHANGED falls

Falls ==
  /\ at # "idle" /\ falls < MaxFalls
  /\ falls' = falls + 1
  /\ PassEnds

------------------------------------------------------------------------------
(* Stories come in any order of publication, and are merged before or      *)
(* after they are read.                                                    *)

Gather(a) ==
  /\ a \notin collected /\ collected' = collected \cup {a}
  /\ \E more \in {{}, {a}} : tagged' = tagged \cup more
  /\ UNCHANGED <<carried, ledger, fielded, sightings, counted, first, scanned, answered, pass, falls>>

MergeInto(a) ==
  /\ a \in collected \ carried /\ carried' = carried \cup {a}
  /\ UNCHANGED <<collected, tagged, ledger, fielded, sightings, counted, first, scanned, answered, pass, falls>>

NamesPass ==
  \/ Unscanned \/ Read \/ Refused \/ RecordName \/ RecordFails \/ Sight \/ CarriedBy \/ Recount
  \/ Stamp \/ ApplyGate

NamesNext == NamesPass \/ Falls \/ \E a \in Article : Gather(a) \/ MergeInto(a)

NamesSpec == NamesInit /\ [][NamesNext]_namesVars

\* Passes go on, and a model that is asked again and again answers at last.
NamesFairSpec == NamesSpec /\ WF_namesVars(NamesPass) /\ SF_namesVars(Read)

------------------------------------------------------------------------------
(* Properties.                                                             *)

NamesTypeOK ==
  /\ collected \subseteq Article /\ carried \subseteq collected
  /\ tagged \subseteq collected /\ fielded \subseteq Name
  /\ ledger \in [Name -> {"none", "candidate", "tracked"}]
  /\ sightings \subseteq [name : Name, article : Article, paper : Paper]
  /\ counted \in [Name -> [sources : Nat, speakers : Nat]]
  /\ first \in [Name -> 0 .. Articles] /\ scanned \subseteq collected
  /\ answered \subseteq [batch : SUBSET Article, said : SUBSET Article]
  /\ at \in {"idle", "asking", "recording", "sighting", "carrying", "gating"}
  /\ waiting \subseteq collected /\ reading \subseteq collected
  /\ finds \subseteq reading \X Name
  /\ find \in [a : 0 .. Articles, n : Name \cup {0}, fresh : BOOLEAN, left : SUBSET Paper]
  /\ refusals \in 0 .. 2 /\ falls \in 0 .. MaxFalls

\* emerging.ts:257, "the row says three unrelated sources when it has one": a name is
\* tracked only on what its sightings show, though batches are read twice.
TrackedOnEvidence ==
  \A n \in Name : ledger[n] = "tracked" =>
    Cardinality(Papers(n)) >= Corroboration \/ Papers(n) \cap Speakers # {}

\* No story is stamped before all it names is in the ledger, so that a pass that dies
\* loses nothing (emerging.ts:102).
StampedIsSighted ==
  Thorough => \A a \in scanned : \A n \in Mentions[a] : Sighting(n, a, PaperOf[a]) \in sightings

\* emerging.ts:180: first_seen_at is never later than a sighting, in whatever order
\* stories come in and are read.
FirstSeenIsFirst == \A x \in sightings : 0 < first[x.name] /\ first[x.name] <= x.article

\* The ledger of names is what the stories show, through refusals and repeated readings.
NamesAreEarned == TrackedOnEvidence /\ StampedIsSighted /\ FirstSeenIsFirst

\* A story that is still to be read names what has a row, and neither has a field: each
\* pass that comes to it ends there (emerging.ts:188).
Blocked(a) ==
  a \in collected \ (scanned \cup tagged)
  /\ \E n \in Mentions[a] : ledger[n] # "none" /\ n \notin fielded

\* Unless a story is blocked, all are read in the end, and every name that has the evidence
\* is tracked if no pass has died between a sighting and the recount.
Evident(n) == Cardinality(Papers(n)) >= Corroboration \/ Papers(n) \cap Speakers # {}
NamesComeThrough ==
  []<>(\/ \E a \in Article : Blocked(a)
       \/ /\ collected \subseteq scanned
          /\ falls = 0 => \A n \in Name : Evident(n) => ledger[n] = "tracked")

\* emerging.ts:245, "Recounting would be wasted work and the numbers would not move".
CountsAreTrue ==
  []<>(\A n \in Name : counted[n].sources = Cardinality(Papers(n)))

=============================================================================
