------------------------------ MODULE Vocabulary ------------------------------
(***************************************************************************)
(* How the closed vocabulary of technologies grows and what is tagged with *)
(* it: src/process/discover.ts raises candidates and promotes those that   *)
(* publish releases, a person decides on the others (decideCandidate in    *)
(* src/ui/registry.ts), src/process/tagstacks.ts matches stories against   *)
(* the entries, and src/process/classify.ts writes what a model says.      *)
(*                                                                         *)
(* The tagger, the job and the page share the table stacks, the queue of   *)
(* candidates and the marker stacks_tagged_at; each statement of theirs is *)
(* a step.  A term stands for all of its spellings.                        *)
(***************************************************************************)
EXTENDS Integers, FiniteSets

CONSTANTS
  Term,
  Released,       \* terms whose repository publishes releases: origin github_release
  Text,           \* the stories that are collected
  NamedIn,        \* NamedIn[x]: the terms that x names
  PerPass,        \* candidates that one promotion reads: 40
  Modes,          \* bound: how much may overlap, see mode
  MaxEnds         \* bound: passes and requests that end in the middle

ASSUME VocabularyAssumption ==
  /\ Released \subseteq Term /\ NamedIn \in [Text -> SUBSET Term]
  /\ PerPass \in Nat \ {0} /\ MaxEnds \in Nat /\ Modes \subseteq {"alone", "deciding", "all"}
  /\ Term \cap {"idle", "reading", "loading", "deciding", "reexamining"} = {}

Actor == {"job", "page"}                   \* those who promote

VARIABLES
  mode,           \* "alone": one job at a time, and the page only between them;
                  \* "deciding": the page also during discovery; "all": whatever may
  entries,        \* entries[t]: rows of stacks that t resolves to
  candidacy,      \* stack_candidates: the status, "unseen" before there is a row
  tags,           \* stories.stacks
  examined,       \* stacks_tagged_at is set
  opinion,         \* opinion[x]: what a model tagged x with, once it has
  does,           \* does[a]: what an actor does next
  queue,          \* queue[a]: the candidates it has read
  knows,          \* knows[a]: the terms of the vocabulary that it has loaded
  tagger,         \* what it does next, the vocabulary it has loaded, the rows it has read
  ends

discovery == <<does, queue, knows>>
vocabVars == <<mode, entries, candidacy, tags, examined, opinion, discovery, tagger, ends>>

Nobody == [says |-> FALSE, tags |-> {}]
Resting == [step |-> "idle", knows |-> {}, rows |-> {}, had |-> [x \in Text |-> {}]]
Entries == {t \in Term : entries[t] > 0}
Pending == {t \in Term : candidacy[t] = "pending"}
Quiet == tagger = Resting /\ \A a \in Actor : does[a] = "idle"
MayDecide == (mode = "alone" => Quiet) /\ (mode = "deciding" => tagger = Resting)
MayTag == mode = "all" \/ Quiet

VocabInit ==
  /\ mode \in Modes
  /\ entries = [t \in Term |-> 0] /\ candidacy = [t \in Term |-> "unseen"]
  /\ tags = [x \in Text |-> {}] /\ examined = {}
  /\ opinion = [x \in Text |-> Nobody]
  /\ does = [a \in Actor |-> "idle"] /\ queue = [a \in Actor |-> {}]
  /\ knows = [a \in Actor |-> {}] /\ tagger = Resting /\ ends = 0

Becomes(a, d) == does' = [does EXCEPT ![a] = d]

------------------------------------------------------------------------------
(* Discovery.                                                              *)

\* What releases and titles name and the vocabulary does not; a decision stands.
Propose ==
  /\ does["job"] = "idle" /\ MayDecide
  /\ \E R \in SUBSET (Term \ Entries) :
       candidacy' = [t \in Term |-> IF t \in R /\ candidacy[t] = "unseen" THEN "pending"
                                    ELSE candidacy[t]]
  /\ Becomes("job", "reading")
  /\ UNCHANGED <<mode, entries, tags, examined, opinion, queue, knows, tagger, ends>>

\* promoteCandidates: those that are named most often, which may be any.
ReadQueue ==
  /\ does["job"] = "reading"
  /\ \E Q \in SUBSET Pending :
       /\ Cardinality(Q) = IF Cardinality(Pending) < PerPass THEN Cardinality(Pending) ELSE PerPass
       /\ queue' = [queue EXCEPT !["job"] = Q]
  /\ Becomes("job", "loading")
  /\ UNCHANGED <<mode, entries, candidacy, tags, examined, opinion, knows, tagger, ends>>

\* promoteCandidate: one that a person accepts, title or release.
Accept(t) ==
  /\ does["page"] = "idle" /\ MayDecide /\ t \in Pending
  /\ queue' = [queue EXCEPT !["page"] = {t}] /\ Becomes("page", "loading")
  /\ UNCHANGED <<mode, entries, candidacy, tags, examined, opinion, knows, tagger, ends>>

\* loadTaxonomy, once for all that has been read.
LoadTaxonomy(a) ==
  /\ does[a] = "loading"
  /\ knows' = [knows EXCEPT ![a] = Entries] /\ Becomes(a, "deciding")
  /\ UNCHANGED <<mode, entries, candidacy, tags, examined, opinion, queue, tagger, ends>>

\* The job promotes releases only; freeSlug finds a slug that is free, so that an entry
\* which came since the vocabulary was loaded does not stop it.
InsertStack(a, t) ==
  /\ does[a] = "deciding" /\ t \in queue[a] \ knows[a] /\ (a = "job" => t \in Released)
  /\ entries' = [entries EXCEPT ![t] = @ + 1]
  /\ queue' = [queue EXCEPT ![a] = @ \ {t}]
  /\ does' = [does EXCEPT ![a] = t]
  /\ UNCHANGED <<mode, candidacy, tags, examined, opinion, knows, tagger, ends>>

\* "already in the vocabulary".
RejectKnown(a, t) ==
  /\ does[a] = "deciding" /\ t \in queue[a] \cap knows[a] /\ (a = "job" => t \in Released)
  /\ candidacy' = [candidacy EXCEPT ![t] = "rejected"]
  /\ queue' = [queue EXCEPT ![a] = @ \ {t}]
  /\ UNCHANGED <<mode, entries, tags, examined, opinion, does, knows, tagger, ends>>

MarkPromoted(a, t) ==
  /\ does[a] = t
  /\ candidacy' = [candidacy EXCEPT ![t] = "promoted"] /\ Becomes(a, "reexamining")
  /\ UNCHANGED <<mode, entries, tags, examined, opinion, queue, knows, tagger, ends>>

\* A mutant: only what comes from now on is matched against the entry.
LeaveArchive(a) ==
  /\ does[a] = "reexamining" /\ Becomes(a, "deciding")
  /\ UNCHANGED <<mode, entries, candidacy, tags, examined, opinion, queue, knows, tagger, ends>>

\* The archive is to be examined again: stacks_tagged_at = NULL.
Reexamine(a) ==
  /\ does[a] = "reexamining"
  /\ examined' = {} /\ Becomes(a, "deciding")
  /\ UNCHANGED <<mode, entries, candidacy, tags, opinion, queue, knows, tagger, ends>>

\* Those that are left wait for a person.
Decided(a) ==
  /\ does[a] = "deciding" /\ (queue[a] = {} \/ (a = "job" /\ queue[a] \cap Released = {}))
  /\ Becomes(a, "idle")
  /\ queue' = [queue EXCEPT ![a] = {}] /\ knows' = [knows EXCEPT ![a] = {}]
  /\ UNCHANGED <<mode, entries, candidacy, tags, examined, opinion, tagger, ends>>

\* rejectCandidate, and an entry made by hand, of a slug that is not known.
RejectByHand(t) ==
  /\ MayDecide /\ t \in Pending
  /\ candidacy' = [candidacy EXCEPT ![t] = "rejected"]
  /\ UNCHANGED <<mode, entries, tags, examined, opinion, discovery, tagger, ends>>

AddByHand(t) ==
  /\ does["page"] = "idle" /\ MayDecide /\ t \notin Entries
  /\ entries' = [entries EXCEPT ![t] = 1] /\ Becomes("page", "reexamining")
  /\ UNCHANGED <<mode, candidacy, tags, examined, opinion, queue, knows, tagger, ends>>

------------------------------------------------------------------------------
(* Tagging.                                                                *)

LoadVocabulary ==
  /\ tagger.step = "idle" /\ MayTag
  /\ tagger' = [tagger EXCEPT !.step = "reading", !.knows = Entries]
  /\ UNCHANGED <<mode, entries, candidacy, tags, examined, opinion, discovery, ends>>

ReadRows ==
  /\ tagger.step = "reading"
  /\ IF examined = Text THEN tagger' = Resting
     ELSE tagger' = [tagger EXCEPT !.step = "writing", !.rows = Text \ examined, !.had = tags]
  /\ UNCHANGED <<mode, entries, candidacy, tags, examined, opinion, discovery, ends>>

Detected(x) == NamedIn[x] \cap tagger.knows

\* A mutant: what is detected replaces what was there.
Replacing(x) == Detected(x)
\* Merged with what was there when the row was read.
Merged(x) == tagger.had[x] \cup Detected(x)

WriteTags ==
  /\ tagger.step = "writing"
  /\ tags' = [x \in Text |-> IF x \in tagger.rows /\ ~(Detected(x) \subseteq tagger.had[x])
                             THEN Merged(x) ELSE tags[x]]
  /\ tagger' = [tagger EXCEPT !.step = "marking"]
  /\ UNCHANGED <<mode, entries, candidacy, examined, opinion, discovery, ends>>

MarkRows ==
  /\ tagger.step = "marking"
  /\ examined' = examined \cup tagger.rows /\ tagger' = Resting
  /\ UNCHANGED <<mode, entries, candidacy, tags, opinion, discovery, ends>>

\* applyClassification, in place of what is there: entries that the model has named.
Judge(x) ==
  /\ MayTag /\ ~opinion[x].says
  /\ \E T \in SUBSET Entries :
       /\ tags' = [tags EXCEPT ![x] = T]
       /\ opinion' = [opinion EXCEPT ![x] = [says |-> TRUE, tags |-> T]]
  /\ UNCHANGED <<mode, entries, candidacy, examined, discovery, tagger, ends>>

EndEarly(a) ==
  /\ does[a] # "idle" /\ ends < MaxEnds /\ ends' = ends + 1
  /\ Becomes(a, "idle")
  /\ queue' = [queue EXCEPT ![a] = {}] /\ knows' = [knows EXCEPT ![a] = {}]
  /\ UNCHANGED <<mode, entries, candidacy, tags, examined, opinion, tagger>>

TaggerEnds ==
  /\ tagger # Resting /\ ends < MaxEnds /\ ends' = ends + 1 /\ tagger' = Resting
  /\ UNCHANGED <<mode, entries, candidacy, tags, examined, opinion, discovery>>

Promotes(a) ==
  \/ LoadTaxonomy(a) \/ Reexamine(a) \/ Decided(a)
  \/ \E t \in Term : InsertStack(a, t) \/ RejectKnown(a, t) \/ MarkPromoted(a, t)
Discovers == ReadQueue \/ Promotes("job")
TagPass == LoadVocabulary \/ ReadRows \/ WriteTags \/ MarkRows
Decides == \E t \in Term : Accept(t) \/ RejectByHand(t) \/ AddByHand(t)

VocabNext ==
  \/ Propose \/ Discovers \/ Promotes("page") \/ Decides \/ TagPass \/ TaggerEnds
  \/ \E x \in Text : Judge(x)
  \/ \E a \in Actor : EndEarly(a)

VocabSpec == VocabInit /\ [][VocabNext]_vocabVars

\* What has been begun goes on, and the tagger comes round whenever
\* it may start again and again.
VocabFairSpec ==
  /\ VocabSpec
  /\ SF_vocabVars(TagPass)
  /\ WF_vocabVars(Discovers) /\ WF_vocabVars(Promotes("page"))

------------------------------------------------------------------------------
(* Properties.                                                             *)

VocabTypeOK ==
  /\ mode \in Modes /\ entries \in [Term -> Nat]
  /\ candidacy \in [Term -> {"unseen", "pending", "promoted", "rejected"}]
  /\ tags \in [Text -> SUBSET Term] /\ examined \subseteq Text
  /\ opinion \in [Text -> [says : BOOLEAN, tags : SUBSET Term]]
  /\ does \in [Actor -> {"idle", "reading", "loading", "deciding", "reexamining"} \cup Term]
  /\ \A a \in Actor : does[a] \in Term => does[a] \in Entries
  /\ queue \in [Actor -> SUBSET Term] /\ knows \in [Actor -> SUBSET Entries]
  /\ tagger \in [step : {"idle", "reading", "writing", "marking"}, knows : SUBSET Entries,
                 rows : SUBSET Text, had : [Text -> SUBSET Term]]
  /\ ends \in 0 .. MaxEnds

\* A candidate that is called promoted has its entry, wherever a promotion is cut off.
PromotedHasEntry == \A t \in Term : candidacy[t] = "promoted" => t \in Entries

\* discover.ts:532, "It stays on the record, so it is not re-proposed": whoever decides
\* and whatever a pass has read before, nobody is asked a second time.
NobodyIsAskedTwice ==
  [][\A t \in Term : candidacy[t] \in {"promoted", "rejected"} => candidacy'[t] # "pending"]_vocabVars

\* A technology has one entry, though a promotion is cut off between the entry and the
\* decision and the candidate is read again.
OneEntryPerTerm == \A t \in Term : entries[t] <= 1
AloneOneEntry == mode = "alone" => OneEntryPerTerm

\* tagstacks.ts:195, the judgement of a model "must not be overwritten" by a match.
JudgementStands == \A x \in Text : opinion[x].says => opinion[x].tags \subseteq tags[x]
AloneJudgementStands == mode # "all" => JudgementStands

\* What was decided about a term and judged about a story is not undone by the rest:
\* the entry of a promotion is there, once, and the tags of a model stay.
VocabIsSound == PromotedHasEntry /\ AloneOneEntry /\ AloneJudgementStands

\* discover.ts:464: the stories that name an entry are tagged with it, also those that
\* were examined before it came, unless a model has said what they are about since.
AllIsTagged ==
  \A x \in Text : opinion[x].says \/ NamedIn[x] \cap Entries \subseteq tags[x]
AloneAllIsTagged == []<>(mode # "all" /\ ends = 0 => AllIsTagged)

\* The same with the job, the page and the tagger at work at once.
EntriesAreTagged == []<>(ends = 0 => AllIsTagged)

=============================================================================
