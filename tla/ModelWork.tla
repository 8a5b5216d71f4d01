------------------------------ MODULE ModelWork ------------------------------
(***************************************************************************)
(* The process job after deduplication: src/process/classify.ts and        *)
(* src/process/score.ts put batches of stories to a model, and llmCall of  *)
(* src/llm/router.ts answers from its cache or goes along a chain of       *)
(* providers, whose limits src/llm/budgets.ts learns from what they say.   *)
(*                                                                         *)
(* One process job runs at a time; other jobs call the same providers.     *)
(* Each request with the record of its outcome is a step, and so is each   *)
(* UPDATE of a story.  Times are abstracted to whether they have passed.   *)
(***************************************************************************)
EXTENDS Integers, Sequences, FiniteSets, SequencesExt

CONSTANTS
  Oldest,         \* the stories, a sequence by collected_at
  Technical,      \* those a model takes for technology
  Big,            \* those that the cheap model scores above the threshold
  Provider,
  ChainOf,        \* ChainOf[call]: the providers to try, in this order
  Shared,         \* providers that another job calls too
  NoStory,        \* an index that nobody sent
  PerRun, PerCall,\* 100 and the batch size
  MaxPartial,     \* bound: answers in the cache that are not about what was asked
  MaxDeaths       \* bound: jobs that die

Stories == Range(Oldest)
Call == {"classify", "triage", "critical"}

ASSUME WorkAssumption ==
  /\ IsInjective(Oldest) /\ Technical \subseteq Stories /\ Big \subseteq Stories
  /\ ChainOf \in [Call -> Seq(Provider)] /\ Shared \subseteq Provider
  /\ NoStory \notin Stories
  /\ PerRun \in Nat \ {0} /\ PerCall \in Nat \ {0}
  /\ MaxPartial \in Nat /\ MaxDeaths \in Nat

VARIABLES
  \* stories: is_tech and importance, importance_by.
  progress,       \* "absent", "new", "tech", "other" or "scored"
  by,
  answers,        \* llm_cache
  \* provider_budgets.
  flagged,        \* health is not 'healthy'
  resting,        \* retry_after is still to come
  spent,          \* nothing remains in a window that is still open
  \* The job.
  doing,          \* what it does next
  call,           \* the call it makes
  pending, batch, \* the stories it has read, and those it is at
  asked,          \* those of the call
  usable, tried,  \* the providers that the budgets let it try, and has tried
  reply,          \* the stories that the answer speaks of, and NoStory
  scores,         \* what triage spoke of and is not written yet
  \* The world around.
  cooling,        \* providers that refuse whoever calls them
  elsewhere,      \* providers that another job is waiting for
  deaths

budget  == <<flagged, resting, spent>>
worker  == <<doing, call, pending, batch, asked, usable, tried, reply, scores>>
outside == <<cooling, elsewhere, deaths>>
workVars == <<progress, by, answers, budget, worker, outside>>

NewOnes == {s \in Stories : progress[s] = "new"}
Unscored == {s \in Stories : progress[s] = "tech"}

\* The first n of S, and the last n.
Before(s, t) == \E i, j \in DOMAIN Oldest : i < j /\ Oldest[i] = s /\ Oldest[j] = t
Eldest(S, n) == {s \in S : Cardinality({t \in S : Before(t, s)}) < n}
Newest(S, n) == {s \in S : Cardinality({t \in S : Before(s, t)}) < n}

\* A mutant, and what the comment above isUsable tells of: the flag alone.
IsHealthy(p) == ~flagged[p]
IsUsable(p) == ~resting[p] /\ ~spent[p]

Cached == {a \in answers : a.call = call /\ a.asked = asked}

WorkInit ==
  /\ progress = [s \in Stories |-> "absent"] /\ by = [s \in Stories |-> "none"]
  /\ answers = {}
  /\ flagged = [p \in Provider |-> FALSE] /\ resting = [p \in Provider |-> FALSE]
  /\ spent = [p \in Provider |-> FALSE]
  /\ doing = "idle" /\ call = "classify" /\ pending = {} /\ batch = {} /\ asked = {}
  /\ usable = {} /\ tried = {} /\ reply = {} /\ scores = {}
  /\ cooling = {} /\ elsewhere = {} /\ deaths = 0

------------------------------------------------------------------------------
(* The batches of a run.                                                   *)

\* classifyPending reads.
Begin ==
  /\ doing = "idle"
  /\ doing' = "next" /\ call' = "classify" /\ pending' = Eldest(NewOnes, PerRun)
  /\ UNCHANGED <<progress, by, answers, budget, batch, asked, usable, tried, reply, scores, outside>>

NextBatch ==
  /\ doing = "next" /\ pending # {}
  /\ batch' = IF call = "classify" THEN Eldest(pending, PerCall) ELSE Newest(pending, PerCall)
  /\ asked' = batch' /\ pending' = pending \ batch'
  /\ doing' = "looking"
  /\ UNCHANGED <<progress, by, answers, budget, call, usable, tried, reply, scores, outside>>

\* classifyPending is over and scoreUnscored reads, or the job is done.
NextStage ==
  /\ doing = "next" /\ pending = {}
  /\ IF call = "classify"
       THEN call' = "triage" /\ pending' = Newest(Unscored, PerRun) /\ UNCHANGED doing
       ELSE doing' = "idle" /\ UNCHANGED <<call, pending>>
  /\ UNCHANGED <<progress, by, answers, budget, batch, asked, usable, tried, reply, scores, outside>>

------------------------------------------------------------------------------
(* llmCall.                                                                *)

LookInCache ==
  /\ doing = "looking"
  /\ IF Cached # {}
       THEN (\E a \in Cached : reply' = a.reply) /\ doing' = "using" /\ UNCHANGED usable
       ELSE usable' = {p \in Provider : IsUsable(p)} /\ doing' = "asking" /\ UNCHANGED reply
  /\ tried' = {}
  /\ UNCHANGED <<progress, by, answers, budget, call, pending, batch, asked, scores, outside>>

\* The providers of the chain that are left, and whose turn it is.
Left == Range(ChainOf[call]) \cap (usable \ tried)
IsFirst(p) ==
  \E i \in DOMAIN ChainOf[call] :
    ChainOf[call][i] = p /\ \A j \in 1 .. i - 1 : ChainOf[call][j] \notin Left
Asks(p) == doing = "asking" /\ p \in Left /\ IsFirst(p)

\* recordUsage.
RecordUsage(p) ==
  /\ \E none \in BOOLEAN :
       spent' = [spent EXCEPT ![p] = none] /\ flagged' = [flagged EXCEPT ![p] = none]
  /\ resting' = [resting EXCEPT ![p] = FALSE]

\* A valid answer, of which the schema asks neither that it speaks of every item nor that
\* it speaks of no other.  An index that nobody sent is passed over, unless triage gives
\* it a score above the threshold.
Answer(p) ==
  /\ Asks(p) /\ p \notin cooling
  /\ RecordUsage(p)
  /\ \E said \in SUBSET (asked \cup IF call = "triage" THEN {NoStory} ELSE {}) :
       /\ said = asked \/ Cardinality({a \in answers : a.reply # a.asked}) < MaxPartial
       /\ reply' = said
       /\ answers' = answers \cup {[call |-> call, asked |-> asked, reply |-> said]}
  /\ doing' = "using"
  /\ UNCHANGED <<progress, by, call, pending, batch, asked, usable, tried, scores, outside>>

\* Output that is no JSON, or not of the schema.
Babble(p) ==
  /\ Asks(p) /\ p \notin cooling
  /\ RecordUsage(p)
  /\ tried' = tried \cup {p}
  /\ UNCHANGED <<progress, by, answers, doing, call, pending, batch, asked, usable, reply, scores,
                 outside>>

\* recordRateLimit and recordFailure.
RecordLimit(p) ==
  /\ flagged' = [flagged EXCEPT ![p] = TRUE] /\ resting' = [resting EXCEPT ![p] = TRUE]
  /\ UNCHANGED spent

\* 429: the provider names a time to stay away.
Limit(p) ==
  /\ Asks(p)
  /\ RecordLimit(p)
  /\ cooling' = cooling \cup {p} /\ tried' = tried \cup {p}
  /\ UNCHANGED <<progress, by, answers, doing, call, pending, batch, asked, usable,
                 reply, scores, elsewhere, deaths>>

\* Any other error.
Break(p) ==
  /\ Asks(p) /\ p \notin cooling
  /\ RecordLimit(p)
  /\ tried' = tried \cup {p}
  /\ UNCHANGED <<progress, by, answers, doing, call, pending, batch, asked,
                 usable, reply, scores, outside>>

\* The chain is at its end: the batch waits for the next run.  Without Claude the
\* scores of triage stand.
Defer ==
  /\ doing = "asking" /\ Left = {}
  /\ doing' = IF call = "critical" THEN "scoring" ELSE "next"
  /\ UNCHANGED <<progress, by, answers, budget, call, pending, batch, asked, usable, tried,
                 reply, scores, outside>>

------------------------------------------------------------------------------
(* What the job does with an answer.                                       *)

\* One story after the other, in the order of the answer.
ApplyClassification ==
  /\ doing = "using" /\ call = "classify"
  /\ IF reply = {} THEN doing' = "next" /\ UNCHANGED <<progress, reply>>
     ELSE \E s \in reply :
          /\ progress' = [progress EXCEPT ![s] = IF s \in Technical THEN "tech" ELSE "other"]
          /\ reply' = reply \ {s} /\ UNCHANGED doing
  /\ UNCHANGED <<by, answers, budget, call, pending, batch, asked, usable, tried, scores, outside>>

\* The job dies or throws.
Ends ==
  /\ doing' = "idle" /\ pending' = {} /\ batch' = {} /\ asked' = {} /\ usable' = {}
  /\ tried' = {} /\ reply' = {} /\ scores' = {}
  /\ UNCHANGED <<progress, by, answers, budget, call, cooling, elsewhere>>

\* What triage flags has to be in the batch: batch[idx]! is undefined otherwise, and the
\* job throws after its answer has been cached.
EscalateStray ==
  /\ doing = "using" /\ call = "triage" /\ NoStory \in reply
  /\ Ends /\ UNCHANGED deaths

\* What triage flags goes to Claude in one call.
Escalate ==
  /\ doing = "using" /\ call = "triage" /\ NoStory \notin reply
  /\ scores' = reply /\ reply' = {}
  /\ IF reply \cap Big # {}
       THEN call' = "critical" /\ asked' = reply \cap Big /\ doing' = "looking"
       ELSE doing' = "scoring" /\ UNCHANGED <<call, asked>>
  /\ UNCHANGED <<progress, by, answers, budget, pending, batch, usable, tried, outside>>

Rescore ==
  /\ doing = "using" /\ call = "critical" /\ doing' = "scoring"
  /\ UNCHANGED <<progress, by, answers, budget, call, pending, batch, asked, usable, tried,
                 reply, scores, outside>>

\* A mutant: what was to be escalated counts as rescored.
ScoreAsAsked ==
  /\ doing = "scoring"
  /\ \E s \in scores :
       /\ progress' = [progress EXCEPT ![s] = "scored"]
       /\ by' = [by EXCEPT ![s] = IF s \in Big THEN "claude" ELSE "triage"]
       /\ scores' = scores \ {s}
  /\ UNCHANGED <<answers, budget, doing, call, pending, batch, asked, usable, tried, reply, outside>>

\* applyScores, for each story that triage spoke of.
ApplyScore ==
  /\ doing = "scoring"
  /\ \E s \in scores :
       /\ progress' = [progress EXCEPT ![s] = "scored"]
       /\ by' = [by EXCEPT ![s] = IF s \in reply THEN "claude" ELSE "triage"]
       /\ scores' = scores \ {s}
  /\ UNCHANGED <<answers, budget, doing, call, pending, batch, asked, usable, tried, reply, outside>>

EndScoring ==
  /\ doing = "scoring" /\ scores = {}
  /\ doing' = "next" /\ call' = "triage" /\ reply' = {}
  /\ UNCHANGED <<progress, by, answers, budget, pending, batch, asked, usable, tried, scores, outside>>

Die ==
  /\ doing # "idle" /\ deaths < MaxDeaths
  /\ deaths' = deaths + 1
  /\ Ends

------------------------------------------------------------------------------
(* The world around.                                                       *)

Collect(s) ==
  /\ progress[s] = "absent" /\ \A t \in Stories : Before(t, s) => progress[t] # "absent"
  /\ progress' = [progress EXCEPT ![s] = "new"]
  /\ UNCHANGED <<by, answers, budget, worker, outside>>

\* retry_after is past, and with it the time the provider named.
RestEnds(p) ==
  /\ resting[p] \/ p \in cooling
  /\ resting' = [resting EXCEPT ![p] = FALSE] /\ cooling' = cooling \ {p}
  /\ UNCHANGED <<progress, by, answers, flagged, spent, worker, elsewhere, deaths>>

WindowEnds(p) ==
  /\ spent[p] /\ spent' = [spent EXCEPT ![p] = FALSE]
  /\ UNCHANGED <<progress, by, answers, flagged, resting, worker, outside>>

\* Another job asks a provider, and has its answer or a 429.
AskElsewhere(p) ==
  /\ p \in Shared \ elsewhere /\ IsUsable(p)
  /\ elsewhere' = elsewhere \cup {p}
  /\ UNCHANGED <<progress, by, answers, budget, worker, cooling, deaths>>

AnswerElsewhere(p) ==
  /\ p \in elsewhere
  /\ elsewhere' = elsewhere \ {p}
  /\ \/ RecordUsage(p) /\ UNCHANGED cooling
     \/ RecordLimit(p) /\ cooling' = cooling \cup {p}
  /\ UNCHANGED <<progress, by, answers, worker, deaths>>

ProcessJob ==
  \/ Begin \/ NextBatch \/ NextStage \/ LookInCache \/ Defer
  \/ ApplyClassification \/ EscalateStray \/ Escalate \/ Rescore \/ ApplyScore \/ EndScoring
  \/ \E p \in Provider : Answer(p) \/ Babble(p) \/ Limit(p) \/ Break(p)

WorkNext ==
  \/ ProcessJob \/ Die
  \/ \E s \in Stories : Collect(s)
  \/ \E p \in Provider : RestEnds(p) \/ WindowEnds(p) \/ AskElsewhere(p) \/ AnswerElsewhere(p)

WorkSpec == WorkInit /\ [][WorkNext]_workVars

\* Time passes, jobs run, and a model that is asked again and again answers at last.
AnswerTo(c) == call = c /\ \E p \in Provider : Answer(p)

WorkFairSpec ==
  /\ WorkSpec /\ WF_workVars(ProcessJob)
  /\ \A c \in {"classify", "triage"} : SF_workVars(AnswerTo(c))
  /\ \A p \in Provider : WF_workVars(RestEnds(p)) /\ WF_workVars(WindowEnds(p))

------------------------------------------------------------------------------
(* Properties.                                                             *)

WorkTypeOK ==
  /\ progress \in [Stories -> {"absent", "new", "tech", "other", "scored"}]
  /\ by \in [Stories -> {"none", "triage", "claude"}]
  /\ answers \subseteq [call : Call, asked : SUBSET Stories, reply : SUBSET (Stories \cup {NoStory})]
  /\ flagged \in [Provider -> BOOLEAN] /\ resting \in [Provider -> BOOLEAN]
  /\ spent \in [Provider -> BOOLEAN]
  /\ doing \in {"idle", "next", "looking", "asking", "using", "scoring"} /\ call \in Call
  /\ pending \subseteq Stories /\ batch \subseteq Stories /\ asked \subseteq batch
  /\ reply \subseteq asked \cup {NoStory} /\ scores \subseteq batch
  /\ usable \subseteq Provider /\ tried \subseteq usable
  /\ cooling \subseteq Provider /\ elsewhere \subseteq Shared /\ deaths \in 0 .. MaxDeaths

\* score.ts:142, "Without this the provenance lies": a score is put down to Claude
\* only when an answer of Claude speaks of the story.
ClaudeMeansClaude ==
  \A s \in Stories : by[s] = "claude" =>
    \E a \in answers : a.call = "critical" /\ s \in a.reply

\* A provider that named a time to stay away is not asked before it is over, unless
\* another job has written over it.
RespectsCooldown ==
  [][\A p \in Provider \ Shared : p \in cooling /\ Asks(p) => p \notin tried']_workVars

\* An answer that the cache keeps (router.ts:84) and that brings its batch no further: about
\* none of the stories it was asked about, or triage of one that nobody sent.
Blocks(a) ==
  \/ a.call = "classify" /\ a.reply = {}
  \/ a.call = "triage" /\ (a.reply = {} \/ NoStory \in a.reply)

\* "Nothing blocks.  Unprocessed rows retry next cycle" (router.ts:105): whatever a provider
\* refuses or leaves out, and whenever a job dies, every story is classified and what is
\* technology is scored in the end; what alone can keep one back is such an answer.
EveryStoryIsScored ==
  [](\A a \in answers : ~Blocks(a)) => []<>(NewOnes = {} /\ Unscored = {})

\* budgets.ts:28, "A 429 marks a provider unhealthy FOR THE REST OF ITS WINDOW".
CooldownStands ==
  [][\A p \in Provider : resting[p] /\ p \in cooling /\ p \in cooling' => resting'[p]]_workVars

=============================================================================
