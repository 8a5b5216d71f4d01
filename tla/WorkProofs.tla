------------------------------ MODULE WorkProofs ------------------------------
(***************************************************************************)
(* Two jobs that put stories to a model: whatever providers refuse, and    *)
(* wherever a job dies, scores say who gave them and the ledger of names   *)
(* says what stories carry.                                                *)
(***************************************************************************)
EXTENDS MCSystem, FiniteSetTheorems, TLAPS

------------------------------------------------------------------------------
(* Scores, src/process/score.ts.                                           *)

ClaudeSaid == UNION {a.reply : a \in {b \in answers : b.call = "critical"}}

\* While a batch is scored, what counts as rescored is what Claude spoke of: nothing, until
\* there is an answer.
ScoreInv ==
  /\ by \in [Stories -> {"none", "triage", "claude"}]
  /\ \A s \in Stories : by[s] = "claude" => s \in ClaudeSaid
  /\ doing = "next" => call # "critical"
  /\ call = "critical" /\ doing \in {"looking", "asking"} => reply = {}
  /\ doing = "scoring" \/ (doing = "using" /\ call = "critical") => reply \subseteq ClaudeSaid

LEMMA ScoreStep == ScoreInv /\ [WorkNext]_workVars => ScoreInv'
<1> SUFFICES ASSUME ScoreInv, [WorkNext]_workVars PROVE ScoreInv'
  OBVIOUS
<1> USE DEF ScoreInv
<1>1. CASE UNCHANGED <<by, answers, doing, call, reply>>
  BY <1>1 DEF ClaudeSaid
<1>2. CASE Begin \/ NextStage \/ Die \/ EscalateStray
  BY <1>2 DEF Begin, NextStage, Die, EscalateStray, Ends, ClaudeSaid
<1>3. CASE NextBatch
  BY <1>3 DEF NextBatch, ClaudeSaid
<1>4. CASE LookInCache
  <2>1. UNCHANGED <<by, answers, call>> /\ doing = "looking"
    BY <1>4 DEF LookInCache
  <2>2. CASE doing' = "asking" /\ UNCHANGED reply
    BY <2>1, <2>2 DEF ClaudeSaid
  <2>3. ASSUME NEW a \in Cached, doing' = "using", reply' = a.reply PROVE ScoreInv'
    BY <2>1, <2>3 DEF Cached, ClaudeSaid
  <2> QED
    BY <1>4, <2>2, <2>3 DEF LookInCache
<1>5. CASE Defer
  BY <1>5 DEF Defer, ClaudeSaid
<1>6. CASE ApplyClassification
  BY <1>6 DEF ApplyClassification, ClaudeSaid
<1>7. CASE Escalate
  BY <1>7 DEF Escalate, ClaudeSaid
<1>8. CASE Rescore \/ EndScoring
  BY <1>8 DEF Rescore, EndScoring, ClaudeSaid
<1>9. CASE ApplyScore
  BY <1>9 DEF ApplyScore, ClaudeSaid
<1>10. ASSUME NEW p \in Provider, Answer(p) PROVE ScoreInv'
  <2>1. PICK said : /\ reply' = said
                    /\ answers' = answers \cup {[call |-> call, asked |-> asked, reply |-> said]}
    BY <1>10 DEF Answer
  <2>2. UNCHANGED <<by, call>> /\ doing' = "using"
    BY <1>10 DEF Answer
  <2>3. ClaudeSaid \subseteq ClaudeSaid' /\ (call = "critical" => said \subseteq ClaudeSaid')
    BY <2>1 DEF ClaudeSaid
  <2> QED
    BY <2>1, <2>2, <2>3
<1>11. ASSUME NEW p \in Provider, Babble(p) \/ Limit(p) \/ Break(p)
       PROVE  UNCHANGED <<by, answers, doing, call, reply>>
  BY <1>11 DEF Babble, Limit, Break
<1>12. ASSUME NEW s \in Stories, Collect(s) PROVE UNCHANGED <<by, answers, doing, call, reply>>
  BY <1>12 DEF Collect, worker
<1>13. ASSUME NEW p \in Provider,
              RestEnds(p) \/ WindowEnds(p) \/ AskElsewhere(p) \/ AnswerElsewhere(p)
       PROVE  UNCHANGED <<by, answers, doing, call, reply>>
  BY <1>13 DEF RestEnds, WindowEnds, AskElsewhere, AnswerElsewhere, worker
<1>14. CASE UNCHANGED workVars
  BY <1>1, <1>14 DEF workVars, worker
<1> QED
  BY <1>1, <1>2, <1>3, <1>4, <1>5, <1>6, <1>7, <1>8, <1>9, <1>10, <1>11, <1>12, <1>13, <1>14
  DEF WorkNext, ProcessJob

\* A score is put down to Claude only when an answer of Claude speaks of the story, though the
\* call is refused, cached, cut short or speaks of fewer (scoreBatch, applyScores).
THEOREM ClaudeIsNamedRightly == WorkSpec => []ClaudeMeansClaude
<1>1. WorkInit => ScoreInv
  BY DEF WorkInit, ScoreInv
<1>2. ScoreInv => ClaudeMeansClaude
  BY DEF ScoreInv, ClaudeMeansClaude, ClaudeSaid
<1> QED
  BY <1>1, <1>2, ScoreStep, PTL DEF WorkSpec

\* An answer speaks of what it was asked about, or triage of what was not, and nothing is left over of the batch before
\* when the next one is taken.
Beyond(c) == IF c = "triage" THEN {NoStory} ELSE {}
WorkTypes ==
  /\ WorkTypeOK
  /\ \A a \in answers : a.reply \subseteq a.asked \cup Beyond(a.call)
  /\ doing = "using" => reply \subseteq asked \cup Beyond(call)
  /\ doing \in {"idle", "next"} => reply = {} /\ scores = {}
  /\ doing \in {"looking", "asking"} => reply = {}
  /\ doing = "next" => call # "critical"
  /\ call # "critical" /\ doing # "scoring" => scores = {}

LEMMA WorkTypesBegin == WorkInit => WorkTypes
BY WorkAssumption DEF WorkInit, WorkTypes, WorkTypeOK, Call

LEMMA UsageIsTyped ==
  ASSUME NEW p \in Provider, RecordUsage(p) \/ RecordLimit(p),
         flagged \in [Provider -> BOOLEAN], resting \in [Provider -> BOOLEAN],
         spent \in [Provider -> BOOLEAN]
  PROVE  /\ flagged' \in [Provider -> BOOLEAN] /\ resting' \in [Provider -> BOOLEAN]
         /\ spent' \in [Provider -> BOOLEAN]
BY DEF RecordUsage, RecordLimit

LEMMA WorkTypesGoOn == WorkTypes /\ [WorkNext]_workVars => WorkTypes'
<1>. SUFFICES ASSUME WorkTypes, [WorkNext]_workVars PROVE WorkTypes'
  OBVIOUS
<1>. USE DEF WorkTypes, WorkTypeOK, budget, worker, outside
<1>1. CASE Begin
  <2>1. pending' \subseteq Stories
    BY <1>1 DEF Begin, Eldest, NewOnes
  <2>. QED BY <1>1, <2>1 DEF Begin, Call
<1>2. CASE NextBatch
  <2>1. batch' \subseteq pending
    BY <1>2 DEF NextBatch, Eldest, Newest
  <2>. QED BY <1>2, <2>1 DEF NextBatch
<1>3. CASE NextStage
  <2>1. pending' \subseteq Stories
    BY <1>3 DEF NextStage, Newest, Unscored
  <2>. QED BY <1>3, <2>1 DEF NextStage, Call
<1>4. CASE LookInCache
  <2>1. reply' \subseteq asked \cup {NoStory} /\ (doing' = "using" => reply' \subseteq asked \cup Beyond(call))
    <3>1. \A a \in Cached : a.reply \subseteq asked \cup Beyond(call)
      BY DEF Cached
    <3>. QED BY <1>4, <3>1 DEF LookInCache, Beyond
  <2>2. usable' \subseteq Provider
    BY <1>4 DEF LookInCache
  <2>3. doing' = "using" \/ (doing' = "asking" /\ reply' = reply)
    BY <1>4 DEF LookInCache
  <2>. QED BY <1>4, <2>1, <2>2, <2>3 DEF LookInCache
<1>5. CASE Defer
  BY <1>5 DEF Defer, Call
<1>6. CASE ApplyClassification
  <2>1. asked \subseteq Stories /\ (doing = "using" => reply \subseteq asked)
    BY <1>6 DEF ApplyClassification, Beyond
  <2>2. CASE reply = {}
    BY <1>6, <2>2 DEF ApplyClassification
  <2>3. CASE reply # {}
    <3>1. PICK s \in reply :
            /\ progress' = [progress EXCEPT ![s] = IF s \in Technical THEN "tech" ELSE "other"]
            /\ reply' = reply \ {s} /\ doing' = doing
      BY <1>6, <2>3 DEF ApplyClassification
    <3>2. progress' \in [Stories -> {"absent", "new", "tech", "other", "scored"}]
      BY <3>1
    <3>. QED BY <1>6, <2>1, <3>1, <3>2 DEF ApplyClassification
  <2>. QED BY <2>2, <2>3
<1>7. CASE Escalate
  <2>1. reply \subseteq batch
    BY <1>7, WorkAssumption DEF Escalate, Beyond
  <2>. QED BY <1>7, <2>1 DEF Escalate, Call
<1>8. CASE Rescore
  BY <1>8 DEF Rescore
<1>9. CASE ApplyScore
  <2>1. PICK s \in scores :
          /\ progress' = [progress EXCEPT ![s] = "scored"]
          /\ by' = [by EXCEPT ![s] = IF s \in reply THEN "claude" ELSE "triage"]
          /\ scores' = scores \ {s}
    BY <1>9 DEF ApplyScore
  <2>2. progress' \in [Stories -> {"absent", "new", "tech", "other", "scored"}]
        /\ by' \in [Stories -> {"none", "triage", "claude"}]
    BY <2>1
  <2>. QED BY <1>9, <2>1, <2>2 DEF ApplyScore
<1>10. CASE EndScoring
  BY <1>10 DEF EndScoring, Call
<1>11. ASSUME NEW p \in Provider, Answer(p) PROVE WorkTypes'
  <2>1. PICK said \in SUBSET (asked \cup Beyond(call)) :
          /\ reply' = said
          /\ answers' = answers \cup {[call |-> call, asked |-> asked, reply |-> said]}
    BY <1>11 DEF Answer, Beyond
  <2>2. /\ answers' \subseteq
             [call : Call, asked : SUBSET Stories, reply : SUBSET (Stories \cup {NoStory})]
        /\ \A a \in answers' : a.reply \subseteq a.asked \cup Beyond(a.call)
    <3>1. said \subseteq Stories \cup {NoStory} /\ asked \subseteq Stories
      BY DEF Beyond
    <3>. QED BY <2>1, <3>1
  <2>3. /\ flagged' \in [Provider -> BOOLEAN] /\ resting' \in [Provider -> BOOLEAN]
        /\ spent' \in [Provider -> BOOLEAN]
    BY <1>11, UsageIsTyped DEF Answer
  <2>4. doing = "asking" /\ doing' = "using"
    BY <1>11 DEF Answer, Asks
  <2>. QED BY <1>11, <2>1, <2>2, <2>3, <2>4 DEF Answer, Beyond
<1>12. ASSUME NEW p \in Provider, Babble(p) \/ Limit(p) \/ Break(p) PROVE WorkTypes'
  <2>1. /\ flagged' \in [Provider -> BOOLEAN] /\ resting' \in [Provider -> BOOLEAN]
        /\ spent' \in [Provider -> BOOLEAN]
    BY <1>12, UsageIsTyped DEF Babble, Limit, Break
  <2>2. p \in usable /\ tried' \subseteq usable /\ cooling' \subseteq Provider
    BY <1>12 DEF Babble, Limit, Break, Asks, Left
  <2>3. UNCHANGED <<progress, by, answers, doing, call, pending, batch, asked, usable, reply,
                    scores, elsewhere, deaths>>
    BY <1>12 DEF Babble, Limit, Break
  <2>. QED BY <2>1, <2>2, <2>3
<1>13. CASE Die \/ EscalateStray
  BY <1>13, WorkAssumption DEF Die, EscalateStray, Ends
<1>14. ASSUME NEW s \in Stories, Collect(s) PROVE WorkTypes'
  BY <1>14 DEF Collect
<1>15. ASSUME NEW p \in Provider, RestEnds(p) \/ WindowEnds(p) \/ AskElsewhere(p)
       PROVE  WorkTypes'
  BY <1>15 DEF RestEnds, WindowEnds, AskElsewhere
<1>16. ASSUME NEW p \in Provider, AnswerElsewhere(p) PROVE WorkTypes'
  <2>1. /\ flagged' \in [Provider -> BOOLEAN] /\ resting' \in [Provider -> BOOLEAN]
        /\ spent' \in [Provider -> BOOLEAN]
    BY <1>16, UsageIsTyped DEF AnswerElsewhere
  <2>. QED BY <1>16, <2>1 DEF AnswerElsewhere
<1>17. CASE UNCHANGED workVars
  BY <1>17 DEF workVars
<1>. QED
  BY <1>1, <1>2, <1>3, <1>4, <1>5, <1>6, <1>7, <1>8, <1>9, <1>10, <1>11, <1>12, <1>13, <1>14,
     <1>15, <1>16, <1>17
  DEF WorkNext, ProcessJob

------------------------------------------------------------------------------
(* Names, src/process/emerging.ts.                                         *)

Finds == Article \X Name
InHand == at \in {"sighting", "carrying"}

LedgerTypes ==
  /\ ledger \in [Name -> {"none", "candidate", "tracked"}]
  /\ sightings \subseteq [name : Name, article : Article, paper : Paper]
  /\ first \in [Name -> Nat]
  /\ counted \in [Name -> [sources : Nat, speakers : Nat]]
PassTypes ==
  /\ waiting \subseteq Article /\ reading \subseteq Article /\ collected \subseteq Article
  /\ finds \subseteq Finds /\ scanned \subseteq Article
  /\ answered \subseteq [batch : SUBSET Article, said : SUBSET Article]
  /\ DOMAIN find = {"a", "n", "fresh", "left"}
  /\ InHand => find.a \in Article /\ find.n \in Name /\ find.left \subseteq Paper

\* The numbers of a row lag behind its sightings and are never ahead of them.
CountInv ==
  \A n \in Name :
    /\ IsFiniteSet(Papers(n))
    /\ counted[n].sources <= Cardinality(Papers(n))
    /\ counted[n].speakers <= Cardinality(Papers(n) \cap Speakers)

\* What is left of a batch to be sighted is what the pass has still in hand.
Seen(n, a) == Sighting(n, a, PaperOf[a]) \in sightings
ReadInv ==
  Thorough =>
    /\ \A x \in answered : x.said = x.batch
    /\ at \in {"recording", "sighting", "carrying"} => \A a \in reading : \A n \in Mentions[a] :
         Seen(n, a) \/ <<a, n>> \in finds \/ (at = "sighting" /\ find.a = a /\ find.n = n)

\* A name in hand has been dated by the story it was found in.
FirstInv == InHand => 0 < first[find.n] /\ first[find.n] <= find.a

NamesInv == LedgerTypes /\ PassTypes /\ CountInv /\ ReadInv /\ FirstInv /\ NamesAreEarned

LEMMA ArticleNat == Article \subseteq Nat \ {0}
BY NamesAssumption DEF Article

LEMMA BatchType == PassTypes => Batch \subseteq Article
BY DEF PassTypes, Batch

\* The first story to name something is no later than the others.
LEMMA EarliestIs ==
  ASSUME NEW n \in Name, NEW a \in Article, LedgerTypes
  PROVE  /\ Earliest(n, a) \in Nat /\ 0 < Earliest(n, a) /\ Earliest(n, a) <= a
         /\ first[n] # 0 => Earliest(n, a) <= first[n]
<1>1. a \in Nat \ {0} /\ first[n] \in Nat
  BY ArticleNat DEF LedgerTypes
<1> QED
  BY <1>1 DEF Earliest

LEMMA NamesTypes ==
  LedgerTypes /\ PassTypes /\ CountInv /\ [NamesNext]_namesVars => LedgerTypes' /\ PassTypes'
<1> SUFFICES ASSUME LedgerTypes, PassTypes, CountInv, [NamesNext]_namesVars
             PROVE  LedgerTypes' /\ PassTypes'
  OBVIOUS
<1>1. CASE Unscanned
  BY <1>1 DEF Unscanned, LedgerTypes, PassTypes, InHand
<1>2. CASE Read
  <2>2. LedgerTypes'
    BY <1>2 DEF Read, LedgerTypes
  <2>1. PICK said \in Says :
          /\ finds' = {f \in said \X Name : f[2] \in Mentions[f[1]]}
          /\ answered' = answered \cup {[batch |-> Batch, said |-> said]}
    BY <1>2 DEF Read
  <2>3. said \subseteq Article
    <3> DEFINE kept == {x \in answered : x.batch = Batch}
    <3>1. CASE kept # {}
      <4>1. PICK x \in kept : said = x.said
        BY <3>1 DEF Says
      <4> QED
        BY <4>1 DEF PassTypes
    <3>2. CASE kept = {}
      <4>1. said \subseteq Batch
        BY <3>2 DEF Says
      <4> QED
        BY <4>1, BatchType
    <3> QED
      BY <3>1, <3>2
  <2>4. finds' \subseteq Finds
    BY <2>1, <2>3 DEF Finds
  <2>5. answered' \subseteq [batch : SUBSET Article, said : SUBSET Article]
    BY <2>1, <2>3, BatchType DEF PassTypes
  <2> QED
    BY <1>2, <2>2, <2>4, <2>5, BatchType DEF Read, PassTypes, InHand
<1>3. CASE Refused
  BY <1>3, BatchType DEF Refused, LedgerTypes, PassTypes, InHand
<1>4. CASE RecordName
  <2>1. PICK f \in finds :
          /\ finds' = finds \ {f} /\ find' = [NoFind EXCEPT !.a = f[1], !.n = f[2]]
          /\ ledger' = [ledger EXCEPT ![f[2]] = IF @ = "none" THEN "candidate" ELSE @]
          /\ first' = [first EXCEPT ![f[2]] = Earliest(f[2], f[1])]
    BY <1>4 DEF RecordName
  <2>2. f[1] \in Article /\ f[2] \in Name
    BY DEF PassTypes, Finds
  <2>3. first' \in [Name -> Nat]
    <3>1. Earliest(f[2], f[1]) \in Nat
      BY <2>2, EarliestIs
    <3> QED
      BY <2>1, <3>1 DEF LedgerTypes
  <2>4. ledger' \in [Name -> {"none", "candidate", "tracked"}]
    BY <2>1 DEF LedgerTypes
  <2>5. find'.a = f[1] /\ find'.n = f[2] /\ find'.left = {} /\ DOMAIN find' = DOMAIN NoFind
    BY <2>1 DEF NoFind
  <2> QED
    BY <1>4, <2>1, <2>2, <2>3, <2>4, <2>5 DEF RecordName, LedgerTypes, PassTypes, InHand, NoFind
<1>5. CASE Sight
  <2>1. find.a \in Article /\ find.n \in Name
    BY <1>5 DEF Sight, PassTypes, InHand
  <2>2. /\ find'.a = find.a /\ find'.n = find.n /\ find'.left \subseteq Paper
        /\ DOMAIN find' = DOMAIN find
    BY <1>5, <2>1, NamesAssumption DEF Sight, PassTypes
  <2>3. sightings' \subseteq [name : Name, article : Article, paper : Paper]
    BY <1>5, <2>1, NamesAssumption DEF Sight, Sighting, LedgerTypes
  <2> QED
    BY <1>5, <2>1, <2>2, <2>3 DEF Sight, LedgerTypes, PassTypes, InHand
<1>6. CASE CarriedBy
  <2>1. PICK p \in find.left : /\ sightings' = sightings \cup {Sighting(find.n, find.a, p)}
                               /\ find' = [find EXCEPT !.left = @ \ {p}]
    BY <1>6 DEF CarriedBy
  <2>2. find.a \in Article /\ find.n \in Name /\ find.left \subseteq Paper
    BY <1>6 DEF CarriedBy, PassTypes, InHand
  <2>3. /\ find'.a = find.a /\ find'.n = find.n /\ find'.left \subseteq Paper
        /\ DOMAIN find' = DOMAIN find
    BY <2>1, <2>2 DEF PassTypes
  <2>4. sightings' \subseteq [name : Name, article : Article, paper : Paper]
    BY <2>1, <2>2 DEF Sighting, LedgerTypes
  <2> QED
    BY <1>6, <2>2, <2>3, <2>4 DEF CarriedBy, LedgerTypes, PassTypes, InHand
<1>7. CASE Recount
  <2>1. counted' \in [Name -> [sources : Nat, speakers : Nat]]
    <3>1. CASE counted' = counted
      BY <3>1 DEF LedgerTypes
    <3>2. CASE counted' = [counted EXCEPT ![find.n] = Count(find.n)]
      <4>1. find.n \in Name
        BY <1>7 DEF Recount, PassTypes, InHand
      <4>2. IsFiniteSet(Papers(find.n)) /\ IsFiniteSet(Papers(find.n) \cap Speakers)
        BY <4>1, FS_Subset DEF CountInv
      <4>3. Count(find.n) \in [sources : Nat, speakers : Nat]
        BY <4>2, FS_CardinalityType DEF Count
      <4> QED
        BY <3>2, <4>3 DEF LedgerTypes
    <3> QED
      BY <1>7, <3>1, <3>2 DEF Recount
  <2> QED
    BY <1>7, <2>1 DEF Recount, LedgerTypes, PassTypes, InHand, NoFind
<1>8. CASE Stamp
  BY <1>8 DEF Stamp, LedgerTypes, PassTypes, InHand
<1>9. CASE ApplyGate
  BY <1>9 DEF ApplyGate, LedgerTypes, PassTypes, InHand
<1>10. CASE Falls \/ RecordFails
  BY <1>10 DEF Falls, RecordFails, PassEnds, LedgerTypes, PassTypes, InHand, NoFind
<1>11. ASSUME NEW a \in Article, Gather(a) \/ MergeInto(a) PROVE LedgerTypes' /\ PassTypes'
  BY <1>11 DEF Gather, MergeInto, pass, LedgerTypes, PassTypes, InHand
<1>12. CASE UNCHANGED namesVars
  BY <1>12 DEF namesVars, pass, LedgerTypes, PassTypes, InHand
<1> QED
  BY <1>1, <1>2, <1>3, <1>4, <1>5, <1>6, <1>7, <1>8, <1>9, <1>10, <1>11, <1>12
  DEF NamesNext, NamesPass

\* A sighting adds its paper to its name, and nothing else.
LEMMA PapersGrow ==
  ASSUME NEW n, NEW a, NEW p, sightings' = sightings \cup {Sighting(n, a, p)}, NEW m
  PROVE  Papers(m)' = IF m = n THEN Papers(m) \cup {p} ELSE Papers(m)
<1> DEFINE new == Sighting(n, a, p)
           old == {y \in sightings : y.name = m}
           all == {y \in sightings' : y.name = m}
<1>1. new.name = n /\ new.paper = p
  BY DEF Sighting
<1>2. all = IF m = n THEN old \cup {new} ELSE old
  BY <1>1
<1>3. Papers(m) = {y.paper : y \in old} /\ Papers(m)' = {y.paper : y \in all}
  BY DEF Papers
<1> HIDE DEF new, old, all
<1>4. CASE m = n
  <2>1. {y.paper : y \in old \cup {new}} = {y.paper : y \in old} \cup {new.paper}
    OBVIOUS
  <2> QED
    BY <1>1, <1>2, <1>3, <1>4, <2>1
<1> QED
  BY <1>2, <1>3, <1>4

\* Papers become more, and the numbers of a row are what they were when it was counted.
LEMMA CountGrows ==
  ASSUME LedgerTypes, CountInv, NEW n, NEW a, NEW p,
         sightings' = sightings \cup {Sighting(n, a, p)}, counted' = counted
  PROVE  CountInv' /\ \A m \in Name : Papers(m) \subseteq Papers(m)'
<1>1. \A m \in Name : Papers(m) \subseteq Papers(m)'
  BY PapersGrow
<1>2. ASSUME NEW m \in Name
      PROVE  /\ IsFiniteSet(Papers(m)') /\ counted[m].sources <= Cardinality(Papers(m)')
             /\ counted[m].speakers <= Cardinality(Papers(m)' \cap Speakers)
  <2>1. IsFiniteSet(Papers(m))
    BY DEF CountInv
  <2>2. IsFiniteSet(Papers(m)')
    <3>1. Papers(m)' = Papers(m) \/ Papers(m)' = Papers(m) \cup {p}
      BY PapersGrow
    <3> QED
      BY <2>1, <3>1, FS_AddElement
  <2>3. Cardinality(Papers(m)) <= Cardinality(Papers(m)')
    BY <1>1, <2>2, FS_Subset
  <2>4. IsFiniteSet(Papers(m)' \cap Speakers) /\ IsFiniteSet(Papers(m) \cap Speakers)
    BY <2>1, <2>2, FS_Subset
  <2>5. Cardinality(Papers(m) \cap Speakers) <= Cardinality(Papers(m)' \cap Speakers)
    <3>1. Papers(m) \cap Speakers \subseteq Papers(m)' \cap Speakers
      BY <1>1
    <3> QED
      BY <2>4, <3>1, FS_Subset
  <2>6. /\ Cardinality(Papers(m)) \in Nat /\ Cardinality(Papers(m)') \in Nat
        /\ Cardinality(Papers(m) \cap Speakers) \in Nat
        /\ Cardinality(Papers(m)' \cap Speakers) \in Nat
    BY <2>1, <2>2, <2>4, FS_CardinalityType
  <2>7. counted[m].sources \in Nat /\ counted[m].speakers \in Nat
    BY DEF LedgerTypes
  <2>8. /\ counted[m].sources <= Cardinality(Papers(m))
        /\ counted[m].speakers <= Cardinality(Papers(m) \cap Speakers)
    BY DEF CountInv
  <2> QED
    BY <2>2, <2>3, <2>5, <2>6, <2>7, <2>8
<1> QED
  BY <1>1, <1>2 DEF CountInv

\* Most steps leave the sightings and the numbers as they are.
LEMMA CountStep ==
  ASSUME LedgerTypes, PassTypes, CountInv, [NamesNext]_namesVars
  PROVE  CountInv' /\ sightings \subseteq sightings' /\ \A m \in Name : Papers(m) \subseteq Papers(m)'
<1>1. CASE UNCHANGED <<sightings, counted>>
  <2>1. \A m \in Name : Papers(m)' = Papers(m)
    BY <1>1 DEF Papers
  <2> QED
    BY <1>1, <2>1 DEF CountInv
<1>2. CASE Sight
  BY <1>2, CountGrows DEF Sight
<1>3. CASE CarriedBy
  BY <1>3, CountGrows DEF CarriedBy
<1>4. CASE Recount
  <2>1. sightings' = sightings /\ \A m \in Name : Papers(m)' = Papers(m)
    BY <1>4 DEF Recount, Papers
  <2>2. find.n \in Name
    BY <1>4 DEF Recount, PassTypes, InHand
  <2>3. IsFiniteSet(Papers(find.n)) /\ IsFiniteSet(Papers(find.n) \cap Speakers)
    BY <2>2, FS_Subset DEF CountInv
  <2>4. Cardinality(Papers(find.n)) \in Nat /\ Cardinality(Papers(find.n) \cap Speakers) \in Nat
    BY <2>3, FS_CardinalityType
  <2>5. ASSUME NEW m \in Name
        PROVE  \/ counted'[m] = counted[m]
               \/ m = find.n /\ counted'[m] = Count(m)
    BY <1>4, <2>2 DEF Recount, LedgerTypes
  <2>6. ASSUME NEW m \in Name
        PROVE  /\ counted'[m].sources <= Cardinality(Papers(m))
               /\ counted'[m].speakers <= Cardinality(Papers(m) \cap Speakers)
    <3>1. CASE counted'[m] = counted[m]
      BY <3>1 DEF CountInv
    <3>2. CASE m = find.n /\ counted'[m] = Count(m)
      BY <2>4, <3>2 DEF Count
    <3> QED
      BY <2>5, <3>1, <3>2
  <2> QED
    BY <2>1, <2>6 DEF CountInv
<1> QED
  BY <1>1, <1>2, <1>3, <1>4
  DEF NamesNext, NamesPass, Unscanned, Read, Refused, RecordName, Stamp, ApplyGate, Falls,
      RecordFails, PassEnds, Gather, MergeInto, namesVars

\* A name is tracked by the gate, on numbers that its sightings bear out.
LEMMA TrackedStep ==
  ASSUME LedgerTypes, PassTypes, CountInv, TrackedOnEvidence, [NamesNext]_namesVars
  PROVE  TrackedOnEvidence'
<1> SUFFICES ASSUME NEW n \in Name, ledger'[n] = "tracked"
             PROVE  (Cardinality(Papers(n)) >= Corroboration \/ Papers(n) \cap Speakers # {})'
  BY DEF TrackedOnEvidence
<1>1. ledger[n] = "tracked" \/ (ApplyGate /\ Passes(n))
  <2>1. CASE ApplyGate
    BY <2>1 DEF ApplyGate
  <2>2. CASE RecordName
    <3>1. PICK f \in finds : ledger' = [ledger EXCEPT ![f[2]] = IF @ = "none" THEN "candidate" ELSE @]
      BY <2>2 DEF RecordName
    <3> QED
      BY <3>1 DEF LedgerTypes
  <2>3. CASE UNCHANGED ledger
    BY <2>3
  <2> QED
    BY <2>1, <2>2, <2>3
    DEF NamesNext, NamesPass, Unscanned, Read, Refused, Sight, CarriedBy, Recount, Stamp, Falls,
        RecordFails, PassEnds, Gather, MergeInto, namesVars
<1>2. IsFiniteSet(Papers(n)) /\ IsFiniteSet(Papers(n)') /\ Papers(n) \subseteq Papers(n)'
  BY CountStep DEF CountInv
<1>3. /\ Cardinality(Papers(n)) \in Nat /\ Cardinality(Papers(n)') \in Nat
      /\ Cardinality(Papers(n)) <= Cardinality(Papers(n)')
  BY <1>2, FS_CardinalityType, FS_Subset
<1>4. Cardinality(Papers(n)) >= Corroboration \/ Papers(n) \cap Speakers # {}
  <2>1. CASE ledger[n] = "tracked"
    BY <2>1 DEF TrackedOnEvidence
  <2>2. CASE Passes(n)
    <3>1. IsFiniteSet(Papers(n) \cap Speakers)
      BY <1>2, FS_Subset
    <3>2. CASE counted[n].sources >= Corroboration
      <4>1. counted[n].sources \in Nat /\ Corroboration \in Nat
        BY NamesAssumption DEF LedgerTypes
      <4>2. counted[n].sources <= Cardinality(Papers(n))
        BY DEF CountInv
      <4> QED
        BY <1>3, <3>2, <4>1, <4>2
    <3>3. CASE counted[n].speakers >= 1
      <4>1. counted[n].speakers \in Nat /\ counted[n].speakers <= Cardinality(Papers(n) \cap Speakers)
        BY DEF CountInv, LedgerTypes
      <4>2. Cardinality(Papers(n) \cap Speakers) \in Nat
        BY <3>1, FS_CardinalityType
      <4>3. Cardinality(Papers(n) \cap Speakers) # 0
        BY <3>3, <4>1, <4>2
      <4> QED
        BY <4>3, FS_EmptySet
    <3> QED
      BY <2>2, <3>2, <3>3 DEF Passes
  <2> QED
    BY <1>1, <2>1, <2>2
<1> QED
  BY <1>2, <1>3, <1>4, NamesAssumption

\* What a story names stays in hand until it is sighted.
LEMMA ReadStep ==
  ASSUME LedgerTypes, PassTypes, CountInv, ReadInv, [NamesNext]_namesVars
  PROVE  ReadInv'
<1> SUFFICES ASSUME Thorough
             PROVE  /\ \A x \in answered' : x.said = x.batch
                    /\ at' \in {"recording", "sighting", "carrying"} =>
                         \A a \in reading' : \A n \in Mentions[a] :
                           \/ Seen(n, a)' \/ <<a, n>> \in finds'
                           \/ (at' = "sighting" /\ find'.a = a /\ find'.n = n)
  BY DEF ReadInv
<1>0. /\ \A x \in answered : x.said = x.batch
      /\ at \in {"recording", "sighting", "carrying"} => \A a \in reading : \A n \in Mentions[a] :
           Seen(n, a) \/ <<a, n>> \in finds \/ (at = "sighting" /\ find.a = a /\ find.n = n)
  BY DEF ReadInv
<1>m. sightings \subseteq sightings' /\ \A n, a : Seen(n, a) => Seen(n, a)'
  BY CountStep DEF Seen
<1>1. CASE Read
  <2>1. PICK said \in Says :
          /\ finds' = {f \in said \X Name : f[2] \in Mentions[f[1]]}
          /\ answered' = answered \cup {[batch |-> Batch, said |-> said]}
    BY <1>1 DEF Read
  <2>2. said = Batch
    <3>1. CASE {x \in answered : x.batch = Batch} # {}
      <4>1. PICK x \in answered : x.batch = Batch /\ said = x.said
        BY <2>1, <3>1 DEF Says
      <4> QED
        BY <1>0, <4>1
    <3>2. CASE {x \in answered : x.batch = Batch} = {}
      BY <2>1, <3>2 DEF Says
    <3> QED
      BY <3>1, <3>2
  <2>3. ASSUME NEW a \in Batch, NEW n \in Mentions[a] PROVE <<a, n>> \in finds'
    <3>1. n \in Name
      BY BatchType, NamesAssumption
    <3> QED
      BY <2>1, <2>2, <2>3, <3>1
  <2> QED
    BY <1>0, <1>1, <2>1, <2>2, <2>3 DEF Read
<1>2. CASE RecordName
  <2>1. PICK f \in finds :
          finds' = finds \ {f} /\ find' = [NoFind EXCEPT !.a = f[1], !.n = f[2]]
    BY <1>2 DEF RecordName
  <2>2. f = <<f[1], f[2]>>
    BY DEF PassTypes, Finds
  <2>3. find'.a = f[1] /\ find'.n = f[2]
    BY <2>1 DEF NoFind
  <2> QED
    BY <1>0, <1>2, <1>m, <2>1, <2>2, <2>3 DEF RecordName
<1>3. CASE Sight
  <2>1. Seen(find.n, find.a)'
    BY <1>3 DEF Sight, Seen
  <2> QED
    BY <1>0, <1>3, <1>m, <2>1 DEF Sight
<1>4. CASE CarriedBy \/ Recount
  BY <1>0, <1>4, <1>m DEF CarriedBy, Recount
<1>5. CASE Unscanned \/ Refused \/ Stamp \/ ApplyGate \/ Falls \/ RecordFails
  BY <1>0, <1>5 DEF Unscanned, Refused, Stamp, ApplyGate, Falls, RecordFails, PassEnds
<1>6. CASE UNCHANGED <<answered, at, reading, sightings, finds, find>>
  BY <1>0, <1>6, <1>m
<1> QED
  BY <1>1, <1>2, <1>3, <1>4, <1>5, <1>6
  DEF NamesNext, NamesPass, Gather, MergeInto, namesVars, pass

LEMMA StampedStep ==
  ASSUME LedgerTypes, PassTypes, CountInv, ReadInv, StampedIsSighted, [NamesNext]_namesVars
  PROVE  StampedIsSighted'
<1> SUFFICES ASSUME Thorough, NEW a \in scanned', NEW n \in Mentions[a]
             PROVE  Sighting(n, a, PaperOf[a]) \in sightings'
  BY DEF StampedIsSighted
<1>1. sightings \subseteq sightings'
  BY CountStep
<1>2. CASE a \in scanned
  BY <1>1, <1>2 DEF StampedIsSighted
<1>3. CASE Stamp /\ a \in reading
  <2>1. finds = {} /\ at = "recording"
    BY <1>3 DEF Stamp
  <2> QED
    BY <1>1, <1>3, <2>1 DEF ReadInv, Seen
<1>4. scanned' = scanned \/ (Stamp /\ scanned' = scanned \cup reading)
  BY DEF NamesNext, NamesPass, Unscanned, Read, Refused, RecordName, Sight, CarriedBy, Recount, Stamp,
     ApplyGate, Falls, RecordFails, PassEnds, Gather, MergeInto, namesVars
<1> QED
  BY <1>2, <1>3, <1>4

\* The date of a name only moves back.
LEMMA FirstStep ==
  ASSUME LedgerTypes, PassTypes, FirstInv, FirstSeenIsFirst, [NamesNext]_namesVars
  PROVE  FirstInv' /\ FirstSeenIsFirst'
<1>1. CASE RecordName
  <2>1. PICK f \in finds :
          /\ find' = [NoFind EXCEPT !.a = f[1], !.n = f[2]]
          /\ first' = [first EXCEPT ![f[2]] = Earliest(f[2], f[1])]
    BY <1>1 DEF RecordName
  <2>2. f[1] \in Article /\ f[2] \in Name
    BY DEF PassTypes, Finds
  <2>3. find'.a = f[1] /\ find'.n = f[2]
    BY <2>1 DEF NoFind
  <2>4. first'[f[2]] = Earliest(f[2], f[1]) /\ \A m \in Name \ {f[2]} : first'[m] = first[m]
    BY <2>1, <2>2 DEF LedgerTypes
  <2>5. FirstInv'
    BY <2>2, <2>3, <2>4, EarliestIs DEF FirstInv
  <2>6. ASSUME NEW x \in sightings PROVE 0 < first'[x.name] /\ first'[x.name] <= x.article
    <3>1. x.name \in Name /\ x.article \in Nat /\ first[x.name] \in Nat
      BY ArticleNat DEF LedgerTypes
    <3>2. 0 < first[x.name] /\ first[x.name] <= x.article
      BY DEF FirstSeenIsFirst
    <3>3. CASE x.name # f[2]
      BY <2>4, <3>1, <3>2, <3>3
    <3>4. CASE x.name = f[2]
      <4>1. /\ Earliest(f[2], f[1]) \in Nat /\ 0 < Earliest(f[2], f[1])
            /\ first[f[2]] # 0 => Earliest(f[2], f[1]) <= first[f[2]]
        BY <2>2, EarliestIs
      <4> QED
        BY <2>4, <3>1, <3>2, <3>4, <4>1
    <3> QED
      BY <3>3, <3>4
  <2> QED
    BY <1>1, <2>5, <2>6 DEF RecordName, FirstSeenIsFirst
<1>2. CASE Sight
  <2>1. sightings' = sightings \cup {Sighting(find.n, find.a, PaperOf[find.a])} /\ first' = first
    BY <1>2 DEF Sight
  <2>2. 0 < first[find.n] /\ first[find.n] <= find.a
    BY <1>2 DEF Sight, FirstInv, InHand
  <2>3. find'.a = find.a /\ find'.n = find.n
    BY <1>2 DEF Sight, PassTypes
  <2> QED
    BY <2>1, <2>2, <2>3 DEF FirstInv, FirstSeenIsFirst, Sighting
<1>3. CASE CarriedBy
  <2>1. PICK p \in find.left : /\ sightings' = sightings \cup {Sighting(find.n, find.a, p)}
                               /\ find' = [find EXCEPT !.left = @ \ {p}]
    BY <1>3 DEF CarriedBy
  <2>2. 0 < first[find.n] /\ first[find.n] <= find.a /\ first' = first
    BY <1>3 DEF CarriedBy, FirstInv, InHand
  <2>3. find'.a = find.a /\ find'.n = find.n
    BY <2>1 DEF PassTypes
  <2> QED
    BY <2>1, <2>2, <2>3 DEF FirstInv, FirstSeenIsFirst, Sighting
<1>4. CASE UNCHANGED <<sightings, first>> /\ ~InHand'
  BY <1>4 DEF FirstInv, FirstSeenIsFirst
<1>5. CASE UNCHANGED <<sightings, first, at, find>>
  BY <1>5 DEF FirstInv, FirstSeenIsFirst, InHand
<1>6. CASE Unscanned \/ Read \/ Refused \/ Recount \/ Stamp \/ ApplyGate \/ Falls \/ RecordFails
  BY <1>4, <1>6 DEF Unscanned, Read, Refused, Recount, Stamp, ApplyGate, Falls, RecordFails,
            PassEnds, InHand
<1> QED
  BY <1>1, <1>2, <1>3, <1>5, <1>6 DEF NamesNext, NamesPass, Gather, MergeInto, namesVars, pass

LEMMA NamesBegin == NamesInit => NamesInv
<1>. SUFFICES ASSUME NamesInit PROVE NamesInv
  OBVIOUS
<1>1. LedgerTypes /\ PassTypes
  BY DEF NamesInit, LedgerTypes, PassTypes, InHand, NoFind
<1>2. CountInv
  <2>1. \A n \in Name : Papers(n) = {} /\ Papers(n) \cap Speakers = {}
    BY DEF NamesInit, Papers
  <2>2. \A n \in Name : counted[n].sources = 0 /\ counted[n].speakers = 0
    BY DEF NamesInit
  <2>. QED BY <2>1, <2>2, FS_EmptySet DEF CountInv
<1>3. ReadInv /\ FirstInv
  BY DEF NamesInit, ReadInv, FirstInv, InHand
<1>4. NamesAreEarned
  BY DEF NamesInit, NamesAreEarned, TrackedOnEvidence, StampedIsSighted, FirstSeenIsFirst
<1>. QED BY <1>1, <1>2, <1>3, <1>4 DEF NamesInv

LEMMA NamesGoOn == NamesInv /\ [NamesNext]_namesVars => NamesInv'
BY NamesTypes, CountStep, TrackedStep, ReadStep, StampedStep, FirstStep
DEF NamesInv, NamesAreEarned

\* The ledger of names is what the stories show, whatever a model refuses, however often a pass
\* dies and in whatever order stories come in and are merged (record, applyGate).
THEOREM LedgerIsEarned == NamesSpec => []NamesAreEarned
<1>1. NamesInv => NamesAreEarned
  BY DEF NamesInv
<1>. QED BY <1>1, NamesBegin, NamesGoOn, PTL DEF NamesSpec

\* What a pass has in hand was collected, what an answer speaks of was asked about, and a
\* pass that goes on has been refused once at the most.
HandInv ==
  /\ carried \subseteq collected /\ scanned \subseteq collected
  /\ tagged \subseteq collected /\ fielded \subseteq Name
  /\ waiting \subseteq collected /\ reading \subseteq collected
  /\ \A x \in answered : x.said \subseteq x.batch
  /\ finds \subseteq reading \X Name
  /\ find \in [a : 0 .. Articles, n : Name \cup {0}, fresh : BOOLEAN, left : SUBSET Paper]
  /\ first \in [Name -> 0 .. Articles]
  /\ at \in {"idle", "asking", "recording", "sighting", "carrying", "gating"}
  /\ refusals \in 0 .. 2 /\ (at \notin {"idle", "gating"} => refusals <= 1)
  /\ falls \in 0 .. MaxFalls

LEMMA HandBegins == NamesInit => HandInv
BY NamesAssumption DEF NamesInit, HandInv, NoFind

LEMMA HandStep ==
  ASSUME LedgerTypes, PassTypes, HandInv, [NamesNext]_namesVars
  PROVE  HandInv'
<1>. USE DEF HandInv, pass
<1>0. Batch \subseteq waiting /\ Articles \in Nat
  BY NamesAssumption DEF Batch
<1>1. CASE Unscanned
  BY <1>1 DEF Unscanned
<1>2. CASE Read
  <2>1. PICK said \in Says :
          /\ finds' = {f \in said \X Name : f[2] \in Mentions[f[1]]}
          /\ answered' = answered \cup {[batch |-> Batch, said |-> said]}
    BY <1>2 DEF Read
  <2>2. said \subseteq Batch
    <3>1. CASE {x \in answered : x.batch = Batch} # {}
      <4>1. PICK x \in answered : x.batch = Batch /\ said = x.said
        BY <2>1, <3>1 DEF Says
      <4>. QED BY <4>1
    <3>2. CASE {x \in answered : x.batch = Batch} = {}
      BY <2>1, <3>2 DEF Says
    <3>. QED BY <3>1, <3>2
  <2>3. \A x \in answered' : x.said \subseteq x.batch
    BY <2>1, <2>2
  <2>4. reading' = Batch /\ finds' \subseteq reading' \X Name
    BY <1>2, <2>1, <2>2 DEF Read
  <2>. QED BY <1>0, <1>2, <2>3, <2>4 DEF Read
<1>3. CASE Refused
  <2>1. refusals' \in 0 .. 2 /\ (at' # "gating" => refusals' <= 1)
    BY <1>3 DEF Refused
  <2>. QED BY <1>3, <2>1 DEF Refused
<1>4. CASE RecordName
  <2>1. PICK f \in finds :
          /\ finds' = finds \ {f} /\ find' = [NoFind EXCEPT !.a = f[1], !.n = f[2]]
          /\ first' = [first EXCEPT ![f[2]] = Earliest(f[2], f[1])]
    BY <1>4 DEF RecordName
  <2>2. f[1] \in 1 .. Articles /\ f[2] \in Name
    BY DEF PassTypes, Finds, Article
  <2>3. Earliest(f[2], f[1]) \in 0 .. Articles
    BY <2>2 DEF Earliest
  <2>4. find' \in [a : 0 .. Articles, n : Name \cup {0}, fresh : BOOLEAN, left : SUBSET Paper]
    <3>1. find' = [a |-> f[1], n |-> f[2], fresh |-> FALSE, left |-> {}]
      BY <2>1 DEF NoFind
    <3>. QED BY <1>0, <2>2, <3>1
  <2>5. fielded' \subseteq Name
    <3>1. PICK g \in finds : fielded' = IF g[1] \in tagged THEN fielded \cup {g[2]} ELSE fielded
      BY <1>4 DEF RecordName
    <3>. QED BY <3>1
  <2>. QED BY <1>4, <2>1, <2>3, <2>4, <2>5 DEF RecordName
<1>5. CASE Sight
  <2>1. Carriers[find.a] \subseteq Paper
    BY <1>5, NamesAssumption DEF Sight, PassTypes, InHand
  <2>2. find' \in [a : 0 .. Articles, n : Name \cup {0}, fresh : BOOLEAN, left : SUBSET Paper]
    BY <1>5, <2>1 DEF Sight
  <2>. QED BY <1>5, <2>2 DEF Sight
<1>6. CASE CarriedBy
  <2>1. find' \in [a : 0 .. Articles, n : Name \cup {0}, fresh : BOOLEAN, left : SUBSET Paper]
    BY <1>6 DEF CarriedBy
  <2>. QED BY <1>6, <2>1 DEF CarriedBy
<1>7. CASE Recount
  BY <1>0, <1>7 DEF Recount, NoFind
<1>8. CASE Stamp
  BY <1>8 DEF Stamp
<1>9. CASE ApplyGate
  BY <1>9 DEF ApplyGate
<1>10. CASE Falls \/ RecordFails
  <2>1. /\ PassEnds /\ falls' \in 0 .. MaxFalls
    BY <1>10, NamesAssumption DEF Falls, RecordFails
  <2>2. find' \in [a : 0 .. Articles, n : Name \cup {0}, fresh : BOOLEAN, left : SUBSET Paper]
    BY <1>0, <2>1 DEF PassEnds, NoFind
  <2>. QED BY <2>1, <2>2 DEF PassEnds
<1>11. ASSUME NEW a \in Article, Gather(a) \/ MergeInto(a) PROVE HandInv'
  BY <1>11 DEF Gather, MergeInto
<1>12. CASE UNCHANGED namesVars
  BY <1>12 DEF namesVars
<1>. QED
  BY <1>1, <1>2, <1>3, <1>4, <1>5, <1>6, <1>7, <1>8, <1>9, <1>10, <1>11, <1>12
  DEF NamesNext, NamesPass

------------------------------------------------------------------------------
(* Snapshots, src/process/snapshot.ts.                                     *)

\* What is read is due, and what is about to be marked has been copied.
SnapInv ==
  /\ SnapTypeOK /\ CapturedIsTaken
  /\ \A c \in Camera : \A d \in film[c] : age[d[1]] >= d[2]
  /\ \A c \in Camera : \A d \in shot[c] : \E x \in taken : x.tale = d[1] /\ x.offset = d[2]

LEMMA SnapBegins == SnapInit => SnapInv
BY SnapshotsAssumption DEF SnapInit, SnapInv, SnapTypeOK, CapturedIsTaken

LEMMA SnapGoesOn == SnapInv /\ [SnapNext]_snapVars => SnapInv'
<1>. SUFFICES ASSUME SnapInv, [SnapNext]_snapVars PROVE SnapInv'
  OBVIOUS
<1>. USE SnapshotsAssumption DEF SnapInv, SnapTypeOK, CapturedIsTaken
<1>1. ASSUME NEW t \in Tale, Schedule(t) PROVE SnapInv'
  <2>1. open' = open \cup ({t} \X Offset) /\ UNCHANGED <<taken, film, shot, lost>>
        /\ age[t] = -1 /\ age' = [age EXCEPT ![t] = 0]
    BY <1>1 DEF Schedule
  <2>2. \A u \in Tale : age'[u] = IF u = t THEN 0 ELSE age[u]
    BY <2>1
  <2>3. age' \in [Tale -> -1 .. Offsets]
    BY <2>1
  <2>4. \A d \in Tale \X Offset : age[d[1]] >= d[2] => age'[d[1]] >= d[2]
    BY <2>1, <2>2 DEF Offset
  <2>5. \A c \in Camera : film[c] \subseteq Tale \X Offset
    OBVIOUS
  <2>6. CapturedIsTaken'
    BY <2>1, <2>2
  <2>. QED BY <2>1, <2>3, <2>4, <2>5, <2>6
<1>2. ASSUME NEW t \in Tale, GrowOlder(t) PROVE SnapInv'
  <2>1. UNCHANGED <<open, taken, film, shot, lost>>
        /\ age[t] \in 0 .. Offsets - 1 /\ age' = [age EXCEPT ![t] = age[t] + 1]
    BY <1>2 DEF GrowOlder
  <2>2. \A u \in Tale : age'[u] = IF u = t THEN age[t] + 1 ELSE age[u]
    BY <2>1
  <2>3. age' \in [Tale -> -1 .. Offsets]
    BY <2>1
  <2>4. \A d \in Tale \X Offset : age[d[1]] >= d[2] => age'[d[1]] >= d[2]
    BY <2>1, <2>2 DEF Offset
  <2>5. \A c \in Camera : film[c] \subseteq Tale \X Offset
    OBVIOUS
  <2>6. CapturedIsTaken'
    BY <2>1, <2>2
  <2>. QED BY <2>1, <2>3, <2>4, <2>5, <2>6
<1>3. ASSUME NEW c \in Camera, ReadDue(c) PROVE SnapInv'
  <2>1. PICK f \in SUBSET Due : film' = [film EXCEPT ![c] = f]
    BY <1>3 DEF ReadDue
  <2>2. f \subseteq Tale \X Offset /\ \A d \in f : age[d[1]] >= d[2]
    BY DEF Due
  <2>. QED BY <1>3, <2>1, <2>2 DEF ReadDue
<1>4. ASSUME NEW c \in Camera, CopyCounts(c) PROVE SnapInv'
  <2>1. PICK o \in Offset :
          /\ taken' = taken \cup Shots(OfOffset(c, o))
          /\ shot' = [shot EXCEPT ![c] = OfOffset(c, o)]
          /\ film' = [film EXCEPT ![c] = film[c] \ OfOffset(c, o)]
    BY <1>4 DEF CopyCounts
  <2>2. UNCHANGED <<age, open, lost>>
    BY <1>4 DEF CopyCounts
  <2>. DEFINE D == OfOffset(c, o)
  <2>3. D \subseteq film[c] /\ film[c] \subseteq Tale \X Offset
    BY DEF OfOffset
  <2>4. \A d \in D : d[1] \in Tale /\ d[2] \in Offset /\ age[d[1]] \in Offset
    BY <2>3 DEF Offset
  <2>5. Shots(D) \subseteq Shot
    BY <2>4 DEF Shots, Shot
  <2>6. ASSUME NEW d \in D PROVE \E x \in Shots(D) : x.tale = d[1] /\ x.offset = d[2]
    <3>1. [tale |-> d[1], offset |-> d[2], age |-> age[d[1]]] \in Shots(D)
      BY DEF Shots
    <3>. QED BY <3>1
  <2>. HIDE DEF D
  <2>7. film' \in [Camera -> SUBSET (Tale \X Offset)] /\ shot' \in [Camera -> SUBSET (Tale \X Offset)]
    BY <2>1, <2>3 DEF D
  <2>8. \A b \in Camera : film'[b] \subseteq film[b]
    BY <2>1 DEF D
  <2>9. \A b \in Camera : shot'[b] = IF b = c THEN D ELSE shot[b]
    BY <2>1 DEF D
  <2>10. taken' = taken \cup Shots(D)
    BY <2>1 DEF D
  <2>. QED BY <2>2, <2>5, <2>6, <2>7, <2>8, <2>9, <2>10
<1>5. ASSUME NEW c \in Camera, Mark(c) PROVE SnapInv'
  <2>1. /\ open' = open \ shot[c] /\ shot' = [shot EXCEPT ![c] = {}]
        /\ UNCHANGED <<age, taken, film, lost>>
    BY <1>5 DEF Mark
  <2>2. \A b \in Camera : shot'[b] \subseteq shot[b]
    BY <2>1
  <2>3. CapturedIsTaken'
    <3>. SUFFICES ASSUME NEW t \in Tale, NEW o \in Offset, age[t] >= 0, <<t, o>> \notin open'
                  PROVE  \E x \in taken : x.tale = t /\ x.offset = o
      BY <2>1
    <3>1. CASE <<t, o>> \in shot[c]
      BY <3>1
    <3>2. CASE <<t, o>> \notin open
      BY <3>2
    <3>. QED BY <2>1, <3>1, <3>2
  <2>. QED BY <2>1, <2>2, <2>3
<1>6. ASSUME NEW c \in Camera, Lose(c) PROVE SnapInv'
  <2>1. /\ film' = [film EXCEPT ![c] = {}] /\ shot' = [shot EXCEPT ![c] = {}]
        /\ lost' \in 0 .. MaxLost /\ UNCHANGED <<age, open, taken>>
    BY <1>6 DEF Lose
  <2>. QED BY <2>1
<1>7. CASE UNCHANGED snapVars
  BY <1>7 DEF snapVars
<1>. QED BY <1>1, <1>2, <1>3, <1>4, <1>5, <1>6, <1>7 DEF SnapNext, Capture

\* captureDueSnapshots, "They CANNOT be recreated later": what the schedule calls captured was
\* captured, whichever runs overlap and wherever they die.
THEOREM MarkedIsCaptured == SnapSpec => []CapturedIsTaken
<1>1. SnapInv => CapturedIsTaken
  BY DEF SnapInv
<1>. QED BY <1>1, SnapBegins, SnapGoesOn, PTL DEF SnapSpec

------------------------------------------------------------------------------
(* Reference and adoption, src/collect/reference.ts and adoption.ts.       *)

LEMMA RefreshBegins == RefreshInit => RefreshTypeOK
<1>. SUFFICES ASSUME RefreshInit PROVE RefreshTypeOK
  OBVIOUS
<1>1. todo \in BoundedSeq(Subject, Slice) /\ IsInjective(todo)
  <2>1. todo \in [1 .. 0 -> Subject] /\ 0 \in 0 .. Slice
    BY RefreshAssumption DEF RefreshInit
  <2>2. todo \in BoundedSeq(Subject, Slice)
    BY <2>1 DEF BoundedSeq, SeqOf
  <2>. QED BY <2>1, <2>2 DEF IsInjective
<1>2. Unasked \in 0 .. Unasked /\ Unfailed \in 0 .. Unfailed /\ 0 \in 0 .. MaxWaits /\ 0 \in 0 .. MaxLapses
  BY RefreshAssumption DEF Unasked, Unfailed
<1>3. sinceAsked \in [Subject -> 0 .. Unasked] /\ failures \in [Subject -> 0 .. MaxWaits]
  BY <1>2 DEF RefreshInit
<1>4. /\ sinceFailure \in [Subject -> 0 .. Unfailed]
      /\ \A s \in Subject : sinceFailure[s] = Unfailed /\ failures[s] = 0
  BY <1>2 DEF RefreshInit
<1>5. entity \in [Subject -> Entity] /\ ranAt \in BOOLEAN /\ job \in {"adoption", "reference"}
  BY DEF RefreshInit, Entity
<1>6. lapses \in 0 .. MaxLapses
  BY <1>2 DEF RefreshInit
<1>. QED BY <1>1, <1>3, <1>4, <1>5, <1>6 DEF RefreshTypeOK

\* A number of hours goes on to the last but one, from which only an answer takes it.
LEMMA OlderIs ==
  ASSUME NEW n \in Nat \ {0}, NEW t \in 0 .. n
  PROVE  Older(t, n) \in 0 .. n /\ (Older(t, n) = n <=> t = n)
BY DEF Older

\* The subject a pass has asked about is not left in it.
LEMMA PassOn ==
  ASSUME RefreshTypeOK, NEW s, Pass(s)
  PROVE  s \in Subject /\ todo' \in BoundedSeq(Subject, Slice) /\ IsInjective(todo')
<1>1. PICK m \in 0 .. Slice : todo \in [1 .. m -> Subject]
  BY DEF RefreshTypeOK, BoundedSeq, SeqOf
<1>2. todo \in Seq(Subject) /\ Len(todo) = m
  BY <1>1, RefreshAssumption
<1>3. m # 0 /\ todo # <<>>
  BY <1>1, <1>2 DEF Pass
<1>4. todo' = [i \in 1 .. m - 1 |-> todo[i + 1]]
  <2>1. todo' \in Seq(Subject) /\ Len(todo') = m - 1 /\ \A i \in 1 .. m - 1 : todo'[i] = todo[i + 1]
    BY <1>2, <1>3 DEF Pass
  <2>2. todo' \in [1 .. m - 1 -> Subject]
    BY <2>1
  <2>. QED BY <2>1, <2>2
<1>5. todo' \in [1 .. m - 1 -> Subject] /\ m - 1 \in 0 .. Slice
  BY <1>1, <1>3, <1>4, RefreshAssumption
<1>6. IsInjective(todo')
  <2>1. \A i, j \in 1 .. m : todo[i] = todo[j] => i = j
    BY <1>1 DEF RefreshTypeOK, IsInjective
  <2>2. \A i, j \in 1 .. m - 1 : todo'[i] = todo'[j] => i + 1 = j + 1
    BY <1>4, <2>1
  <2>. QED BY <1>5, <2>2 DEF IsInjective
<1>7. s \in Subject
  BY <1>1, <1>2, <1>3 DEF Pass
<1>. QED BY <1>5, <1>6, <1>7 DEF BoundedSeq, SeqOf

LEMMA RefreshGoesOn == RefreshTypeOK /\ [RefreshNext]_refreshVars => RefreshTypeOK'
<1>. SUFFICES ASSUME RefreshTypeOK, [RefreshNext]_refreshVars PROVE RefreshTypeOK'
  OBVIOUS
<1>0. /\ Slice \in Nat \ {0} /\ StaleAfter \in Nat \ {0} /\ MaxWaits \in Nat \ {0}
      /\ MaxLapses \in Nat /\ Subject \subseteq Nat
      /\ Unasked \in Nat \ {0} /\ Unfailed = MaxWaits + 2
  BY RefreshAssumption DEF Unasked, Unfailed
<1>1. CASE TakeSlice
  <2>1. PICK q \in [1 .. SliceSize -> DueOnes] :
          todo' = q /\ \A i, j \in DOMAIN q : i < j => AskedBefore(q[i], q[j])
    BY <1>1 DEF TakeSlice, Leads
  <2>2. SliceSize \in 0 .. Slice
    <3>1. Cardinality(DueOnes) \in Nat
      <4>1. DueOnes \subseteq Subject
        BY DEF DueOnes
      <4>. QED BY <4>1, FS_Subset, FS_CardinalityType, RefreshAssumption
    <3>. QED BY <1>0, <3>1 DEF SliceSize
  <2>3. q \in [1 .. SliceSize -> Subject]
    BY <2>1 DEF DueOnes
  <2>4. IsInjective(q)
    <3>. SUFFICES ASSUME NEW i \in 1 .. SliceSize, NEW j \in 1 .. SliceSize, q[i] = q[j], i # j
                  PROVE  FALSE
      BY <2>3 DEF IsInjective
    <3>1. AskedBefore(q[i], q[i])
      BY <2>1, <2>2
    <3>2. q[i] \in Subject /\ sinceAsked[q[i]] \in 0 .. Unasked
      BY <2>3 DEF RefreshTypeOK
    <3>3. q[i] \in Nat
      BY <1>0, <3>2
    <3>4. sinceAsked[q[i]] \in Int
      BY <3>2
    <3>. QED BY <3>1, <3>3, <3>4 DEF AskedBefore
  <2>5. todo' \in BoundedSeq(Subject, Slice) /\ IsInjective(todo')
    BY <2>1, <2>2, <2>3, <2>4 DEF BoundedSeq, SeqOf
  <2>6. UNCHANGED <<job, sinceAsked, failures, sinceFailure, entity, lapses>> /\ ranAt' = TRUE
    BY <1>1 DEF TakeSlice
  <2>. QED BY <2>5, <2>6 DEF RefreshTypeOK, Unasked, Unfailed
<1>2. ASSUME NEW s \in Subject, Found(s) PROVE RefreshTypeOK'
  <2>1. todo' \in BoundedSeq(Subject, Slice) /\ IsInjective(todo')
    BY <1>2, PassOn DEF Found
  <2>. DEFINE e == IF s \in Undescribed THEN "bare" ELSE "described"
  <2>2. /\ sinceAsked' = [sinceAsked EXCEPT ![s] = 0]
        /\ failures' = [failures EXCEPT ![s] = 0]
        /\ sinceFailure' = [sinceFailure EXCEPT ![s] = Unfailed]
        /\ entity' = [entity EXCEPT ![s] = e] /\ UNCHANGED <<job, ranAt, lapses>>
    BY <1>2 DEF Found
  <2>3. e \in Entity
    BY DEF Entity
  <2>. HIDE DEF e
  <2>4. /\ sinceAsked' \in [Subject -> 0 .. Unasked] /\ failures' \in [Subject -> 0 .. MaxWaits]
        /\ sinceFailure' \in [Subject -> 0 .. Unfailed] /\ entity' \in [Subject -> Entity]
    BY <1>0, <2>2, <2>3 DEF RefreshTypeOK
  <2>5. \A u \in Subject : sinceFailure'[u] = Unfailed <=> failures'[u] = 0
    BY <1>0, <2>2 DEF RefreshTypeOK
  <2>. QED BY <2>1, <2>2, <2>4, <2>5 DEF RefreshTypeOK, Unasked, Unfailed
<1>3. ASSUME NEW s \in Subject, Unresolved(s) PROVE RefreshTypeOK'
  <2>1. todo' \in BoundedSeq(Subject, Slice) /\ IsInjective(todo')
    BY <1>3, PassOn DEF Unresolved
  <2>2. sinceAsked' \in [Subject -> 0 .. Unasked]
    BY <1>0, <1>3 DEF Unresolved, RefreshTypeOK
  <2>3. UNCHANGED <<job, failures, sinceFailure, entity, ranAt, lapses>>
    BY <1>3 DEF Unresolved
  <2>. QED BY <2>1, <2>2, <2>3 DEF RefreshTypeOK, Unasked, Unfailed
<1>4. ASSUME NEW s \in Subject, Fail(s) PROVE RefreshTypeOK'
  <2>1. todo' \in BoundedSeq(Subject, Slice) /\ IsInjective(todo')
    BY <1>4, PassOn DEF Fail
  <2>. DEFINE f == IF failures[s] < MaxWaits THEN failures[s] + 1 ELSE failures[s]
  <2>2. /\ failures' = [failures EXCEPT ![s] = f]
        /\ sinceFailure' = [sinceFailure EXCEPT ![s] = 0]
        /\ UNCHANGED <<job, sinceAsked, entity, ranAt>>
    BY <1>4 DEF Fail
  <2>3. f \in 0 .. MaxWaits /\ f # 0
    BY <1>0 DEF RefreshTypeOK
  <2>. HIDE DEF f
  <2>4. lapses' \in 0 .. MaxLapses
    BY <1>0, <1>4 DEF Fail, RefreshTypeOK
  <2>5. failures' \in [Subject -> 0 .. MaxWaits] /\ sinceFailure' \in [Subject -> 0 .. Unfailed]
    BY <1>0, <2>2, <2>3 DEF RefreshTypeOK
  <2>6. \A u \in Subject : sinceFailure'[u] = Unfailed <=> failures'[u] = 0
    BY <1>0, <2>2, <2>3 DEF RefreshTypeOK
  <2>. QED BY <2>1, <2>2, <2>4, <2>5, <2>6 DEF RefreshTypeOK, Unasked, Unfailed
<1>5. CASE BreakOff
  <2>1. todo' \in BoundedSeq(Subject, Slice) /\ IsInjective(todo')
    <3>1. todo' \in [1 .. 0 -> Subject] /\ 0 \in 0 .. Slice
      BY <1>0, <1>5 DEF BreakOff
    <3>2. todo' \in BoundedSeq(Subject, Slice)
      BY <3>1 DEF BoundedSeq, SeqOf
    <3>. QED BY <3>1, <3>2 DEF IsInjective
  <2>2. lapses' \in 0 .. MaxLapses
    BY <1>0, <1>5 DEF BreakOff, RefreshTypeOK
  <2>3. UNCHANGED <<job, sinceAsked, failures, sinceFailure, entity, ranAt>>
    BY <1>5 DEF BreakOff
  <2>. QED BY <2>1, <2>2, <2>3 DEF RefreshTypeOK, Unasked, Unfailed
<1>6. CASE Hour
  <2>1. /\ sinceAsked' = [s \in Subject |-> Older(sinceAsked[s], Unasked)]
        /\ sinceFailure' = [s \in Subject |-> Older(sinceFailure[s], Unfailed)]
        /\ ranAt' = FALSE /\ UNCHANGED <<job, failures, entity, todo, lapses>>
    BY <1>6 DEF Hour
  <2>2. ASSUME NEW s \in Subject
        PROVE  /\ sinceAsked'[s] \in 0 .. Unasked /\ sinceFailure'[s] \in 0 .. Unfailed
               /\ sinceFailure'[s] = Unfailed <=> sinceFailure[s] = Unfailed
    <3>1. sinceAsked[s] \in 0 .. Unasked /\ sinceFailure[s] \in 0 .. Unfailed
      BY DEF RefreshTypeOK
    <3>2. Unfailed \in Nat \ {0}
      BY <1>0
    <3>. QED BY <1>0, <2>1, <3>1, <3>2, OlderIs
  <2>3. sinceAsked' \in [Subject -> 0 .. Unasked] /\ sinceFailure' \in [Subject -> 0 .. Unfailed]
    BY <2>1, <2>2
  <2>. QED BY <2>1, <2>2, <2>3 DEF RefreshTypeOK, Unasked, Unfailed
<1>7. CASE UNCHANGED refreshVars
  BY <1>7 DEF refreshVars, RefreshTypeOK, Unasked, Unfailed
<1>. QED BY <1>1, <1>2, <1>3, <1>4, <1>5, <1>6, <1>7 DEF RefreshNext, Answers, Ask

------------------------------------------------------------------------------
(* Settings, src/ui/settings.ts.                                           *)

LEMMA CoercedIsValue ==
  ASSUME NEW k \in Key, NEW v \in Value \cup {Blank}, Coerce(k, v) # None
  PROVE  Coerce(k, v) \in Value /\ Fits(k, Coerce(k, v))
<1>. DEFINE n == Plain(k, v)
<1>1. /\ Least[k] \in Value /\ Most[k] \in Value /\ Env[k] \in Value
      /\ Value \subseteq Nat /\ 0 \in Value /\ Blank \notin Value
  <2>1. Least \in [Key -> Value] /\ Most \in [Key -> Value] /\ Env \in [Key -> Value]
    BY SettingsAssumption
  <2>. QED BY <2>1, SettingsAssumption
<1>2. Least[k] <= Most[k]
  <2>1. Least[k] <= Env[k] /\ Env[k] <= Most[k]
    BY SettingsAssumption
  <2>2. Least[k] \in Nat /\ Most[k] \in Nat /\ Env[k] \in Nat
    BY <1>1
  <2>. QED BY <2>1, <2>2
<1>3. n \in Value \/ (n = None /\ k \notin Numeric)
  BY <1>1 DEF Plain
<1>4. CASE k \in Numeric
  <2>. HIDE DEF n
  <2>1. n \in Nat /\ Least[k] \in Nat /\ Most[k] \in Nat
    BY <1>1, <1>3, <1>4
  <2>2. Coerce(k, v) = IF n < Least[k] THEN Least[k] ELSE IF n > Most[k] THEN Most[k] ELSE n
    BY <1>4 DEF Coerce, n
  <2>. QED BY <1>1, <1>2, <1>3, <1>4, <2>1, <2>2 DEF Fits
<1>5. CASE k \notin Numeric
  <2>1. Coerce(k, v) = n
    BY <1>5 DEF Coerce
  <2>. HIDE DEF n
  <2>2. n \in Value /\ n \in Nat
    BY <1>1, <1>3, <2>1
  <2>3. Least[k] = 0 /\ n <= Most[k]
    BY <1>5, <2>2, SettingsAssumption
  <2>. QED BY <2>1, <2>2, <2>3 DEF Fits
<1>. QED BY <1>4, <1>5

\* What a page is about to store is a value of the definition that differs from the
\* environment.
SettingsInv ==
  /\ SettingsTypeOK /\ HistoryExplains
  /\ \A a \in Admin : seen[a] # NoSetting =>
       seen[a].value # Env[seen[a].key] /\ Fits(seen[a].key, seen[a].value)

LEMMA SettingsBegin == SettingsInit => SettingsInv
<1>. SUFFICES ASSUME SettingsInit PROVE SettingsInv
  OBVIOUS
<1>1. \A k \in Key : Env[k] \in Nat
  BY SettingsAssumption
<1>2. NoPrefs \in Setting /\ \A k \in Key : NoPrefs[k] = None /\ NoPrefs[k] # Env[k]
  BY <1>1 DEF NoPrefs, Setting, None
<1>3. cache \in [value : Setting, fresh : BOOLEAN]
  BY <1>2 DEF SettingsInit
<1>4. form \in [Admin -> [Key -> Value \cup {Blank}]] /\ active \in [Daemon -> [Key -> Value]]
  <2>1. Env \in [Key -> Value] /\ Env \in [Key -> Value \cup {Blank}]
    BY SettingsAssumption
  <2>. QED BY <2>1 DEF SettingsInit
<1>. QED
  BY <1>2, <1>3, <1>4, SettingsAssumption
  DEF SettingsInit, SettingsInv, SettingsTypeOK, HistoryExplains

\* Pages that only change what is stored, each in one row with its history.
LEMMA StoreIsTyped ==
  ASSUME SettingsInv, NEW k \in Key, NEW v \in Value \cup {None},
         v # Env[k], v # None => Fits(k, v),
         stored' = [stored EXCEPT ![k] = v]
  PROVE  /\ stored' \in Setting
         /\ \A j \in Key : stored'[j] # Env[j] /\ (stored'[j] # None => Fits(j, stored'[j]))
BY DEF SettingsInv, SettingsTypeOK, Setting

LEMMA SettingsGoOn == SettingsInv /\ [SettingsNext]_settingsVars => SettingsInv'
<1>. SUFFICES ASSUME SettingsInv, [SettingsNext]_settingsVars PROVE SettingsInv'
  OBVIOUS
<1>0. /\ Env \in [Key -> Value] /\ Value \subseteq Nat /\ MaxEdits \in Nat /\ None \notin Value
      /\ \A k \in Key : Env[k] # None
  BY SettingsAssumption DEF None
<1>s. Shown \in [Key -> Value]
  BY <1>0 DEF Shown, SettingsInv, SettingsTypeOK, Setting
<1>. USE DEF SettingsInv, SettingsTypeOK, HistoryExplains
<1>1. ASSUME NEW a \in Admin, Open(a) PROVE SettingsInv'
  BY <1>1, <1>s DEF Open
<1>2. ASSUME NEW a \in Admin, Save(a) PROVE SettingsInv'
  <2>1. form' \in [Admin -> [Key -> Value \cup {Blank}]]
    BY <1>2 DEF Save
  <2>2. posted' \in [Admin -> SUBSET Key] /\ edits' \in 0 .. MaxEdits
    BY <1>0, <1>2 DEF Save
  <2>. QED BY <1>2, <2>1, <2>2 DEF Save
<1>3. ASSUME NEW a \in Admin, Delete(a) PROVE SettingsInv'
  <2>1. PICK k \in posted[a] : stored' = Unset(k) /\ told' = [told EXCEPT ![k] = None] /\ Finished(a, k)
    BY <1>3 DEF Delete
  <2>2. k \in Key /\ stored' = [stored EXCEPT ![k] = None]
    BY <2>1 DEF Unset
  <2>3. stored' \in Setting
        /\ \A j \in Key : stored'[j] # Env[j] /\ (stored'[j] # None => Fits(j, stored'[j]))
    BY <1>0, <2>2, StoreIsTyped
  <2>4. told' = stored'
    BY <2>1, <2>2
  <2>5. posted' \in [Admin -> SUBSET Key]
    BY <2>1 DEF Finished
  <2>6. cache' \in [value : Setting, fresh : BOOLEAN]
    BY <1>3 DEF Delete, Invalidated
  <2>7. UNCHANGED <<form, seen, active, loading, edits>>
    BY <1>3 DEF Delete
  <2>. QED BY <2>3, <2>4, <2>5, <2>6, <2>7
<1>4. ASSUME NEW a \in Admin, Select(a) PROVE SettingsInv'
  <2>1. PICK k \in posted[a] :
          /\ Coerce(k, form[a][k]) \notin {None, Env[k]} /\ Finished(a, k)
          /\ IF stored[k] = Coerce(k, form[a][k])
               THEN cache' = Invalidated(a) /\ UNCHANGED seen
               ELSE /\ seen' = [seen EXCEPT ![a] = [key |-> k, value |-> Coerce(k, form[a][k])]]
                    /\ UNCHANGED cache
    BY <1>4 DEF Select
  <2>. DEFINE v == Coerce(k, form[a][k])
  <2>2. k \in Key /\ v \in Value /\ Fits(k, v) /\ v # Env[k]
    BY <2>1, CoercedIsValue
  <2>. HIDE DEF v
  <2>3. seen' = seen \/ seen' = [seen EXCEPT ![a] = [key |-> k, value |-> v]]
    BY <2>1 DEF v
  <2>4. seen' \in [Admin -> {NoSetting} \cup [key : Key, value : Value]]
    BY <2>2, <2>3
  <2>5. \A b \in Admin : seen'[b] # NoSetting =>
          seen'[b].value # Env[seen'[b].key] /\ Fits(seen'[b].key, seen'[b].value)
    BY <2>2, <2>3
  <2>6. posted' \in [Admin -> SUBSET Key]
    BY <2>1 DEF Finished
  <2>7. cache' \in [value : Setting, fresh : BOOLEAN]
    BY <2>1 DEF Invalidated
  <2>8. UNCHANGED <<stored, told, form, active, loading, edits>>
    BY <1>4 DEF Select
  <2>. QED BY <2>4, <2>5, <2>6, <2>7, <2>8
<1>5. ASSUME NEW a \in Admin, Upsert(a) PROVE SettingsInv'
  <2>1. seen[a] \in [key : Key, value : Value]
    BY <1>5 DEF Upsert
  <2>. DEFINE k == seen[a].key  v == seen[a].value
  <2>2. k \in Key /\ v \in Value /\ v # Env[k] /\ Fits(k, v)
    BY <1>5, <2>1 DEF Upsert
  <2>3. /\ stored' = [stored EXCEPT ![k] = v] /\ told' = [told EXCEPT ![k] = v]
        /\ seen' = [seen EXCEPT ![a] = NoSetting]
    BY <1>5 DEF Upsert
  <2>. HIDE DEF k, v
  <2>4. stored' \in Setting
        /\ \A j \in Key : stored'[j] # Env[j] /\ (stored'[j] # None => Fits(j, stored'[j]))
    BY <2>2, <2>3, StoreIsTyped
  <2>5. told' = stored'
    BY <2>3
  <2>6. seen' \in [Admin -> {NoSetting} \cup [key : Key, value : Value]]
    BY <2>3
  <2>7. \A b \in Admin : seen'[b] # NoSetting => seen'[b] = seen[b]
    BY <2>3
  <2>8. cache' \in [value : Setting, fresh : BOOLEAN]
    BY <1>5 DEF Upsert
  <2>9. UNCHANGED <<form, posted, active, loading, edits>>
    BY <1>5 DEF Upsert
  <2>. QED BY <2>4, <2>5, <2>6, <2>7, <2>8, <2>9
<1>6. ASSUME NEW a \in Admin, Reset(a) PROVE SettingsInv'
  <2>1. PICK k \in Key : /\ stored' = Unset(k)
                         /\ told' = IF stored[k] = None THEN told ELSE [told EXCEPT ![k] = None]
    BY <1>6 DEF Reset
  <2>2. stored' = [stored EXCEPT ![k] = None]
    BY <2>1 DEF Unset
  <2>3. stored' \in Setting
        /\ \A j \in Key : stored'[j] # Env[j] /\ (stored'[j] # None => Fits(j, stored'[j]))
    BY <1>0, <2>2, StoreIsTyped
  <2>4. told' = stored'
    <3>1. CASE stored[k] = None
      <4>1. stored' = stored
        BY <2>2, <3>1 DEF Setting
      <4>. QED BY <2>1, <3>1, <4>1
    <3>2. CASE stored[k] # None
      BY <2>1, <2>2, <3>2
    <3>. QED BY <3>1, <3>2
  <2>5. cache' \in [value : Setting, fresh : BOOLEAN]
    <3>1. cache' = [cache EXCEPT !.fresh = FALSE]
      BY <1>6 DEF Reset
    <3>. QED BY <3>1
  <2>7. edits' \in 0 .. MaxEdits
    <3>1. edits < MaxEdits /\ edits' = edits + 1 /\ edits \in 0 .. MaxEdits
      BY <1>6 DEF Reset
    <3>. QED BY <1>0, <3>1
  <2>6. UNCHANGED <<form, posted, seen, active, loading>>
    BY <1>6 DEF Reset
  <2>. QED BY <2>3, <2>4, <2>5, <2>6, <2>7
<1>7. ASSUME NEW d \in Daemon, Cycle(d) \/ Restart(d) PROVE SettingsInv'
  <2>1. \A c \in [Key -> Value] : Overlay(c) \in [Key -> Value]
    BY DEF Overlay, Setting
  <2>2. active' \in [Daemon -> [Key -> Value]]
    <3>1. PICK c \in [Key -> Value] : active' = [active EXCEPT ![d] = Overlay(c)]
      BY <1>0, <1>7 DEF Cycle, Restart
    <3>2. Overlay(c) \in [Key -> Value]
      BY <2>1
    <3>. QED BY <3>1, <3>2
  <2>3. UNCHANGED <<stored, told, form, posted, seen, cache, loading, edits>>
    BY <1>7 DEF Cycle, Restart
  <2>. QED BY <2>2, <2>3
<1>8. CASE Reads \/ Expire
  <2>1. Shown \in Setting /\ NoPrefs \in Setting
    BY <1>s DEF Setting, NoPrefs
  <2>2. loading' \in Setting
    BY <1>8, <2>1 DEF Reads, LoadPrefs, CachePrefs, Expire
  <2>4. cache' \in [value : Setting, fresh : BOOLEAN]
    <3>1. CASE CachePrefs
      <4>1. cache' = [value |-> loading, fresh |-> TRUE]
        BY <3>1 DEF CachePrefs
      <4>. QED BY <4>1
    <3>2. CASE Expire
      <4>1. cache' = [cache EXCEPT !.fresh = FALSE]
        BY <3>2 DEF Expire
      <4>. QED BY <4>1
    <3>3. CASE LoadPrefs
      BY <3>3 DEF LoadPrefs
    <3>. QED BY <1>8, <3>1, <3>2, <3>3 DEF Reads
  <2>3. UNCHANGED <<stored, told, form, posted, seen, active, edits>>
    BY <1>8 DEF Reads, LoadPrefs, CachePrefs, Expire
  <2>. QED BY <2>2, <2>3, <2>4
<1>9. CASE UNCHANGED settingsVars
  BY <1>9 DEF settingsVars
<1>. QED
  BY <1>1, <1>2, <1>3, <1>4, <1>5, <1>6, <1>7, <1>8, <1>9 DEF SettingsNext, SavesOn

\* 0019_settings.sql: whatever pages save at once and reset, the last row of the history of a
\* setting is its value.
THEOREM HistoryHolds == SettingsSpec => []HistoryExplains
<1>1. SettingsInv => HistoryExplains
  BY DEF SettingsInv
<1>. QED BY <1>1, SettingsBegin, SettingsGoOn, PTL DEF SettingsSpec

------------------------------------------------------------------------------
(* The instance that is checked.                                           *)

\* No part touches the variables of another: what is proved of each by itself holds of
\* the behaviours that the run enumerates.
LEMMA EachByItself ==
  Spec => WorkSpec /\ NamesSpec /\ SnapSpec /\ RefreshSpec /\ SettingsSpec
<1>1. Init => WorkInit /\ NamesInit /\ SnapInit /\ RefreshInit /\ SettingsInit
  BY DEF Init
<1>2. [Next]_vars => [WorkNext]_workVars
  BY DEF Next, vars, Works, NamesDo, Snaps, Refreshes, Sets
<1>3. [Next]_vars => [NamesNext]_namesVars
  BY DEF Next, vars, Works, NamesDo, Snaps, Refreshes, Sets
<1>4. [Next]_vars => [SnapNext]_snapVars
  BY DEF Next, vars, Works, NamesDo, Snaps, Refreshes, Sets
<1>5. [Next]_vars => [RefreshNext]_refreshVars
  BY DEF Next, vars, Works, NamesDo, Snaps, Refreshes, Sets
<1>6. [Next]_vars => [SettingsNext]_settingsVars
  BY DEF Next, vars, Works, NamesDo, Snaps, Refreshes, Sets
<1>. QED
  BY <1>1, <1>2, <1>3, <1>4, <1>5, <1>6, PTL
  DEF Spec, WorkSpec, NamesSpec, SnapSpec, RefreshSpec, SettingsSpec

\* The components keep their types, whatever the constants are: no score but of a story that
\* was asked about, nothing tracked twice in a slice, no value that is not of its definition.
THEOREM WorkTypesHold == Spec => []WorkTypesOK
<1>1. WorkSpec => []WorkTypeOK
  <2>1. WorkTypes => WorkTypeOK
    BY DEF WorkTypes
  <2>. QED BY <2>1, WorkTypesBegin, WorkTypesGoOn, PTL DEF WorkSpec
<1>2. NamesSpec => []NamesTypeOK
  <2>1. NamesInv /\ HandInv /\ [NamesNext]_namesVars => NamesInv' /\ HandInv'
    BY NamesGoOn, HandStep DEF NamesInv
  <2>2. NamesInv /\ HandInv => NamesTypeOK
    BY DEF NamesInv, LedgerTypes, PassTypes, HandInv, NamesTypeOK
  <2>. QED BY <2>1, <2>2, NamesBegin, HandBegins, PTL DEF NamesSpec
<1>3. SnapSpec => []SnapTypeOK
  <2>1. SnapInv => SnapTypeOK
    BY DEF SnapInv
  <2>. QED BY <2>1, SnapBegins, SnapGoesOn, PTL DEF SnapSpec
<1>4. RefreshSpec => []RefreshTypeOK
  BY RefreshBegins, RefreshGoesOn, PTL DEF RefreshSpec
<1>5. SettingsSpec => []SettingsTypeOK
  <2>1. SettingsInv => SettingsTypeOK
    BY DEF SettingsInv
  <2>. QED BY <2>1, SettingsBegin, SettingsGoOn, PTL DEF SettingsSpec
<1>6. WorkTypeOK /\ NamesTypeOK /\ SnapTypeOK /\ RefreshTypeOK /\ SettingsTypeOK => WorkTypesOK
  BY DEF WorkTypesOK
<1>. QED BY <1>1, <1>2, <1>3, <1>4, <1>5, <1>6, EachByItself, PTL

=============================================================================
