--------------------------- MODULE VocabularyProofs ---------------------------
(***************************************************************************)
(* What holds of any vocabulary, any stories and any number of promotions  *)
(* that are cut off.                                                       *)
(***************************************************************************)
EXTENDS Vocabulary, TLAPS

Doing == {"idle", "reading", "loading", "deciding", "reexamining"}

\* An actor that has nothing to do has read nothing; the entry it has just made is there.
ActorsInv ==
  \A a \in Actor :
    /\ does[a] = "idle" => queue[a] = {}
    /\ does[a] \in Term => does[a] \in Entries

\* Alone, an actor that has loaded the vocabulary knows every entry among the candidates
\* it has still to decide on, since nobody else makes one.
AloneInv ==
  mode = "alone" =>
    /\ does["job"] = "idle" \/ does["page"] = "idle"
    /\ \A a \in Actor : does[a] \notin {"idle", "reading", "loading"} =>
         queue[a] \cap Entries \subseteq knows[a]

\* Unless all overlap, the tags that the tagger has read are the tags there are.
TaggerInv == mode # "all" /\ tagger.step = "writing" => tagger.had = tags

VocabTypes ==
  /\ entries \in [Term -> Nat]
  /\ candidacy \in [Term -> {"unseen", "pending", "promoted", "rejected"}]
  /\ tags \in [Text -> SUBSET Term]
  /\ opinion \in [Text -> [says : BOOLEAN, tags : SUBSET Term]]
  /\ does \in [Actor -> Doing \cup Term]
  /\ queue \in [Actor -> SUBSET Term] /\ knows \in [Actor -> SUBSET Term]
  /\ tagger \in [step : {"idle", "reading", "writing", "marking"}, knows : SUBSET Term,
                 rows : SUBSET Text, had : [Text -> SUBSET Term]]

VocabInv == VocabTypes /\ ActorsInv /\ AloneInv /\ TaggerInv /\ VocabIsSound

LEMMA VocabStarts == VocabInit => VocabInv
<1> SUFFICES ASSUME VocabInit PROVE VocabInv
  OBVIOUS
<1>1. VocabTypes
  BY DEF VocabInit, VocabTypes, Nobody, Resting, Doing
<1>2. ActorsInv /\ AloneInv
  BY VocabularyAssumption DEF VocabInit, ActorsInv, AloneInv, Actor
<1>3. TaggerInv
  BY DEF VocabInit, TaggerInv, Resting
<1>4. PromotedHasEntry /\ AloneOneEntry /\ AloneJudgementStands
  BY DEF VocabInit, PromotedHasEntry, AloneOneEntry, OneEntryPerTerm, AloneJudgementStands,
     JudgementStands, Nobody
<1> QED
  BY <1>1, <1>2, <1>3, <1>4 DEF VocabInv, VocabIsSound

\* The types are kept by every step.
LEMMA VocabTypeStep == VocabInv /\ [VocabNext]_vocabVars => VocabTypes'
<1> SUFFICES ASSUME VocabInv, [VocabNext]_vocabVars PROVE VocabTypes'
  OBVIOUS
<1>0. VocabTypes
  BY DEF VocabInv
<1> USE <1>0 DEF VocabTypes, discovery
<1>1. CASE Propose
  BY <1>1 DEF Propose, Becomes, Doing
<1>2. CASE ReadQueue
  BY <1>2 DEF ReadQueue, Becomes, Pending, Doing
<1>3. ASSUME NEW t \in Term, Accept(t) PROVE VocabTypes'
  BY <1>3 DEF Accept, Becomes, Pending, Doing
<1>4. ASSUME NEW a \in Actor, LoadTaxonomy(a) PROVE VocabTypes'
  BY <1>4 DEF LoadTaxonomy, Becomes, Entries, Doing
<1>5. ASSUME NEW a \in Actor, NEW t \in Term, InsertStack(a, t) PROVE VocabTypes'
  BY <1>5 DEF InsertStack
<1>6. ASSUME NEW a \in Actor, NEW t \in Term, RejectKnown(a, t) PROVE VocabTypes'
  BY <1>6 DEF RejectKnown
<1>7. ASSUME NEW a \in Actor, NEW t \in Term, MarkPromoted(a, t) PROVE VocabTypes'
  BY <1>7 DEF MarkPromoted, Becomes, Doing
<1>8. ASSUME NEW a \in Actor, Reexamine(a) PROVE VocabTypes'
  BY <1>8 DEF Reexamine, Becomes, Doing
<1>9. ASSUME NEW a \in Actor, Decided(a) PROVE VocabTypes'
  BY <1>9 DEF Decided, Becomes, Doing
<1>10. ASSUME NEW t \in Term, RejectByHand(t) PROVE VocabTypes'
  BY <1>10 DEF RejectByHand
<1>11. ASSUME NEW t \in Term, AddByHand(t) PROVE VocabTypes'
  BY <1>11 DEF AddByHand, Becomes, Doing
<1>12. CASE LoadVocabulary
  <2>1. Entries \subseteq Term
    BY DEF Entries
  <2> QED
    BY <1>12, <2>1 DEF LoadVocabulary
<1>13. CASE ReadRows
  <2>1. \/ tagger' = Resting
        \/ tagger' = [tagger EXCEPT !.step = "writing", !.rows = Text \ examined, !.had = tags]
    BY <1>13 DEF ReadRows
  <2>2. CASE tagger' = Resting
    BY <1>13, <2>2 DEF ReadRows, Resting
  <2>3. CASE tagger' = [tagger EXCEPT !.step = "writing", !.rows = Text \ examined, !.had = tags]
    BY <1>13, <2>3 DEF ReadRows
  <2> QED
    BY <2>1, <2>2, <2>3
<1>14. CASE WriteTags
  BY <1>14, VocabularyAssumption DEF WriteTags, Merged, Detected
<1>15. CASE MarkRows
  BY <1>15 DEF MarkRows, Resting
<1>16. ASSUME NEW x \in Text, Judge(x) PROVE VocabTypes'
  BY <1>16 DEF Judge, Entries
<1>17. ASSUME NEW a \in Actor, EndEarly(a) PROVE VocabTypes'
  BY <1>17 DEF EndEarly, Becomes, Doing
<1>18. CASE TaggerEnds
  BY <1>18 DEF TaggerEnds, Resting
<1>19. CASE UNCHANGED vocabVars
  BY <1>19 DEF vocabVars
<1> QED
  BY <1>1, <1>2, <1>3, <1>4, <1>5, <1>6, <1>7, <1>8, <1>9, <1>10, <1>11,
     <1>12, <1>13, <1>14, <1>15, <1>16, <1>17, <1>18, <1>19
  DEF VocabNext, Promotes, Discovers, TagPass, Decides, Actor

\* An actor that rests has read nothing, and the entry it made stays.
LEMMA ActorsStep ==
  ASSUME VocabTypes, ActorsInv, [VocabNext]_vocabVars
  PROVE  ActorsInv'
<1> USE VocabularyAssumption DEF VocabTypes, ActorsInv, Entries
<1>1. CASE Propose
  BY <1>1 DEF Propose, Becomes, discovery, Quiet, MayDecide
<1>2. CASE ReadQueue
  BY <1>2 DEF ReadQueue, Becomes, discovery, Quiet, MayDecide
<1>3. ASSUME NEW t \in Term, Accept(t) PROVE ActorsInv'
  BY <1>3 DEF Accept, Becomes, discovery, Quiet, MayDecide
<1>4. ASSUME NEW a \in Actor, LoadTaxonomy(a) PROVE ActorsInv'
  BY <1>4 DEF LoadTaxonomy, Becomes, discovery, Quiet, MayDecide
<1>5. ASSUME NEW a \in Actor, NEW t \in Term, InsertStack(a, t) PROVE ActorsInv'
  BY <1>5 DEF InsertStack, Becomes, discovery, Quiet, MayDecide
<1>6. ASSUME NEW a \in Actor, NEW t \in Term, RejectKnown(a, t) PROVE ActorsInv'
  BY <1>6 DEF RejectKnown, Becomes, discovery, Quiet, MayDecide
<1>7. ASSUME NEW a \in Actor, NEW t \in Term, MarkPromoted(a, t) PROVE ActorsInv'
  BY <1>7 DEF MarkPromoted, Becomes, discovery, Quiet, MayDecide
<1>8. ASSUME NEW a \in Actor, Reexamine(a) PROVE ActorsInv'
  BY <1>8 DEF Reexamine, Becomes, discovery, Quiet, MayDecide
<1>9. ASSUME NEW a \in Actor, Decided(a) PROVE ActorsInv'
  BY <1>9 DEF Decided, Becomes, discovery, Quiet, MayDecide
<1>10. ASSUME NEW t \in Term, RejectByHand(t) PROVE ActorsInv'
  BY <1>10 DEF RejectByHand, Becomes, discovery, Quiet, MayDecide
<1>11. ASSUME NEW t \in Term, AddByHand(t) PROVE ActorsInv'
  BY <1>11 DEF AddByHand, Becomes, discovery, Quiet, MayDecide
<1>12. CASE LoadVocabulary
  BY <1>12 DEF LoadVocabulary, Becomes, discovery, Quiet, MayDecide
<1>13. CASE ReadRows
  BY <1>13 DEF ReadRows, Becomes, discovery, Quiet, MayDecide
<1>14. CASE WriteTags
  BY <1>14 DEF WriteTags, Becomes, discovery, Quiet, MayDecide
<1>15. CASE MarkRows
  BY <1>15 DEF MarkRows, Becomes, discovery, Quiet, MayDecide
<1>16. ASSUME NEW x \in Text, Judge(x) PROVE ActorsInv'
  BY <1>16 DEF Judge, Becomes, discovery, Quiet, MayDecide
<1>17. ASSUME NEW a \in Actor, EndEarly(a) PROVE ActorsInv'
  BY <1>17 DEF EndEarly, Becomes, discovery, Quiet, MayDecide
<1>18. CASE TaggerEnds
  BY <1>18 DEF TaggerEnds, Becomes, discovery, Quiet, MayDecide
<1>19. CASE UNCHANGED vocabVars
  BY <1>19 DEF vocabVars, Becomes, discovery, Quiet, MayDecide
<1> QED
  BY <1>1, <1>2, <1>3, <1>4, <1>5, <1>6, <1>7, <1>8, <1>9, <1>10, <1>11,
     <1>12, <1>13, <1>14, <1>15, <1>16, <1>17, <1>18, <1>19
  DEF VocabNext, Promotes, Discovers, TagPass, Decides, Actor

\* Alone, nobody else makes the entry that an actor is about to make.
LEMMA AloneStep ==
  ASSUME VocabTypes, ActorsInv, AloneInv, [VocabNext]_vocabVars
  PROVE  AloneInv'
<1> USE VocabularyAssumption DEF VocabTypes, ActorsInv, AloneInv, Entries, Actor
<1>1. CASE Propose
  BY <1>1 DEF Propose, Becomes, discovery, Quiet, MayDecide
<1>2. CASE ReadQueue
  BY <1>2 DEF ReadQueue, Becomes, discovery, Quiet, MayDecide
<1>3. ASSUME NEW t \in Term, Accept(t) PROVE AloneInv'
  BY <1>3 DEF Accept, Becomes, discovery, Quiet, MayDecide
<1>4. ASSUME NEW a \in Actor, LoadTaxonomy(a) PROVE AloneInv'
  BY <1>4 DEF LoadTaxonomy, Becomes, discovery, Quiet, MayDecide
<1>5. ASSUME NEW a \in Actor, NEW t \in Term, InsertStack(a, t) PROVE AloneInv'
  BY <1>5 DEF InsertStack, Becomes, discovery, Quiet, MayDecide
<1>6. ASSUME NEW a \in Actor, NEW t \in Term, RejectKnown(a, t) PROVE AloneInv'
  BY <1>6 DEF RejectKnown, Becomes, discovery, Quiet, MayDecide
<1>7. ASSUME NEW a \in Actor, NEW t \in Term, MarkPromoted(a, t) PROVE AloneInv'
  BY <1>7 DEF MarkPromoted, Becomes, discovery, Quiet, MayDecide
<1>8. ASSUME NEW a \in Actor, Reexamine(a) PROVE AloneInv'
  BY <1>8 DEF Reexamine, Becomes, discovery, Quiet, MayDecide
<1>9. ASSUME NEW a \in Actor, Decided(a) PROVE AloneInv'
  BY <1>9 DEF Decided, Becomes, discovery, Quiet, MayDecide
<1>10. ASSUME NEW t \in Term, RejectByHand(t) PROVE AloneInv'
  BY <1>10 DEF RejectByHand, Becomes, discovery, Quiet, MayDecide
<1>11. ASSUME NEW t \in Term, AddByHand(t) PROVE AloneInv'
  BY <1>11 DEF AddByHand, Becomes, discovery, Quiet, MayDecide
<1>12. CASE LoadVocabulary
  BY <1>12 DEF LoadVocabulary, Becomes, discovery, Quiet, MayDecide
<1>13. CASE ReadRows
  BY <1>13 DEF ReadRows, Becomes, discovery, Quiet, MayDecide
<1>14. CASE WriteTags
  BY <1>14 DEF WriteTags, Becomes, discovery, Quiet, MayDecide
<1>15. CASE MarkRows
  BY <1>15 DEF MarkRows, Becomes, discovery, Quiet, MayDecide
<1>16. ASSUME NEW x \in Text, Judge(x) PROVE AloneInv'
  BY <1>16 DEF Judge, Becomes, discovery, Quiet, MayDecide
<1>17. ASSUME NEW a \in Actor, EndEarly(a) PROVE AloneInv'
  BY <1>17 DEF EndEarly, Becomes, discovery, Quiet, MayDecide
<1>18. CASE TaggerEnds
  BY <1>18 DEF TaggerEnds, Becomes, discovery, Quiet, MayDecide
<1>19. CASE UNCHANGED vocabVars
  BY <1>19 DEF vocabVars, Becomes, discovery, Quiet, MayDecide
<1> QED
  BY <1>1, <1>2, <1>3, <1>4, <1>5, <1>6, <1>7, <1>8, <1>9, <1>10, <1>11,
     <1>12, <1>13, <1>14, <1>15, <1>16, <1>17, <1>18, <1>19
  DEF VocabNext, Promotes, Discovers, TagPass, Decides, Actor

\* What the tagger has read stays true until it has written.
LEMMA TaggerStep ==
  ASSUME VocabTypes, TaggerInv, [VocabNext]_vocabVars
  PROVE  TaggerInv'
<1> USE DEF VocabTypes, TaggerInv
<1>1. CASE Propose
  BY <1>1 DEF Propose, MayTag, Quiet, Resting
<1>2. CASE ReadQueue
  BY <1>2 DEF ReadQueue, MayTag, Quiet, Resting
<1>3. ASSUME NEW t \in Term, Accept(t) PROVE TaggerInv'
  BY <1>3 DEF Accept, MayTag, Quiet, Resting
<1>4. ASSUME NEW a \in Actor, LoadTaxonomy(a) PROVE TaggerInv'
  BY <1>4 DEF LoadTaxonomy, MayTag, Quiet, Resting
<1>5. ASSUME NEW a \in Actor, NEW t \in Term, InsertStack(a, t) PROVE TaggerInv'
  BY <1>5 DEF InsertStack, MayTag, Quiet, Resting
<1>6. ASSUME NEW a \in Actor, NEW t \in Term, RejectKnown(a, t) PROVE TaggerInv'
  BY <1>6 DEF RejectKnown, MayTag, Quiet, Resting
<1>7. ASSUME NEW a \in Actor, NEW t \in Term, MarkPromoted(a, t) PROVE TaggerInv'
  BY <1>7 DEF MarkPromoted, MayTag, Quiet, Resting
<1>8. ASSUME NEW a \in Actor, Reexamine(a) PROVE TaggerInv'
  BY <1>8 DEF Reexamine, MayTag, Quiet, Resting
<1>9. ASSUME NEW a \in Actor, Decided(a) PROVE TaggerInv'
  BY <1>9 DEF Decided, MayTag, Quiet, Resting
<1>10. ASSUME NEW t \in Term, RejectByHand(t) PROVE TaggerInv'
  BY <1>10 DEF RejectByHand, MayTag, Quiet, Resting
<1>11. ASSUME NEW t \in Term, AddByHand(t) PROVE TaggerInv'
  BY <1>11 DEF AddByHand, MayTag, Quiet, Resting
<1>12. CASE LoadVocabulary
  BY <1>12 DEF LoadVocabulary, MayTag, Quiet, Resting
<1>13. CASE ReadRows
  <2>1. mode' = mode /\ tags' = tags
    BY <1>13 DEF ReadRows
  <2>2. \/ tagger' = Resting
        \/ tagger' = [tagger EXCEPT !.step = "writing", !.rows = Text \ examined, !.had = tags]
    BY <1>13 DEF ReadRows
  <2>3. CASE tagger' = Resting
    BY <2>3 DEF Resting
  <2>4. CASE tagger' = [tagger EXCEPT !.step = "writing", !.rows = Text \ examined, !.had = tags]
    BY <2>1, <2>4
  <2> QED
    BY <2>2, <2>3, <2>4
<1>14. CASE WriteTags
  BY <1>14 DEF WriteTags, MayTag, Quiet, Resting
<1>15. CASE MarkRows
  BY <1>15 DEF MarkRows, MayTag, Quiet, Resting
<1>16. ASSUME NEW x \in Text, Judge(x) PROVE TaggerInv'
  BY <1>16 DEF Judge, MayTag, Quiet, Resting
<1>17. ASSUME NEW a \in Actor, EndEarly(a) PROVE TaggerInv'
  BY <1>17 DEF EndEarly, MayTag, Quiet, Resting
<1>18. CASE TaggerEnds
  BY <1>18 DEF TaggerEnds, MayTag, Quiet, Resting
<1>19. CASE UNCHANGED vocabVars
  BY <1>19 DEF vocabVars, MayTag, Quiet, Resting
<1> QED
  BY <1>1, <1>2, <1>3, <1>4, <1>5, <1>6, <1>7, <1>8, <1>9, <1>10, <1>11,
     <1>12, <1>13, <1>14, <1>15, <1>16, <1>17, <1>18, <1>19
  DEF VocabNext, Promotes, Discovers, TagPass, Decides, Actor

\* A promoted term has its entry.
LEMMA PromotedStep ==
  ASSUME VocabTypes, ActorsInv, PromotedHasEntry, [VocabNext]_vocabVars
  PROVE  PromotedHasEntry'
<1> USE DEF VocabTypes, ActorsInv, PromotedHasEntry, Entries
<1>1. CASE Propose
  BY <1>1 DEF Propose
<1>2. CASE ReadQueue
  BY <1>2 DEF ReadQueue
<1>3. ASSUME NEW t \in Term, Accept(t) PROVE PromotedHasEntry'
  BY <1>3 DEF Accept
<1>4. ASSUME NEW a \in Actor, LoadTaxonomy(a) PROVE PromotedHasEntry'
  BY <1>4 DEF LoadTaxonomy
<1>5. ASSUME NEW a \in Actor, NEW t \in Term, InsertStack(a, t) PROVE PromotedHasEntry'
  BY <1>5 DEF InsertStack
<1>6. ASSUME NEW a \in Actor, NEW t \in Term, RejectKnown(a, t) PROVE PromotedHasEntry'
  BY <1>6 DEF RejectKnown
<1>7. ASSUME NEW a \in Actor, NEW t \in Term, MarkPromoted(a, t) PROVE PromotedHasEntry'
  BY <1>7 DEF MarkPromoted
<1>8. ASSUME NEW a \in Actor, Reexamine(a) PROVE PromotedHasEntry'
  BY <1>8 DEF Reexamine
<1>9. ASSUME NEW a \in Actor, Decided(a) PROVE PromotedHasEntry'
  BY <1>9 DEF Decided
<1>10. ASSUME NEW t \in Term, RejectByHand(t) PROVE PromotedHasEntry'
  BY <1>10 DEF RejectByHand
<1>11. ASSUME NEW t \in Term, AddByHand(t) PROVE PromotedHasEntry'
  BY <1>11 DEF AddByHand
<1>12. CASE LoadVocabulary
  BY <1>12 DEF LoadVocabulary
<1>13. CASE ReadRows
  BY <1>13 DEF ReadRows
<1>14. CASE WriteTags
  BY <1>14 DEF WriteTags
<1>15. CASE MarkRows
  BY <1>15 DEF MarkRows
<1>16. ASSUME NEW x \in Text, Judge(x) PROVE PromotedHasEntry'
  BY <1>16 DEF Judge
<1>17. ASSUME NEW a \in Actor, EndEarly(a) PROVE PromotedHasEntry'
  BY <1>17 DEF EndEarly
<1>18. CASE TaggerEnds
  BY <1>18 DEF TaggerEnds
<1>19. CASE UNCHANGED vocabVars
  BY <1>19 DEF vocabVars
<1> QED
  BY <1>1, <1>2, <1>3, <1>4, <1>5, <1>6, <1>7, <1>8, <1>9, <1>10, <1>11,
     <1>12, <1>13, <1>14, <1>15, <1>16, <1>17, <1>18, <1>19
  DEF VocabNext, Promotes, Discovers, TagPass, Decides, Actor

\* Alone, no second entry is made.
LEMMA OneEntryStep ==
  ASSUME VocabTypes, AloneInv, AloneOneEntry, [VocabNext]_vocabVars
  PROVE  AloneOneEntry'
<1> USE DEF VocabTypes, AloneInv, AloneOneEntry, OneEntryPerTerm, Entries
<1>1. CASE Propose
  BY <1>1 DEF Propose
<1>2. CASE ReadQueue
  BY <1>2 DEF ReadQueue
<1>3. ASSUME NEW t \in Term, Accept(t) PROVE AloneOneEntry'
  BY <1>3 DEF Accept
<1>4. ASSUME NEW a \in Actor, LoadTaxonomy(a) PROVE AloneOneEntry'
  BY <1>4 DEF LoadTaxonomy
<1>5. ASSUME NEW a \in Actor, NEW t \in Term, InsertStack(a, t) PROVE AloneOneEntry'
  BY <1>5 DEF InsertStack
<1>6. ASSUME NEW a \in Actor, NEW t \in Term, RejectKnown(a, t) PROVE AloneOneEntry'
  BY <1>6 DEF RejectKnown
<1>7. ASSUME NEW a \in Actor, NEW t \in Term, MarkPromoted(a, t) PROVE AloneOneEntry'
  BY <1>7 DEF MarkPromoted
<1>8. ASSUME NEW a \in Actor, Reexamine(a) PROVE AloneOneEntry'
  BY <1>8 DEF Reexamine
<1>9. ASSUME NEW a \in Actor, Decided(a) PROVE AloneOneEntry'
  BY <1>9 DEF Decided
<1>10. ASSUME NEW t \in Term, RejectByHand(t) PROVE AloneOneEntry'
  BY <1>10 DEF RejectByHand
<1>11. ASSUME NEW t \in Term, AddByHand(t) PROVE AloneOneEntry'
  BY <1>11 DEF AddByHand
<1>12. CASE LoadVocabulary
  BY <1>12 DEF LoadVocabulary
<1>13. CASE ReadRows
  BY <1>13 DEF ReadRows
<1>14. CASE WriteTags
  BY <1>14 DEF WriteTags
<1>15. CASE MarkRows
  BY <1>15 DEF MarkRows
<1>16. ASSUME NEW x \in Text, Judge(x) PROVE AloneOneEntry'
  BY <1>16 DEF Judge
<1>17. ASSUME NEW a \in Actor, EndEarly(a) PROVE AloneOneEntry'
  BY <1>17 DEF EndEarly
<1>18. CASE TaggerEnds
  BY <1>18 DEF TaggerEnds
<1>19. CASE UNCHANGED vocabVars
  BY <1>19 DEF vocabVars
<1> QED
  BY <1>1, <1>2, <1>3, <1>4, <1>5, <1>6, <1>7, <1>8, <1>9, <1>10, <1>11,
     <1>12, <1>13, <1>14, <1>15, <1>16, <1>17, <1>18, <1>19
  DEF VocabNext, Promotes, Discovers, TagPass, Decides, Actor

\* Unless all overlap, the tags that a model chose stay.
LEMMA JudgementStep ==
  ASSUME VocabTypes, TaggerInv, AloneJudgementStands, [VocabNext]_vocabVars
  PROVE  AloneJudgementStands'
<1> USE DEF VocabTypes, TaggerInv, AloneJudgementStands, JudgementStands
<1>1. CASE Propose
  BY <1>1 DEF Propose, Merged, Detected, MayTag, Quiet, Nobody
<1>2. CASE ReadQueue
  BY <1>2 DEF ReadQueue, Merged, Detected, MayTag, Quiet, Nobody
<1>3. ASSUME NEW t \in Term, Accept(t) PROVE AloneJudgementStands'
  BY <1>3 DEF Accept, Merged, Detected, MayTag, Quiet, Nobody
<1>4. ASSUME NEW a \in Actor, LoadTaxonomy(a) PROVE AloneJudgementStands'
  BY <1>4 DEF LoadTaxonomy, Merged, Detected, MayTag, Quiet, Nobody
<1>5. ASSUME NEW a \in Actor, NEW t \in Term, InsertStack(a, t) PROVE AloneJudgementStands'
  BY <1>5 DEF InsertStack, Merged, Detected, MayTag, Quiet, Nobody
<1>6. ASSUME NEW a \in Actor, NEW t \in Term, RejectKnown(a, t) PROVE AloneJudgementStands'
  BY <1>6 DEF RejectKnown, Merged, Detected, MayTag, Quiet, Nobody
<1>7. ASSUME NEW a \in Actor, NEW t \in Term, MarkPromoted(a, t) PROVE AloneJudgementStands'
  BY <1>7 DEF MarkPromoted, Merged, Detected, MayTag, Quiet, Nobody
<1>8. ASSUME NEW a \in Actor, Reexamine(a) PROVE AloneJudgementStands'
  BY <1>8 DEF Reexamine, Merged, Detected, MayTag, Quiet, Nobody
<1>9. ASSUME NEW a \in Actor, Decided(a) PROVE AloneJudgementStands'
  BY <1>9 DEF Decided, Merged, Detected, MayTag, Quiet, Nobody
<1>10. ASSUME NEW t \in Term, RejectByHand(t) PROVE AloneJudgementStands'
  BY <1>10 DEF RejectByHand, Merged, Detected, MayTag, Quiet, Nobody
<1>11. ASSUME NEW t \in Term, AddByHand(t) PROVE AloneJudgementStands'
  BY <1>11 DEF AddByHand, Merged, Detected, MayTag, Quiet, Nobody
<1>12. CASE LoadVocabulary
  BY <1>12 DEF LoadVocabulary, Merged, Detected, MayTag, Quiet, Nobody
<1>13. CASE ReadRows
  BY <1>13 DEF ReadRows, Merged, Detected, MayTag, Quiet, Nobody
<1>14. CASE WriteTags
  BY <1>14 DEF WriteTags, Merged, Detected, MayTag, Quiet, Nobody
<1>15. CASE MarkRows
  BY <1>15 DEF MarkRows, Merged, Detected, MayTag, Quiet, Nobody
<1>16. ASSUME NEW x \in Text, Judge(x) PROVE AloneJudgementStands'
  BY <1>16 DEF Judge, Merged, Detected, MayTag, Quiet, Nobody
<1>17. ASSUME NEW a \in Actor, EndEarly(a) PROVE AloneJudgementStands'
  BY <1>17 DEF EndEarly, Merged, Detected, MayTag, Quiet, Nobody
<1>18. CASE TaggerEnds
  BY <1>18 DEF TaggerEnds, Merged, Detected, MayTag, Quiet, Nobody
<1>19. CASE UNCHANGED vocabVars
  BY <1>19 DEF vocabVars, Merged, Detected, MayTag, Quiet, Nobody
<1> QED
  BY <1>1, <1>2, <1>3, <1>4, <1>5, <1>6, <1>7, <1>8, <1>9, <1>10, <1>11,
     <1>12, <1>13, <1>14, <1>15, <1>16, <1>17, <1>18, <1>19
  DEF VocabNext, Promotes, Discovers, TagPass, Decides, Actor

\* What was decided about a term and judged about a story is not undone by the rest, however
\* many passes are cut off (promoteCandidates, tagStories, applyClassification).
THEOREM VocabularyIsSound == VocabSpec => []VocabIsSound
<1>1. VocabInv /\ [VocabNext]_vocabVars => VocabInv'
  BY VocabTypeStep, ActorsStep, AloneStep, TaggerStep, PromotedStep, OneEntryStep, JudgementStep
  DEF VocabInv, VocabIsSound
<1>2. VocabInv => VocabIsSound
  BY DEF VocabInv
<1> QED
  BY VocabStarts, <1>1, <1>2, PTL DEF VocabSpec

\* An entry stays, so that whoever has loaded the vocabulary knows entries that are there.
LEMMA EntriesStay ==
  ASSUME VocabTypes, [VocabNext]_vocabVars
  PROVE  Entries \subseteq Entries'
<1>1. ASSUME NEW a \in Actor, NEW t \in Term, InsertStack(a, t) PROVE Entries \subseteq Entries'
  <2>1. entries' = [entries EXCEPT ![t] = entries[t] + 1]
    BY <1>1 DEF InsertStack
  <2>2. \A s \in Term : entries[s] \in Nat /\ (entries[s] > 0 => entries'[s] > 0)
    BY <2>1 DEF VocabTypes
  <2>. QED BY <2>2 DEF Entries
<1>2. ASSUME NEW t \in Term, AddByHand(t) PROVE Entries \subseteq Entries'
  BY <1>2 DEF AddByHand, Entries, VocabTypes
<1>3. CASE entries' = entries
  BY <1>3 DEF Entries
<1>. QED
  BY <1>1, <1>2, <1>3
  DEF VocabNext, Propose, Discovers, ReadQueue, Promotes, LoadTaxonomy, Reexamine, Decided,
    RejectKnown, MarkPromoted, Decides, Accept, RejectByHand, TagPass, LoadVocabulary, ReadRows,
    WriteTags, MarkRows, TaggerEnds, Judge, EndEarly, vocabVars, Actor

\* What is known is there, and what is counted is bounded.
KnownIsThere ==
  /\ mode \in Modes /\ examined \subseteq Text /\ ends \in 0 .. MaxEnds
  /\ \A a \in Actor : knows[a] \subseteq Entries
  /\ tagger.knows \subseteq Entries

LEMMA KnownStep ==
  ASSUME VocabTypes, KnownIsThere, [VocabNext]_vocabVars
  PROVE  KnownIsThere'
<1>0. Entries \subseteq Entries'
  BY EntriesStay
<1>1. mode' \in Modes
  BY DEF KnownIsThere, VocabNext, Propose, Discovers, ReadQueue, Promotes, LoadTaxonomy, Reexamine,
    Decided, InsertStack, AddByHand, RejectKnown, MarkPromoted, Decides, Accept, RejectByHand,
    TagPass, LoadVocabulary, ReadRows, WriteTags, MarkRows, TaggerEnds, Judge, EndEarly, vocabVars
<1>2. ends' \in 0 .. MaxEnds
  <2>1. CASE ends' = ends
    BY <2>1 DEF KnownIsThere
  <2>2. CASE ends < MaxEnds /\ ends' = ends + 1
    BY <2>2, VocabularyAssumption DEF KnownIsThere
  <2>. QED
    BY <2>1, <2>2
    DEF VocabNext, Propose, Discovers, ReadQueue, Promotes, LoadTaxonomy, Reexamine,
      Decided, InsertStack, AddByHand, RejectKnown, MarkPromoted, Decides, Accept, RejectByHand,
      TagPass, LoadVocabulary, ReadRows, WriteTags, MarkRows, TaggerEnds, Judge, EndEarly, vocabVars
<1>3. examined' \subseteq Text
  <2>1. tagger.rows \subseteq Text
    BY DEF VocabTypes
  <2>2. examined' \in {examined, {}, examined \cup tagger.rows}
    BY DEF VocabNext, Propose, Discovers, ReadQueue, Promotes, LoadTaxonomy, Reexamine,
      Decided, InsertStack, AddByHand, RejectKnown, MarkPromoted, Decides, Accept, RejectByHand,
      TagPass, LoadVocabulary, ReadRows, WriteTags, MarkRows, TaggerEnds, Judge, EndEarly, vocabVars
  <2>. QED BY <2>1, <2>2 DEF KnownIsThere
<1>4. \A b \in Actor : knows'[b] \subseteq Entries'
  <2>1. ASSUME NEW a \in Actor, NEW N, knows' = [knows EXCEPT ![a] = N], N \subseteq Entries'
        PROVE  \A b \in Actor : knows'[b] \subseteq Entries'
    BY <1>0, <2>1 DEF KnownIsThere, VocabTypes
  <2>2. ASSUME NEW a \in Actor, LoadTaxonomy(a)
        PROVE  \A b \in Actor : knows'[b] \subseteq Entries'
    BY <1>0, <2>1, <2>2 DEF LoadTaxonomy
  <2>3. ASSUME NEW a \in Actor, Decided(a) \/ EndEarly(a)
        PROVE  \A b \in Actor : knows'[b] \subseteq Entries'
    BY <2>1, <2>3 DEF Decided, EndEarly
  <2>4. CASE knows' = knows
    BY <1>0, <2>4 DEF KnownIsThere
  <2>. QED
    BY <2>2, <2>3, <2>4
    DEF VocabNext, Propose, Discovers, ReadQueue, Promotes, Reexamine, discovery, Actor,
      InsertStack, AddByHand, RejectKnown, MarkPromoted, Decides, Accept, RejectByHand,
      TagPass, LoadVocabulary, ReadRows, WriteTags, MarkRows, TaggerEnds, Judge, vocabVars
<1>5. tagger'.knows \subseteq Entries'
  <2>1. CASE tagger' = tagger \/ tagger' = Resting
    BY <1>0, <2>1 DEF KnownIsThere, Resting
  <2>2. CASE LoadVocabulary
    BY <1>0, <2>2 DEF LoadVocabulary, VocabTypes
  <2>3. CASE ReadRows
    <3>1. tagger' # Resting => tagger'.knows = tagger.knows
      BY <2>3 DEF ReadRows, VocabTypes
    <3>. QED BY <1>0, <2>1, <3>1 DEF KnownIsThere
  <2>4. CASE WriteTags
    BY <1>0, <2>4 DEF WriteTags, VocabTypes, KnownIsThere
  <2>. QED
    BY <2>1, <2>2, <2>3, <2>4
    DEF VocabNext, Propose, Discovers, ReadQueue, Promotes, LoadTaxonomy, Reexamine, Decided,
      InsertStack, AddByHand, RejectKnown, MarkPromoted, Decides, Accept, RejectByHand,
      TagPass, MarkRows, TaggerEnds, Judge, EndEarly, vocabVars, Actor
<1>. QED BY <1>1, <1>2, <1>3, <1>4, <1>5 DEF KnownIsThere

LEMMA VocabTypesHold == VocabSpec => []VocabTypeOK
<1>1. VocabInit => KnownIsThere
  BY VocabularyAssumption DEF VocabInit, KnownIsThere, Entries, Resting
<1>2. VocabInv /\ KnownIsThere /\ [VocabNext]_vocabVars => VocabInv' /\ KnownIsThere'
  BY VocabTypeStep, ActorsStep, AloneStep, TaggerStep, PromotedStep, OneEntryStep, JudgementStep,
    KnownStep
  DEF VocabInv, VocabIsSound
<1>3. VocabInv /\ KnownIsThere => VocabTypeOK
  <2>. SUFFICES ASSUME VocabInv, KnownIsThere PROVE VocabTypeOK
    OBVIOUS
  <2>1. VocabTypes /\ ActorsInv
    BY DEF VocabInv
  <2>2. knows \in [Actor -> SUBSET Entries]
    BY <2>1 DEF VocabTypes, KnownIsThere
  <2>3. tagger \in [step : {"idle", "reading", "writing", "marking"}, knows : SUBSET Entries,
                    rows : SUBSET Text, had : [Text -> SUBSET Term]]
    BY <2>1 DEF VocabTypes, KnownIsThere
  <2>. QED BY <2>1, <2>2, <2>3 DEF VocabTypes, KnownIsThere, ActorsInv, VocabTypeOK, Doing
<1>. QED BY VocabStarts, <1>1, <1>2, <1>3, PTL DEF VocabSpec

=============================================================================
