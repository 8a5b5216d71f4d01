------------------------------ MODULE MCSources ------------------------------
(***************************************************************************)
(* Small instances of the modules about what is collected and what is      *)
(* known: the sources and the vocabulary.  No two of them share a          *)
(* variable, so that an interleaving of their steps tells nothing new: a   *)
(* behaviour takes the steps of one of them, chosen at the start.          *)
(***************************************************************************)
EXTENDS Polling, SourceLedger, Backfill, Vocabulary, TLC

CONSTANTS sa, sb, fa, ha, hb, hc, pc, ea, eb, ec, ta, tb, ua

None == {}

\* Polling: two sites with one feed, the first of them a tracked
\* release feed.
TwoSources == {sa, sb}
OneFeed    == {fa}
Unknown    == [s \in Source |-> NoFeed]
Twins      == [s \in Source |-> {fa}]
JustA      == {sa}

\* SourceLedger: ha is a first party that the archive finds by its links, hb is a
\* subdomain of it without a feed, and hc has two entries, the second one under a page pc
\* with a feed of its own.
Hosts        == {ha, hb, hc}
Addresses    == {ha, hb, hc, pc}
OnItsHost    == [x \in Site |-> IF x = pc THEN hc ELSE x]
Itself       == [h \in Host |-> h]
UnderA       == [h \in Host |-> IF h = hb THEN ha ELSE h]
ThreeEntries == {ea, eb, ec}
HomePages    == [e \in Entry |-> IF e = ea THEN hb ELSE IF e = eb THEN hc ELSE pc]
OwnFeeds     == [x \in Site |-> IF x = hb THEN NoSite ELSE x]
FirstOne     == {ha}
Elsewhere    == {[site |-> hb, feed |-> hc]}

\* Backfill: pages of two.
EveryOther == [i \in Past |-> 2 * (Depth - i) + 1]

\* Vocabulary: one story names the term that a release proposes; a title proposes another.
NamesOne == ua :> {ta}

VARIABLE part    \* the module whose steps are taken

vars == <<part, pollVars, ledgerVars, walkVars, vocabVars>>

Init ==
  /\ part \in {"poll", "ledger", "walk", "vocab"}
  /\ PollInit /\ LedgerInit /\ WalkInit /\ VocabInit
  /\ part # "walk" => paging = "time"
  /\ part # "vocab" => mode = "alone"

Polls(A)   == part = "poll" /\ A /\ UNCHANGED <<part, ledgerVars, walkVars, vocabVars>>
Ledgers(A) == part = "ledger" /\ A /\ UNCHANGED <<part, pollVars, walkVars, vocabVars>>
Walks(A)   == part = "walk" /\ A /\ UNCHANGED <<part, pollVars, ledgerVars, vocabVars>>
Vocabs(A) == part = "vocab" /\ A /\ UNCHANGED <<part, pollVars, ledgerVars, walkVars>>

Next ==
  Polls(PollNext) \/ Ledgers(LedgerNext) \/ Walks(WalkNext) \/ Vocabs(VocabNext)

Spec == Init /\ [][Next]_vars

\* The fairness of the modules, each for its own part.
FairSpec ==
  /\ Spec
  /\ \A s \in Source : WF_vars(Polls(Proceed(s))) /\ SF_vars(Polls(LookAround(s)))
  /\ \A w \in Walker : WF_vars(Walks(Walk(w)))
  /\ SF_vars(Vocabs(TagPass))
  /\ WF_vars(Vocabs(Discovers)) /\ WF_vars(Vocabs(Promotes("page")))

\* The types of the four components.
FeedsTypeOK == PollTypeOK /\ LedgerTypeOK /\ WalkTypeOK /\ VocabTypeOK

\* db/repos/sources.ts:158: a site without a feed of its own leaves the polling list in
\* the end.
SourcesAreSettled == part = "poll" => FeedlessComesToRest

\* backfill.ts:13: walks that stop, fail and die come to the end of the past.
PastIsReached == part = "walk" => HistoryIsReached

\* discover.ts:464: an entry comes to the stories that name it, old ones too.
VocabIsApplied == part = "vocab" => AloneAllIsTagged

=============================================================================
