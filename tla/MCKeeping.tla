------------------------------ MODULE MCKeeping ------------------------------
(***************************************************************************)
(* What lies between the first poll of a story and its deletion, under the *)
(* fairness of the components.  A behaviour is one of the archive that     *)
(* deletes, for which the constants of Retention stand; one of the archive *)
(* that keeps everything, where a backfill brings the late story and a job *)
(* may be cut short once; or one of polls that take stories in.            *)
(***************************************************************************)
EXTENDS MCRetention

CONSTANTS pa, pb, ia, ib, ua, ub, ba, bb, da, db, dc, dd, NoId

\* StoryIdentity: an aggregator lists an article under an address of its own, which the
\* page corrects, and the publisher lists it as it is; the archive is within its window.
VARIABLES keys, storyOf, members, pollStep, batch, reading, claimed, joins, retainer, pollCrashes

identVars ==
  <<keys, storyOf, members, pollStep, batch, reading, claimed, joins, retainer, pollCrashes>>

TwoPolls  == {pa, pb}
TwoItems  == {ia, ib}
Addresses == {ua, ub}
Texts     == {ba, bb}
FourIds   == {da, db, dc, dd}
OneEach   == pa :> {ia} @@ pb :> {ib}
Published == [url |-> ub, body |-> bb]
Listed    == ia :> [url |-> ua, body |-> ba] @@ ib :> Published
Article   == [i \in TwoItems |-> Published]

Ident == INSTANCE StoryIdentity WITH
  Poll <- TwoPolls, Item <- TwoItems, Url <- Addresses, Body <- Texts, Id <- FourIds,
  NoStory <- NoId, Offered <- OneEach, Feed <- Listed, Page <- Article,
  Old <- None, Short <- {ia}, Lenient <- {pa}, Backfill <- None, KeepForever <- FALSE, MaxCrashes <- 1,
  story <- storyOf, step <- pollStep, keeper <- retainer, crashes <- pollCrashes

Forever == INSTANCE Retention WITH
  KeepForever <- TRUE, Backfilled <- Late, Modes <- {"retain"}, MaxCrashes <- 1

VARIABLE part    \* which of the three it is

allVars == <<part, vars, identVars>>

Prunes(A) == part = "prunes" /\ A /\ UNCHANGED <<part, identVars>>
Keeps(A)  == part = "keeps" /\ A /\ UNCHANGED <<part, identVars>>
Takes(A)  == part = "takes" /\ A /\ UNCHANGED <<part, vars>>

EachInit == part \in {"prunes", "keeps", "takes"} /\ Init /\ Ident!Init
EachNext == Prunes(Next) \/ Keeps(Forever!Next) \/ Takes(Ident!Next)
EachSpec == EachInit /\ [][EachNext]_allVars

\* The fairness of Retention, where everything is kept, and of StoryIdentity.
EachFairSpec ==
  /\ EachSpec
  /\ WF_allVars(Keeps(Forever!RollupStep)) /\ WF_allVars(Keeps(Forever!RetainStep))
  /\ \A s \in Story : WF_allVars(Keeps(Forever!Land(s) \/ Forever!Mark(s)))
  /\ \A p \in TwoPolls : WF_allVars(Takes(Ident!PollStep(p)))
  /\ WF_allVars(Takes(Ident!Retain))

\* rollup.ts: EventuallyCounted, for the archive that keeps everything.
KeptAreCounted == part = "keeps" => Forever!EventuallyCounted

\* ingest.ts:587: EventuallyCredited, for the polls that take stories in.
ItemsAreCredited == part = "takes" => Ident!EventuallyCredited

=============================================================================
