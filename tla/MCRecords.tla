------------------------------ MODULE MCRecords ------------------------------
(***************************************************************************)
(* Small instances of the modules whose properties are about safety alone. *)
(* No two of them share a variable, so that an interleaving of their steps *)
(* tells nothing new: a behaviour takes the steps of one of them, chosen   *)
(* at the start.                                                           *)
(***************************************************************************)
EXTENDS Dedup, Reports, Launcher, PollQueue, Politeness, MCEdgeWorker, TLC

CONSTANTS oa, ob, da, ra, rb, fi, fj, sa, sb, sc, pa, pb

\* Dedup: a link of a never_canonical source, and two stories of one outlet; the first
\* two are near enough, the first and the third a question that a model affirms.
ThreeOfTwo == <<oa, ob, ob>>
Standing == <<2, 1, 1>>
OneTwo   == {{1, 2}}
OneThree == {{1, 3}}
Titles   == <<10, 20, 20>>
SameDay  == <<da, da, da>>

\* Reports: two fields, and a story of the second that is collected late.
OneEach == ra :> fi @@ rb :> fj

\* PollQueue: sources of several intervals, one place in a cycle.
ThreeFed == {sa, sb, sc}

\* Politeness: two polls of one domain, which ask for different intervals, each with two
\* workers on its articles.
Gaps == pa :> 2 @@ pb :> 3

VARIABLE part    \* the module whose steps are taken

vars == <<part, dedupVars, reportVars, launchVars, queueVars, politeVars, edgeVars>>

\* A part that is not chosen begins in one state of its own.
Init ==
  /\ part \in {"dedup", "reports", "launch", "queue", "polite", "edge"}
  /\ DedupInit /\ ReportsInit /\ LaunchInit /\ QueueInit /\ PoliteInit /\ EdgeInit
  /\ part # "launch" => file.url = "none"
  /\ part # "queue" => interval = [s \in Fed |-> Hot]

Dedups(A) ==
  part = "dedup" /\ A /\ UNCHANGED <<part, reportVars, launchVars, queueVars, politeVars, edgeVars>>
Report(A) ==
  part = "reports" /\ A /\ UNCHANGED <<part, dedupVars, launchVars, queueVars, politeVars, edgeVars>>
Starts(A) ==
  part = "launch" /\ A /\ UNCHANGED <<part, dedupVars, reportVars, queueVars, politeVars, edgeVars>>
Queues(A) ==
  part = "queue" /\ A /\ UNCHANGED <<part, dedupVars, reportVars, launchVars, politeVars, edgeVars>>
Waits(A) ==
  part = "polite" /\ A /\ UNCHANGED <<part, dedupVars, reportVars, launchVars, queueVars, edgeVars>>
Invokes(A) ==
  part = "edge" /\ A /\ UNCHANGED <<part, dedupVars, reportVars, launchVars, queueVars, politeVars>>

Next ==
  \/ Dedups(DedupNext) \/ Report(ReportsNext) \/ Starts(LaunchNext)
  \/ Queues(QueueNext) \/ Waits(PoliteNext) \/ Invokes(EdgeNext)

Spec == Init /\ [][Next]_vars

\* The types of the six components.
RecordsTypeOK ==
  /\ DedupTypeOK /\ ReportsTypeOK /\ LaunchTypeOK
  /\ QueueTypeOK /\ PoliteTypeOK /\ EdgeTypeOK

=============================================================================
