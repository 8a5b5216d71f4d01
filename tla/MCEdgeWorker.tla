---------------------------- MODULE MCEdgeWorker ----------------------------
(***************************************************************************)
(* Small instances of EdgeWorker: invocations that overlap in every way    *)
(* and take one request per source; and one invocation with the numbers    *)
(* of the code, whose sources may have no feed yet.                        *)
(***************************************************************************)
EXTENDS EdgeWorker, TLC

CONSTANTS ka, kb, kc, kd, ke

ThreeSites == {ka, kb, kc}
FiveSites  == {ka, kb, kc, kd, ke}
TheLast    == {kc}

OneRequest == [s \in Site |-> {1}]

\* resolveFeedUrl: the home page and the ten COMMON_FEED_PATHS, none of them a feed.
OrDiscovery == [s \in Site |-> {1, 11}]

AnyInvocation == Permutations(Invocation)
AnySite == Permutations(Site)

=============================================================================
