----------------------------- MODULE MCSystem -----------------------------
(***************************************************************************)
(* Small instances of the modules about what is done with the stories, the *)
(* rows about the vocabulary and the settings.  No two of them share a     *)
(* variable, so that an interleaving of their steps tells nothing new: a   *)
(* behaviour takes the steps of one of them, chosen at the start.          *)
(***************************************************************************)
EXTENDS ModelWork, Names, Snapshots, Refresh, MCSettings, TLC

CONSTANTS xa, xb, free, claude, na, nb, qa, qb

\* ModelWork: two stories, the newer of them of technology and above the threshold; one
\* free provider for the batches, and Claude, which another job calls too.
TwoByAge == <<xa, xb>>
Chains == [c \in Call |-> IF c = "critical" THEN <<claude>> ELSE <<free>>]

\* Names: one publication carries both stories, and a second comes to carry one.
OneInBoth == <<{na}, {na, nb}>>
OnePaper  == <<qa, qa>>
AlsoIn    == <<{}, {qb}>>

VARIABLE part    \* the module whose steps are taken

vars == <<part, workVars, namesVars, snapVars, refreshVars, settingsVars>>

\* A part that is not chosen begins in one state of its own.
Init ==
  /\ part \in {"work", "names", "snap", "refresh", "settings"}
  /\ WorkInit /\ NamesInit /\ SnapInit /\ RefreshInit /\ SettingsInit
  /\ part # "refresh" => job = "adoption"

Works(A) ==
  part = "work" /\ A /\ UNCHANGED <<part, namesVars, snapVars, refreshVars, settingsVars>>
NamesDo(A) ==
  part = "names" /\ A /\ UNCHANGED <<part, workVars, snapVars, refreshVars, settingsVars>>
Snaps(A) ==
  part = "snap" /\ A /\ UNCHANGED <<part, workVars, namesVars, refreshVars, settingsVars>>
Refreshes(A) ==
  part = "refresh" /\ A /\ UNCHANGED <<part, workVars, namesVars, snapVars, settingsVars>>
Sets(A) ==
  part = "settings" /\ A /\ UNCHANGED <<part, workVars, namesVars, snapVars, refreshVars>>

Next ==
  \/ Works(WorkNext) \/ NamesDo(NamesNext) \/ Snaps(SnapNext)
  \/ Refreshes(RefreshNext) \/ Sets(SettingsNext)

Spec == Init /\ [][Next]_vars

\* The fairness of the modules, each for its own part.
FairSpec ==
  /\ Spec
  /\ WF_vars(Works(ProcessJob))
  /\ \A c \in {"classify", "triage"} : SF_vars(Works(AnswerTo(c)))
  /\ \A p \in Provider : WF_vars(Works(RestEnds(p))) /\ WF_vars(Works(WindowEnds(p)))
  /\ WF_vars(NamesDo(NamesPass)) /\ SF_vars(NamesDo(Read))
  /\ \A c \in Camera : WF_vars(Snaps(Capture(c)))
  /\ WF_vars(Refreshes(TakeSlice)) /\ WF_vars(Refreshes(Answers)) /\ SF_vars(Refreshes(Hour))
  /\ \A a \in Admin : WF_vars(Sets(SavesOn(a)))
  /\ \A d \in Daemon : WF_vars(Sets(Cycle(d)))
  /\ WF_vars(Sets(Reads)) /\ WF_vars(Sets(Expire))

\* The types of the five components.
WorkTypesOK ==
  WorkTypeOK /\ NamesTypeOK /\ SnapTypeOK /\ RefreshTypeOK /\ SettingsTypeOK

\* router.ts:105: a refused or broken batch, or what an answer leaves out, is tried again
\* until it is judged, or an answer is cached that says nothing of it.
EachIsScored == part = "work" => EveryStoryIsScored

\* emerging.ts:107: what a pass does not come to, because it is refused or dies, is read by
\* a later one, unless a story is blocked.
NamesAreTracked == part = "names" => NamesComeThrough

\* snapshots.ts:50: no offset of a schedule stays due.
OffsetsAreTaken == part = "snap" => NoneIsOverdue

\* adoption.ts:118, reference.ts:268: failing and absent subjects keep no other from its turn.
AllComeRound == part = "refresh" => EveryOneComesRound

\* ui/settings.ts:143: the history of a setting explains its value; and what is saved
\* comes to the process and to the page.
SettingsAreKept ==
  []HistoryExplains /\ (part = "settings" => SetIsActedOn /\ PrefsCatchUp)

=============================================================================
