------------------------------ MODULE Snapshots ------------------------------
(***************************************************************************)
(* Coverage curves: a new story gets a schedule (scheduleSnapshotsBatch of *)
(* src/db/repos/stories.ts), and src/process/snapshot.ts copies its        *)
(* coverage_count each time an offset has come.  The scheduler's job and   *)
(* the edge worker both do it, each statement is a step, and either may    *)
(* die in between.                                                         *)
(***************************************************************************)
EXTENDS Integers, FiniteSets

CONSTANTS
  Tale,           \* the stories
  Offsets,        \* offsets 1 .. Offsets: 1h, 6h, 24h, 7d
  Rows,          \* rows that one run reads
  Camera,         \* the runs that may overlap
  MaxLost         \* bound: runs that die

Offset == 1 .. Offsets

ASSUME SnapshotsAssumption ==
  Offsets \in Nat \ {0} /\ Rows \in Nat \ {0} /\ MaxLost \in Nat

VARIABLES
  age,            \* age[t]: offsets that have come, -1 before t is collected
  open,           \* pairs <<t, o>> of snapshot_schedule that are not captured
  taken,          \* coverage_snapshots: tale, offset, and age when coverage_count was copied
  film,           \* film[c]: pairs it has read and not dealt with
  shot,           \* shot[c]: those of one offset, inserted and not yet marked
  lost

snapVars == <<age, open, taken, film, shot, lost>>

SnapInit ==
  /\ age = [t \in Tale |-> -1]
  /\ open = {} /\ taken = {} /\ lost = 0
  /\ film = [c \in Camera |-> {}] /\ shot = [c \in Camera |-> {}]

Schedule(t) ==
  /\ age[t] = -1 /\ age' = [age EXCEPT ![t] = 0]
  /\ open' = open \cup ({t} \X Offset)
  /\ UNCHANGED <<taken, film, shot, lost>>

GrowOlder(t) ==
  /\ age[t] \in 0 .. Offsets - 1 /\ age' = [age EXCEPT ![t] = @ + 1]
  /\ UNCHANGED <<open, taken, film, shot, lost>>

\* A mutant: an offset counts only as long as it is the last one that has come.
DueNow == {d \in open : age[d[1]] = d[2]}
Due == {d \in open : age[d[1]] >= d[2]}

\* WHERE NOT captured AND due_at <= now(), no more than Rows of them.
ReadDue(c) ==
  /\ film[c] = {} /\ shot[c] = {} /\ Due # {}
  /\ \E f \in SUBSET Due :
       /\ Cardinality(f) = IF Cardinality(Due) < Rows THEN Cardinality(Due) ELSE Rows
       /\ film' = [film EXCEPT ![c] = f]
  /\ UNCHANGED <<age, open, taken, shot, lost>>

\* The rows of one offset.
OfOffset(c, o) == {d \in film[c] : d[2] = o}
Shots(D) == {[tale |-> d[1], offset |-> d[2], age |-> age[d[1]]] : d \in D}

\* INSERT ... SELECT of one offset; the key holds captured_at and refuses nothing.
CopyCounts(c) ==
  /\ shot[c] = {}
  /\ \E o \in Offset :
       /\ OfOffset(c, o) # {}
       /\ taken' = taken \cup Shots(OfOffset(c, o))
       /\ shot' = [shot EXCEPT ![c] = OfOffset(c, o)]
       /\ film' = [film EXCEPT ![c] = @ \ OfOffset(c, o)]
  /\ UNCHANGED <<age, open, lost>>

Mark(c) ==
  /\ shot[c] # {}
  /\ open' = open \ shot[c] /\ shot' = [shot EXCEPT ![c] = {}]
  /\ UNCHANGED <<age, taken, film, lost>>

Lose(c) ==
  /\ film[c] # {} \/ shot[c] # {}
  /\ lost < MaxLost /\ lost' = lost + 1
  /\ film' = [film EXCEPT ![c] = {}] /\ shot' = [shot EXCEPT ![c] = {}]
  /\ UNCHANGED <<age, open, taken>>

Capture(c) == ReadDue(c) \/ CopyCounts(c) \/ Mark(c)

SnapNext ==
  \/ \E t \in Tale : Schedule(t) \/ GrowOlder(t)
  \/ \E c \in Camera : Capture(c) \/ Lose(c)

SnapSpec == SnapInit /\ [][SnapNext]_snapVars
SnapFairSpec == SnapSpec /\ \A c \in Camera : WF_snapVars(Capture(c))

------------------------------------------------------------------------------
(* Properties.                                                             *)

Shot == [tale : Tale, offset : Offset, age : Offset]

SnapTypeOK ==
  /\ age \in [Tale -> -1 .. Offsets]
  /\ open \subseteq Tale \X Offset /\ taken \subseteq Shot
  /\ film \in [Camera -> SUBSET (Tale \X Offset)]
  /\ shot \in [Camera -> SUBSET (Tale \X Offset)] /\ lost \in 0 .. MaxLost

\* "They CANNOT be recreated later" (snapshot.ts:3): what the schedule calls captured
\* was captured, whichever run dies where.
CapturedIsTaken ==
  \A t \in Tale, o \in Offset :
    age[t] >= 0 /\ <<t, o>> \notin open => \E x \in taken : x.tale = t /\ x.offset = o

\* Every offset is captured in the end, also one that came while nothing ran.
NoneIsOverdue == []<>(\A d \in open : age[d[1]] < d[2])

\* snapshot.ts:7, "at the moment the value existed": no curve has a value that was
\* measured at a later offset, nor two values for one.
TakenInTime == \A x \in taken : x.age = x.offset
TakenOnce == \A x, y \in taken : x.tale = y.tale /\ x.offset = y.offset => x = y

=============================================================================
