-------------------------- MODULE RetentionProofs --------------------------
(***************************************************************************)
(* Proofs about Retention: no delete takes a favourite, under every        *)
(* interleaving, and the types.                                            *)
(***************************************************************************)
EXTENDS Retention, WellFoundedInduction, TLAPS

Lives == {"unseen", "landing", "marking", "held", "gone"}
Stars == {"none", "kept", "released", "lapsed"}

\* A star that counts is on a story that is held.
StarredIsHeld ==
  \A a \in Account, s \in Story : fav[a][s] \in {"kept", "released"} => s \in Held

IInv ==
  /\ life \in [Story -> Lives]
  /\ fav \in [Account -> [Story -> Stars]]
  /\ StarredIsHeld

\* What one step owes a favourite.
Spares ==
  \A a \in Account, s \in Story :
    fav[a][s] \in {"kept", "released"} =>
      /\ fav'[a][s] # "none" /\ s \in Held'
      /\ s \in whole => s \in whole'

\* The deletes of retain() spare what PROTECTED names, in both of its modes.
LEMMA ProtectedIsNotDoomed ==
  ASSUME NEW a \in Account, NEW s \in Story, NEW job, NEW first,
         fav[a][s] \in {"kept", "released"}
  PROVE  s \notin Doomed(job, first)
BY DEF Doomed, Protected

\* Nothing is a favourite, or held, before it is collected.
LEMMA InitHolds == Init => IInv
BY DEF Init, IInv, Lives, Stars, StarredIsHeld, Held

\* No step of any process takes a favourite or leaves a star on a story that is gone.
LEMMA StepHolds == IInv /\ [Next]_vars => IInv' /\ Spares
<1> SUFFICES ASSUME IInv, [Next]_vars PROVE IInv' /\ Spares
  OBVIOUS
<1> USE DEF IInv, Lives, Stars, StarredIsHeld, Spares, Held
<1>1. ASSUME NEW s \in Story, Gate(s) PROVE IInv' /\ Spares
  BY <1>1 DEF Gate
<1>2. ASSUME NEW s \in Story, Land(s) PROVE IInv' /\ Spares
  BY <1>2 DEF Land
<1>3. ASSUME NEW s \in Story, Mark(s) PROVE IInv' /\ Spares
  BY <1>3 DEF Mark
<1>4. ASSUME NEW a \in Account, NEW s \in Story, Save(a, s) PROVE IInv' /\ Spares
  BY <1>4 DEF Save, archive
<1>5. ASSUME NEW a \in Account, NEW s \in Story, Release(a, s) PROVE IInv' /\ Spares
  BY <1>5 DEF Release, archive
<1>6. ASSUME NEW a \in Account, NEW s \in Story, Lapse(a, s) PROVE IInv' /\ Spares
  BY <1>6 DEF Lapse, archive
\* The rollup, the clock and the surveys touch neither stories nor stars.
<1>7. ASSUME UNCHANGED <<archive, fav>> PROVE IInv' /\ Spares
  BY <1>7 DEF archive
<1>8. ASSUME CloseMonth \/ RollupStep \/ RollupFails \/ KeeperFails PROVE IInv' /\ Spares
  BY <1>7, <1>8
     DEF CloseMonth, RollupStep, RollupFails, KeeperFails, StartRollup, DropTotals, CountTotals,
         DropAnalysis, FillAnalysis, LogRollup
<1>9. ASSUME NEW job \in {"retain", "lapsed"}, Survey(job) PROVE IInv' /\ Spares
  BY <1>7, <1>9 DEF Survey
<1>10. CASE StripChildren
  <2>1. ASSUME NEW a \in Account, NEW s \in Story, fav[a][s] \in {"kept", "released"}, s \in whole
        PROVE  s \in whole'
    BY <1>10, <2>1, ProtectedIsNotDoomed DEF StripChildren
  <2>2. QED
    BY <1>10, <2>1 DEF StripChildren
<1>11. CASE Unstar
  <2>1. ASSUME NEW a \in Account, NEW s \in Story
        PROVE  fav'[a][s] = IF s \in Doomed(mode, cutoff) THEN "none" ELSE fav[a][s]
    BY <1>11 DEF Unstar
  <2>2. ASSUME NEW a \in Account, NEW s \in Story, fav[a][s] \in {"kept", "released"}
        PROVE  fav'[a][s] = fav[a][s]
    BY <2>1, <2>2, ProtectedIsNotDoomed
  <2>3. fav' \in [Account -> [Story -> Stars]]
    BY <1>11 DEF Unstar
  <2>4. QED
    BY <1>11, <2>1, <2>2, <2>3 DEF Unstar, archive
<1>12. CASE DeleteBatch
  <2>1. PICK S \in Batches : life' = [s \in Story |-> IF s \in S THEN "gone" ELSE life[s]]
    BY <1>12 DEF DeleteBatch
  <2>2. S \subseteq Doomed(mode, cutoff)
    BY DEF Batches
  <2>3. ASSUME NEW a \in Account, NEW s \in Story, fav[a][s] \in {"kept", "released"}
        PROVE  life'[s] = life[s]
    BY <2>1, <2>2, <2>3, ProtectedIsNotDoomed
  <2>4. QED
    BY <1>12, <2>1, <2>3 DEF DeleteBatch
<1>13. CASE DeleteRefused \/ Stamp
  BY <1>7, <1>13 DEF DeleteRefused, Stamp
<1>14. CASE DeleteDone
  BY <1>14 DEF DeleteDone
<1>15. CASE UNCHANGED vars
  BY <1>7, <1>15 DEF vars
<1>16. QED
  BY <1>1, <1>2, <1>3, <1>4, <1>5, <1>6, <1>8, <1>9, <1>10, <1>11, <1>12, <1>13, <1>14, <1>15
     DEF Next, RetainStep

\* For any number of stories, readers and months, any batch size and any crashes: no
\* step of a delete takes a star within its grace, the story under it or its keys.
THEOREM NoFavouriteIsTaken == Spec => FavouritesAreSpared
<1>1. IInv /\ [Next]_vars => [Spares]_vars
  BY StepHolds
<1>2. Spec => []IInv
  <2>1. IInv /\ [Next]_vars => IInv'
    BY StepHolds
  <2>2. QED
    BY InitHolds, <2>1, PTL DEF Spec
<1>3. QED
  BY <1>1, <1>2, PTL DEF Spec, FavouritesAreSpared, Spares

------------------------------------------------------------------------------
(* The months are worked on from the oldest.                               *)

\* The order of the numbers, as a relation, has minimal elements.
LEMMA NatOrder ==
  \E R : /\ IsWellFoundedOn(R, Nat)
         /\ \A m, n \in Nat : m < n => <<m, n>> \in R
<1>1. \A m, n \in Nat : m < n => <<m, n>> \in OpToRel(<, Nat)
  BY DEF OpToRel
<1>2. QED
  BY <1>1, NatLessThanWellFounded, Zenon

LEMMA MinimalElement ==
  ASSUME NEW R, IsWellFoundedOn(R, Nat), NEW S, S \subseteq Nat, S # {}
  PROVE  \E n \in S : \A m \in S : <<m, n>> \notin R
BY WFMin

\* The oldest of some months is one of them.
LEMMA OldestMonth ==
  ASSUME NEW S \in SUBSET Month, S # {}
  PROVE  Min(S) \in S
<1>1. S \subseteq Nat
  BY BoundAssumption DEF Month
<1>2. PICK R : /\ IsWellFoundedOn(R, Nat)
               /\ \A m, n \in Nat : m < n => <<m, n>> \in R
  BY NatOrder
<1>3. \E n \in S : \A m \in S : <<m, n>> \notin R
  BY <1>1, <1>2, MinimalElement
<1>4. PICK n \in S : \A m \in S : <<m, n>> \notin R
  BY <1>3
<1>5. ASSUME NEW m \in S PROVE n <= m
  <2>1. m \in Nat /\ n \in Nat /\ ~(m < n)
    BY <1>1, <1>2, <1>4
  <2>2. QED
    BY <2>1
<1>6. QED
  BY <1>5 DEF Min

------------------------------------------------------------------------------
(* Types.                                                                  *)

\* A poll knows only months that are rolled still, since none ever leaves rollup_log.
TypeInv ==
  /\ TypeOK
  /\ keeper # "idle" => safe # {}
  /\ \A s \in Story : archived[s] \subseteq rolled

LEMMA TypeInit == Init => TypeInv
BY BoundAssumption DEF Init, TypeInv, TypeOK, Month

\* The two counters stay inside their bounds.
LEMMA CountersAreBounded ==
  ASSUME TypeOK
  PROVE  /\ CloseMonth => window' \in 1 .. LastMonth + 1
         /\ RollupFails \/ KeeperFails => crashes' \in 0 .. MaxCrashes
<1>1. window \in 1 .. LastMonth + 1 /\ crashes \in 0 .. MaxCrashes
  BY DEF TypeOK
<1>2. CloseMonth => window <= LastMonth /\ window' = window + 1
  BY DEF CloseMonth
<1>3. RollupFails \/ KeeperFails => crashes < MaxCrashes /\ crashes' = crashes + 1
  BY DEF RollupFails, KeeperFails
<1>4. LastMonth \in Nat /\ MaxCrashes \in Nat
  BY BoundAssumption
<1>5. QED
  BY <1>1, <1>2, <1>3, <1>4

LEMMA TypeStep == TypeInv /\ [Next]_vars => TypeInv'
<1> SUFFICES ASSUME TypeInv, [Next]_vars PROVE TypeInv'
  OBVIOUS
<1>m. /\ roll # "idle" => Min(months) \in months
      /\ keeper # "idle" => Min(safe) \in safe
  BY OldestMonth DEF TypeInv, TypeOK
<1> USE DEF TypeInv, TypeOK
<1>1. ASSUME NEW s \in Story, Gate(s) PROVE TypeInv'
  BY <1>1 DEF Gate, tables, rollup, keep, call
<1>2. ASSUME NEW s \in Story, Land(s) PROVE TypeInv'
  BY <1>2 DEF Land, tables, rollup, keep, call
<1>3. ASSUME NEW s \in Story, Mark(s) PROVE TypeInv'
  <2>1. {MonthOf[s]} \cap archived[s] \subseteq rolled
    OBVIOUS
  <2>2. QED
    BY <1>3, <2>1 DEF Mark, rollup, keep, call
<1>4. ASSUME NEW a \in Account, NEW s \in Story, Save(a, s) \/ Release(a, s) \/ Lapse(a, s)
      PROVE  TypeInv'
  <2>1. PICK x \in {"kept", "released", "lapsed"} : fav' = [fav EXCEPT ![a][s] = x]
    BY <1>4 DEF Save, Release, Lapse
  <2>2. fav' \in [Account -> [Story -> {"none", "kept", "released", "lapsed"}]]
    BY <2>1
  <2>3. UNCHANGED <<archive, window, tables, rollup, keep, crashes>>
    BY <1>4 DEF Save, Release, Lapse
  <2>4. QED
    BY <2>2, <2>3 DEF archive, tables, rollup, keep, call
<1>5. CASE CloseMonth
  <2>1. window' \in 1 .. LastMonth + 1
    BY <1>5, CountersAreBounded
  <2>2. UNCHANGED <<archive, fav, tables, rollup, keep, crashes>>
    BY <1>5 DEF CloseMonth
  <2>3. QED
    BY <2>1, <2>2 DEF archive, tables, rollup, keep, call
<1>6. CASE StartRollup
  BY <1>6 DEF StartRollup, PendingMonths, archive, tables, keep, call
<1>7. CASE DropTotals \/ CountTotals
  BY <1>7, <1>m DEF DropTotals, CountTotals, archive, keep, call
<1>8. CASE DropAnalysis
  BY <1>8, <1>m DEF DropAnalysis, archive, keep, call
<1>9. CASE FillAnalysis
  <2>1. HeldIn(Min(months)) \subseteq Story
    BY DEF HeldIn, Held
  <2>2. QED
    BY <1>9, <1>m, <2>1 DEF FillAnalysis, archive, keep, call
<1>10. CASE LogRollup
  BY <1>10, <1>m DEF LogRollup, archive, keep, call
<1>11. CASE RollupFails \/ KeeperFails
  <2>1. crashes' \in 0 .. MaxCrashes
    BY <1>11, CountersAreBounded
  <2>2. CASE RollupFails
    BY <2>1, <2>2 DEF RollupFails, archive, tables, keep, call
  <2>3. CASE KeeperFails
    BY <2>1, <2>3 DEF KeeperFails, archive, tables, rollup, call
  <2>4. QED
    BY <1>11, <2>2, <2>3
<1>12. ASSUME NEW job \in {"retain", "lapsed"}, Survey(job) PROVE TypeInv'
  <2>1. safe' \subseteq Month /\ safe' # {}
    BY <1>12, StoryAssumption DEF Survey, Doomed, Held
  <2>2. QED
    BY <1>12, <2>1 DEF Survey, archive, tables, rollup
<1>13. CASE StripChildren
  BY <1>13 DEF StripChildren, tables, rollup, call
<1>14. CASE Unstar
  BY <1>14 DEF Unstar, archive, tables, rollup, call
<1>15. CASE DeleteBatch
  BY <1>15 DEF DeleteBatch, tables, rollup, keep, call
<1>16. CASE DeleteRefused \/ DeleteDone
  BY <1>16 DEF DeleteRefused, DeleteDone, archive, tables, rollup, call
<1>17. CASE Stamp
  BY <1>17, <1>m DEF Stamp, archive, rollup, call
<1>18. CASE UNCHANGED vars
  BY <1>18 DEF vars, archive, tables, rollup, keep, call
<1>19. QED
  BY <1>1, <1>2, <1>3, <1>4, <1>5, <1>6, <1>7, <1>8, <1>9, <1>10, <1>11, <1>12, <1>13, <1>14,
     <1>15, <1>16, <1>17, <1>18 DEF Next, RollupStep, RetainStep

\* Type correctness, under every interleaving.
THEOREM RetentionTypes == Spec => []TypeOK
<1>1. TypeInv => TypeOK
  BY DEF TypeInv
<1>2. QED
  BY <1>1, TypeInit, TypeStep, PTL DEF Spec

=============================================================================
