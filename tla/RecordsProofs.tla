---------------------------- MODULE RecordsProofs -----------------------------
(***************************************************************************)
(* What holds of any number of copies, outlets and passes: no merge hides  *)
(* a story, and the counts are true.  Of any stories, fields and days: the *)
(* windows of the reports fit together.  And of every start of the         *)
(* launcher, however many faults there are and with a console or without.  *)
(***************************************************************************)
EXTENDS MCRecords, CollectorProofs, FiniteSetTheorems, WellFoundedInduction, TLAPS

\* A set of numbers has a least member.
LEMMA MinimalElement ==
  ASSUME NEW R, IsWellFoundedOn(R, Nat), NEW S, S \subseteq Nat, S # {}
  PROVE  \E n \in S : \A m \in S : <<m, n>> \notin R
BY WFMin

LEMMA LeastNumber ==
  ASSUME NEW S \in SUBSET Nat, S # {}
  PROVE  \E n \in S : \A m \in S : n <= m
<1>1. PICK R : /\ IsWellFoundedOn(R, Nat)
               /\ \A m, n \in Nat : m < n => <<m, n>> \in R
  <2>1. \A m, n \in Nat : m < n => <<m, n>> \in OpToRel(<, Nat)
    BY DEF OpToRel
  <2>. QED BY <2>1, NatLessThanWellFounded, Zenon
<1>2. PICK n \in S : \A m \in S : <<m, n>> \notin R
  BY <1>1, MinimalElement
<1>3. ASSUME NEW m \in S PROVE n <= m
  <2>1. m \in Nat /\ n \in Nat /\ ~(m < n)
    BY <1>1, <1>2
  <2>. QED BY <2>1
<1>. QED BY <1>3

LEMMA GreatestNumber ==
  ASSUME NEW k \in Nat, NEW S \in SUBSET (0 .. k), S # {}
  PROVE  \E n \in S : \A m \in S : m <= n
<1>. DEFINE T == {k - n : n \in S}
<1>1. T \in SUBSET Nat /\ T # {}
  <2>1. \A n \in S : n \in 0 .. k /\ k - n \in Nat
    OBVIOUS
  <2>. QED BY <2>1
<1>2. PICK t \in T : \A u \in T : t <= u
  BY <1>1, LeastNumber
<1>3. PICK n \in S : t = k - n
  BY <1>2
<1>4. ASSUME NEW m \in S PROVE m <= n
  <2>1. t <= k - m
    BY <1>2
  <2>. QED BY <1>3, <2>1
<1>. QED BY <1>4

------------------------------------------------------------------------------
(* Deduplication.                                                          *)

\* Of some copies one has a source of the highest standing.
LEMMA HighestStanding ==
  ASSUME NEW S \in SUBSET Copy, S # {}
  PROVE  \E s \in S : \A t \in S : Weight[t] <= Weight[s]
<1>. USE DedupAssumption
<1>. DEFINE Tops(T) == \E s \in T : \A t \in T : Weight[t] <= Weight[s]
            Without == {k \in Nat : \E T \in SUBSET Copy : T # {} /\ T \subseteq 1 .. k /\ ~Tops(T)}
<1>1. SUFFICES ASSUME ~Tops(S) PROVE FALSE
  OBVIOUS
<1>2. Copies \in Without
  BY <1>1 DEF Copy
<1>3. PICK k \in Without : \A j \in Without : k <= j
  <2>1. Without \in SUBSET Nat
    OBVIOUS
  <2>. HIDE DEF Without
  <2>. QED BY <1>2, <2>1, LeastNumber
<1>4. PICK T \in SUBSET Copy : T # {} /\ T \subseteq 1 .. k /\ ~Tops(T)
  BY <1>3
<1>5. k \in Nat \ {0} /\ k - 1 \in Nat /\ k - 1 \notin Without
  <2>1. k \in Nat
    BY <1>3
  <2>2. k # 0
    <3>1. PICK t \in T : t \in 1 .. k
      BY <1>4
    <3>. QED BY <2>1, <3>1
  <2>3. k - 1 \in Nat /\ ~(k <= k - 1)
    BY <2>1, <2>2
  <2>. HIDE DEF Without
  <2>. QED BY <1>3, <2>1, <2>2, <2>3
<1>6. ASSUME NEW U \in SUBSET Copy, U # {}, U \subseteq 1 .. k - 1 PROVE Tops(U)
  BY <1>5, <1>6
<1>. HIDE DEF Without
<1>7. k \in T
  <2>. SUFFICES ASSUME k \notin T PROVE FALSE
    OBVIOUS
  <2>1. T \subseteq 1 .. k - 1
    BY <1>4, <1>5
  <2>. QED BY <1>4, <1>6, <2>1
<1>8. \A t \in T : Weight[t] \in Nat
  BY DEF Copy
<1>9. CASE T \ {k} = {}
  <2>1. \A t \in T : t = k
    BY <1>9
  <2>. QED BY <1>4, <1>7, <1>8, <2>1
<1>10. CASE T \ {k} # {}
  <2>1. T \ {k} \subseteq 1 .. k - 1
    BY <1>4, <1>5
  <2>2. PICK s \in T \ {k} : \A t \in T \ {k} : Weight[t] <= Weight[s]
    BY <1>6, <1>10, <2>1
  <2>3. CASE Weight[k] <= Weight[s]
    BY <1>4, <2>2, <2>3
  <2>4. CASE ~(Weight[k] <= Weight[s])
    <3>1. \A t \in T \ {k} : Weight[t] <= Weight[k]
      BY <1>7, <1>8, <2>2, <2>4
    <3>. QED BY <1>4, <1>7, <1>8, <3>1
  <2>. QED BY <2>3, <2>4
<1>. QED BY <1>9, <1>10

\* pickCanonical's order: a story is only merged into a better one.
Better(w, s) ==
  IF (w \in Flagged) # (s \in Flagged) THEN s \in Flagged
  ELSE IF Weight[w] # Weight[s] THEN Weight[w] > Weight[s] ELSE w < s

LEMMA TheBetterIsPicked ==
  ASSUME NEW s \in Copy, NEW t \in Copy, s # t
  PROVE  \/ PickCanonical(s, t) = s /\ Better(s, t)
         \/ PickCanonical(s, t) = t /\ Better(t, s)
<1>1. s \in Nat /\ t \in Nat /\ Weight[s] \in Nat /\ Weight[t] \in Nat
  BY DedupAssumption DEF Copy
<1>. QED BY <1>1 DEF PickCanonical, Better

\* What is merged points at something better that has arrived.
Upwards == \A s \in Copy : into[s] # 0 => s \in arrived /\ into[s] \in arrived /\ Better(into[s], s)

LEMMA TrailsEndLive ==
  ASSUME DedupTypeOK, Upwards
  PROVE  OneIsShown
<1>. SUFFICES ASSUME NEW s \in arrived \ Live, NEW X, X \in Trails(s)
              PROVE  \E w \in X \cap Live : w \in Flagged => s \in Flagged
  BY DEF OneIsShown
<1>1. X \in SUBSET Copy /\ s \in X /\ \A t \in X : into[t] # 0 => into[t] \in X
  BY DEF Trails
<1>. DEFINE Z == {t \in X \cap arrived : t \in Flagged => s \in Flagged}
            U == {t \in Z : t \notin Flagged}
            Y == IF U # {} THEN U ELSE Z
<1>2. ASSUME NEW t \in Z, into[t] # 0 PROVE into[t] \in Z /\ Better(into[t], t)
  <2>1. into[t] \in X /\ into[t] \in arrived /\ Better(into[t], t)
    BY <1>1, <1>2 DEF Upwards
  <2>. QED BY <2>1 DEF Better
<1>3. Y \in SUBSET Copy /\ Y # {} /\ Y \subseteq Z /\ s \in Z
  BY <1>1
<1>4. \A t \in Copy : t \in Nat /\ Weight[t] \in Nat
  BY DedupAssumption DEF Copy
<1>5. PICK top \in Y : \A t \in Y : Weight[t] <= Weight[top]
  BY <1>3, HighestStanding
<1>. DEFINE W == {t \in Y : Weight[t] = Weight[top]}
<1>6. W \in SUBSET Nat /\ W # {}
  BY <1>3, <1>4, <1>5
<1>7. PICK w \in W : \A t \in W : w <= t
  BY <1>6, LeastNumber
<1>8. into[w] = 0
  <2>. SUFFICES ASSUME into[w] # 0 PROVE FALSE
    OBVIOUS
  <2>. DEFINE v == into[w]
  <2>0. w \in Z /\ w \in Copy
    BY <1>3, <1>7
  <2>1. w \in Z /\ v \in Z /\ Better(v, w) /\ w \in Copy /\ v \in Copy
    BY <1>1, <1>2, <2>0
  <2>. HIDE DEF v
  <2>2. (v \in Flagged) = (w \in Flagged)
    BY <1>7, <2>1 DEF Better
  <2>3. v \in Y
    BY <1>7, <2>1, <2>2
  <2>4. Weight[v] <= Weight[w] /\ Weight[w] = Weight[top]
    BY <1>5, <1>7, <2>3
  <2>. HIDE DEF Z, U, Y
  <2>5. Weight[v] = Weight[w] /\ v < w
    BY <1>4, <2>1, <2>2, <2>4 DEF Better
  <2>6. v \in W
    BY <2>3, <2>4, <2>5
  <2>. QED BY <1>4, <1>7, <2>1, <2>5, <2>6
<1>9. w \in X \cap Live /\ (w \in Flagged => s \in Flagged)
  BY <1>3, <1>7, <1>8 DEF Live
<1>. QED BY <1>9

\* What a pass has in hand are stories that have arrived, two different ones.
Twos == {q \in arrived \X arrived : q[1] # q[2]}
MergesFit ==
  \A p \in Pass :
    /\ todo[p] \subseteq arrived /\ pairs[p] \subseteq Twos /\ questions[p] \subseteq Twos
    /\ merge[p] # NoMerge => <<merge[p].a, merge[p].b>> \in Twos
    /\ merge[p].step \in {"superseding", "adding", "counting"} =>
         /\ merge[p].winner \in {merge[p].a, merge[p].b}
         /\ Better(merge[p].winner, Loser(p))

\* The outlets that the rows of a table name for a story, besides its own.
OutletsIn(rows, s) == {Outlet[t] : t \in {u \in Copy : <<s, u>> \in rows}} \ {Outlet[s]}
Outlets(s) == OutletsIn(members, s)
CountsAreTrue ==
  \A s \in Copy :
    /\ coverage[s] <= 1 + Cardinality(Outlets(s))
    /\ \/ coverage[s] = 1 + Cardinality(Outlets(s)) \/ stops > 0
       \/ \E p \in Pass : merge[p].step = "counting" /\ merge[p].winner = s

MergeInv == DedupTypeOK /\ Upwards /\ MergesFit /\ MergedIsMember /\ CountsAreTrue

LEMMA OutletsAreCounted ==
  ASSUME NEW rows, rows \subseteq Copy \X Copy, NEW s \in Copy
  PROVE  /\ {Outlet[m[2]] : m \in {n \in rows : n[1] = s}} \ {Outlet[s]} = OutletsIn(rows, s)
         /\ 1 + Cardinality(OutletsIn(rows, s)) \in 1 .. Copies
         /\ IsFiniteSet(OutletsIn(rows, s)) /\ Cardinality(OutletsIn(rows, s)) \in Nat
<1>. DEFINE Others == Copy \ {s}
            f == [t \in Others |-> Outlet[t]]
            T == {f[t] : t \in Others}
<1>1. Copies \in Nat /\ Copies >= 1 /\ 1 \in Int
  BY DedupAssumption
<1>2. IsFiniteSet(Copy) /\ Cardinality(Copy) = Copies
  BY <1>1, FS_Interval DEF Copy
<1>3. IsFiniteSet(Others) /\ Cardinality(Others) = Copies - 1
  BY <1>2, FS_RemoveElement
<1>4. f \in Surjection(Others, T)
  BY DEF Surjection
<1>5. IsFiniteSet(T) /\ Cardinality(T) <= Cardinality(Others)
  <2>. HIDE DEF f, T, Others
  <2>. QED BY <1>3, <1>4, FS_Surjection
<1>6. OutletsIn(rows, s) \in SUBSET T
  BY DEF OutletsIn
<1>7. /\ IsFiniteSet(OutletsIn(rows, s)) /\ Cardinality(OutletsIn(rows, s)) <= Cardinality(T)
      /\ Cardinality(OutletsIn(rows, s)) \in Nat
  BY <1>5, <1>6, FS_Subset, FS_CardinalityType
<1>8. Cardinality(T) \in Nat
  BY <1>5, FS_CardinalityType
<1>9. {Outlet[m[2]] : m \in {n \in rows : n[1] = s}} = {Outlet[t] : t \in {u \in Copy : <<s, u>> \in rows}}
  <2>1. ASSUME NEW m \in rows, m[1] = s PROVE m[2] \in Copy /\ <<s, m[2]>> \in rows
    BY <2>1
  <2>2. ASSUME NEW u \in Copy, <<s, u>> \in rows PROVE \E m \in rows : m[1] = s /\ m[2] = u
    BY <2>2
  <2>. QED BY <2>1, <2>2
<1>10. 1 + Cardinality(OutletsIn(rows, s)) \in 1 .. Copies
  BY <1>1, <1>3, <1>5, <1>7, <1>8
<1>. QED BY <1>7, <1>9, <1>10 DEF OutletsIn

LEMMA Counted ==
  ASSUME DedupTypeOK, NEW s \in Copy
  PROVE  /\ Coverage(s) = 1 + Cardinality(Outlets(s)) /\ Coverage(s) \in 1 .. Copies
         /\ IsFiniteSet(Outlets(s)) /\ Cardinality(Outlets(s)) \in Nat
BY OutletsAreCounted DEF DedupTypeOK, Coverage, Outlets

LEMMA DedupBegins == DedupInit => MergeInv
<1>. SUFFICES ASSUME DedupInit PROVE MergeInv
  OBVIOUS
<1>1. DedupTypeOK
  BY DedupAssumption DEF DedupInit, DedupTypeOK, Copy, NoMerge
<1>2. Upwards /\ MergesFit /\ MergedIsMember
  BY DEF DedupInit, Upwards, MergesFit, MergedIsMember, Live, NoMerge
<1>3. ASSUME NEW s \in Copy PROVE coverage[s] = 1 + Cardinality(Outlets(s))
  <2>1. Outlets(s) = {}
    BY DEF DedupInit, Outlets, OutletsIn
  <2>. QED BY <2>1, FS_EmptySet DEF DedupInit
<1>4. CountsAreTrue
  <2>1. \A s \in Copy : Cardinality(Outlets(s)) \in Nat
    BY <1>1, Counted
  <2>. QED BY <1>3, <2>1 DEF CountsAreTrue
<1>. QED BY <1>1, <1>2, <1>4 DEF MergeInv

Merges == [Pass -> [step : {"none", "reading", "superseding", "adding", "counting"},
                    a : 0 .. Copies, b : 0 .. Copies, winner : 0 .. Copies]]

LEMMA MergesOfCopies ==
  ASSUME DedupTypeOK, MergesFit, NEW p \in Pass, merge[p].step \in {"superseding", "adding", "counting"}
  PROVE  merge[p].winner \in arrived /\ Loser(p) \in arrived /\ merge[p].winner \in Copy /\ Loser(p) \in Copy
         /\ Better(merge[p].winner, Loser(p))
<1>1. merge[p] # NoMerge
  BY DEF NoMerge
<1>2. merge[p].a \in arrived /\ merge[p].b \in arrived /\ arrived \subseteq Copy
  BY <1>1 DEF MergesFit, Twos, DedupTypeOK
<1>. QED BY <1>2 DEF MergesFit, Loser

\* A pass looks at one story and begins at most one merge, of it and another outlet's.
LEMMA LooksAtTwo ==
  ASSUME DedupTypeOK, NEW p \in Pass, LookAt(p)
  PROVE  \E s \in todo[p] : \E q \in SUBSET {<<s, t>> : t \in Live \ {s}} :
           /\ todo' = [todo EXCEPT ![p] = @ \ {s}]
           /\ questions' = [questions EXCEPT ![p] = @ \cup q]
           /\ UNCHANGED merge \/ \E t \in Live \ {s} : StartMerge(p, s, t)
<1>. DEFINE s == Max(todo[p])
            near == {t \in Live \ {s} : Outlet[t] # Outlet[s]}
            sure == {t \in near : {s, t} \in Close}
            unsure == {<<s, t>> : t \in {u \in near : {s, u} \in Doubtful}}
<1>1. todo[p] \in SUBSET (0 .. Copies) /\ todo[p] # {} /\ Copies \in Nat
  <2>1. todo[p] \in SUBSET Copy /\ todo[p] # {}
    BY DEF DedupTypeOK, LookAt
  <2>. QED BY <2>1, DedupAssumption DEF Copy
<1>2. \E n \in todo[p] : \A m \in todo[p] : n >= m
  BY <1>1, GreatestNumber
<1>3. s \in todo[p]
  BY <1>2 DEF Max
<1>4. todo' = [todo EXCEPT ![p] = @ \ {s}]
  BY DEF LookAt
<1>5. /\ sure = {} => questions' = [questions EXCEPT ![p] = @ \cup unsure] /\ UNCHANGED merge
      /\ sure # {} => /\ \E q \in SUBSET unsure : questions' = [questions EXCEPT ![p] = @ \cup q]
                      /\ \E t \in sure : StartMerge(p, s, t)
  BY DEF LookAt
<1>6. unsure \subseteq {<<s, t>> : t \in Live \ {s}} /\ sure \subseteq Live \ {s}
  OBVIOUS
<1>. HIDE DEF s, unsure, sure
<1>. QED BY <1>3, <1>4, <1>5, <1>6

LEMMA DedupTypeKept == DedupTypeOK /\ MergesFit /\ [DedupNext]_dedupVars => DedupTypeOK'
<1>. SUFFICES ASSUME DedupTypeOK, MergesFit, [DedupNext]_dedupVars PROVE DedupTypeOK'
  OBVIOUS
<1>1. CASE UNCHANGED dedupVars
  BY <1>1 DEF dedupVars, DedupTypeOK
<1>2. ASSUME NEW p \in Pass, ReadRecent(p) PROVE DedupTypeOK'
  BY <1>2 DEF ReadRecent, DedupTypeOK, Live
<1>3. ASSUME NEW p \in Pass, LookAt(p) PROVE DedupTypeOK'
  <2>1. UNCHANGED <<arrived, into, members, coverage, phase, pairs, stops>>
    BY <1>3 DEF LookAt
  <2>2. todo' \in [Pass -> SUBSET Copy] /\ questions' \in [Pass -> SUBSET (Copy \X Copy)] /\ merge' \in Merges
    <3>1. PICK s \in todo[p] : \E q \in SUBSET {<<s, t>> : t \in Live \ {s}} :
            /\ todo' = [todo EXCEPT ![p] = @ \ {s}]
            /\ questions' = [questions EXCEPT ![p] = @ \cup q]
            /\ UNCHANGED merge \/ \E t \in Live \ {s} : StartMerge(p, s, t)
      BY <1>3, LooksAtTwo
    <3>2. s \in Copy /\ Live \subseteq Copy
      BY DEF DedupTypeOK, Live
    <3>3. todo' \in [Pass -> SUBSET Copy] /\ questions' \in [Pass -> SUBSET (Copy \X Copy)]
      BY <3>1, <3>2 DEF DedupTypeOK
    <3>4. ASSUME NEW t \in Live \ {s}, StartMerge(p, s, t) PROVE merge' \in Merges
      <4>1. s \in Copy /\ t \in Copy
        BY <3>2
      <4>2. 0 \in 0 .. Copies /\ \A c \in Copy : c \in 0 .. Copies
        BY DedupAssumption DEF Copy
      <4>3. s \in 0 .. Copies /\ t \in 0 .. Copies
        BY <4>1, <4>2
      <4>. QED BY <3>4, <4>2, <4>3 DEF StartMerge, Merges, DedupTypeOK
    <3>. QED BY <3>1, <3>3, <3>4 DEF Merges, DedupTypeOK
  <2>. QED BY <2>1, <2>2 DEF DedupTypeOK, Merges
<1>4. ASSUME NEW p \in Pass, ReadTitles(p) PROVE DedupTypeOK'
  <2>1. Live \X Live \subseteq Copy \X Copy
    BY DEF DedupTypeOK, Live
  <2>. QED BY <1>4, <2>1 DEF ReadTitles, DedupTypeOK
<1>5. ASSUME NEW p \in Pass, AskModel(p) PROVE DedupTypeOK'
  <2>1. PICK kept \in SUBSET questions[p] :
          pairs' \in {[pairs EXCEPT ![p] = {q \in kept : {q[1], q[2]} \in Alike}], pairs}
    BY <1>5 DEF AskModel, kSubset
  <2>2. {q \in kept : {q[1], q[2]} \in Alike} \subseteq Copy \X Copy
    BY DEF DedupTypeOK
  <2>3. pairs' \in [Pass -> SUBSET (Copy \X Copy)]
    BY <2>1, <2>2 DEF DedupTypeOK
  <2>. QED BY <1>5, <2>3 DEF AskModel, DedupTypeOK
<1>6. ASSUME NEW p \in Pass, NextPair(p) PROVE DedupTypeOK'
  <2>1. PICK q \in pairs[p] : StartMerge(p, q[1], q[2]) /\ pairs' = [pairs EXCEPT ![p] = @ \ {q}]
    BY <1>6 DEF NextPair
  <2>2. q[1] \in 0 .. Copies /\ q[2] \in 0 .. Copies
    BY DEF DedupTypeOK, Copy
  <2>. QED BY <1>6, <2>1, <2>2, DedupAssumption DEF NextPair, StartMerge, DedupTypeOK
<1>7. ASSUME NEW p \in Pass, Done(p) PROVE DedupTypeOK'
  BY <1>7 DEF Done, DedupTypeOK
<1>8. ASSUME NEW p \in Pass, ReadBoth(p) PROVE DedupTypeOK'
  <2>1. PickCanonical(merge[p].a, merge[p].b) \in 0 .. Copies /\ NoMerge.winner \in 0 .. Copies
    BY DedupAssumption DEF PickCanonical, DedupTypeOK, NoMerge
  <2>2. merge' \in Merges
    BY <1>8, <2>1 DEF ReadBoth, DedupTypeOK, NoMerge, Merges
  <2>. QED BY <1>8, <2>2 DEF ReadBoth, DedupTypeOK, Merges
<1>9. ASSUME NEW p \in Pass, Supersede(p) PROVE DedupTypeOK'
  BY <1>9 DEF Supersede, DedupTypeOK
<1>10. ASSUME NEW p \in Pass, AddMember(p) PROVE DedupTypeOK'
  <2>1. <<merge[p].winner, Loser(p)>> \in Copy \X Copy
    BY <1>10, MergesOfCopies DEF AddMember
  <2>2. merge' \in Merges
    BY <1>10 DEF AddMember, DedupTypeOK, Merges
  <2>. QED BY <1>10, <2>1, <2>2 DEF AddMember, DedupTypeOK, Merges
<1>11. ASSUME NEW p \in Pass, CountCoverage(p) PROVE DedupTypeOK'
  <2>1. Coverage(merge[p].winner) \in 1 .. Copies
    BY <1>11, MergesOfCopies, Counted DEF CountCoverage
  <2>2. merge' \in Merges
    BY <1>11, DedupAssumption DEF CountCoverage, DedupTypeOK, Merges, NoMerge
  <2>. QED BY <1>11, <2>1, <2>2 DEF CountCoverage, DedupTypeOK, Merges
<1>12. ASSUME NEW p \in Pass, Stops(p) PROVE DedupTypeOK'
  BY <1>12, DedupAssumption DEF Stops, DedupTypeOK, NoMerge
<1>13. ASSUME NEW s \in Copy, Arrive(s) PROVE DedupTypeOK'
  BY <1>13 DEF Arrive, DedupTypeOK
<1>14. ASSUME NEW s \in Copy, Repost(s) PROVE DedupTypeOK'
  <2>1. members' \subseteq Copy \X Copy
    BY <1>14 DEF Repost, DedupTypeOK
  <2>2. Coverage(s)' \in 1 .. Copies
    BY <2>1, OutletsAreCounted DEF Coverage
  <2>. QED BY <1>14, <2>1, <2>2 DEF Repost, DedupTypeOK
<1>. QED BY <1>1, <1>2, <1>3, <1>4, <1>5, <1>6, <1>7, <1>8, <1>9, <1>10, <1>11, <1>12, <1>13, <1>14 DEF DedupNext

\* Where members only grow and arrived too, a merge stays as it is.
LEMMA MergesStayFit ==
  ASSUME MergeInv, NEW p \in Pass,
         into' = into, arrived \subseteq arrived',
         \A q \in Pass : q # p => /\ todo'[q] = todo[q] /\ pairs'[q] = pairs[q]
                                  /\ questions'[q] = questions[q] /\ merge'[q] = merge[q],
         todo'[p] \subseteq arrived', pairs'[p] \subseteq Twos', questions'[p] \subseteq Twos',
         merge'[p] # NoMerge => <<merge'[p].a, merge'[p].b>> \in Twos',
         merge'[p].step \in {"superseding", "adding", "counting"} =>
           merge'[p].winner \in {merge'[p].a, merge'[p].b} /\ Better(merge'[p].winner, Loser(p)')
  PROVE  Upwards' /\ MergesFit'
<1>1. Twos \subseteq Twos'
  BY DEF Twos
<1>2. \A q \in Pass : q # p => Loser(q)' = Loser(q)
  BY DEF Loser
<1>3. MergesFit'
  <2>. SUFFICES ASSUME NEW q \in Pass
                PROVE /\ todo'[q] \subseteq arrived' /\ pairs'[q] \subseteq Twos' /\ questions'[q] \subseteq Twos'
                      /\ merge'[q] # NoMerge => <<merge'[q].a, merge'[q].b>> \in Twos'
                      /\ merge'[q].step \in {"superseding", "adding", "counting"} =>
                           merge'[q].winner \in {merge'[q].a, merge'[q].b} /\ Better(merge'[q].winner, Loser(q)')
    BY DEF MergesFit, NoMerge, Better
  <2>1. CASE q = p
    BY <2>1
  <2>2. CASE q # p
    BY <1>1, <1>2, <2>2 DEF MergeInv, MergesFit
  <2>. QED BY <2>1, <2>2
<1>. QED BY <1>3 DEF MergeInv, Upwards, Better

\* A step that begins or drops merges leaves the tables as they are.
LEMMA TablesStay ==
  ASSUME MergeInv, NEW p \in Pass, UNCHANGED <<arrived, into, members, coverage>>,
         stops' = stops \/ stops' = stops + 1,
         \A q \in Pass : q # p => merge'[q] = merge[q],
         merge[p].step \in {"adding", "counting"} => stops' = stops + 1 \/ merge'[p] = merge[p]
  PROVE  MergedIsMember' /\ CountsAreTrue'
<1>1. stops \in Nat /\ (stops' = 0 => stops' = stops)
  BY DedupAssumption DEF MergeInv, DedupTypeOK
<1>2. \A q \in Pass : merge'[q] = merge[q] => Loser(q)' = Loser(q)
  BY DEF Loser
<1>3. Live' = Live /\ \A s : Outlets(s)' = Outlets(s)
  BY DEF Live, Outlets
<1>4. ASSUME NEW q \in Pass, merge[q].step \in {"adding", "counting"} PROVE stops' # 0 \/ merge'[q] = merge[q]
  BY <1>1, <1>4
<1>5. MergedIsMember'
  <2>. SUFFICES ASSUME stops' = 0, NEW s \in arrived \ Live
                PROVE  \/ <<into[s], s>> \in members
                       \/ \E q \in Pass : merge'[q].step = "adding" /\ Loser(q)' = s /\ merge'[q].winner = into[s]
    BY <1>3 DEF MergedIsMember
  <2>1. \/ <<into[s], s>> \in members
        \/ \E q \in Pass : merge[q].step = "adding" /\ Loser(q) = s /\ merge[q].winner = into[s]
    BY <1>1 DEF MergeInv, MergedIsMember
  <2>. QED BY <1>2, <1>4, <2>1
<1>6. CountsAreTrue'
  <2>. SUFFICES ASSUME NEW s \in Copy
                PROVE  /\ coverage[s] <= 1 + Cardinality(Outlets(s))
                       /\ \/ coverage[s] = 1 + Cardinality(Outlets(s)) \/ stops' > 0
                          \/ \E q \in Pass : merge'[q].step = "counting" /\ merge'[q].winner = s
    BY <1>3 DEF CountsAreTrue
  <2>1. /\ coverage[s] <= 1 + Cardinality(Outlets(s))
        /\ \/ coverage[s] = 1 + Cardinality(Outlets(s)) \/ stops > 0
           \/ \E q \in Pass : merge[q].step = "counting" /\ merge[q].winner = s
    BY DEF MergeInv, CountsAreTrue
  <2>2. stops > 0 => stops' > 0
    BY <1>1
  <2>3. stops' # 0 => stops' > 0
    BY <1>1
  <2>. QED BY <1>4, <2>1, <2>2, <2>3
<1>. QED BY <1>5, <1>6

LEMMA MergesKeepSound == MergeInv /\ [DedupNext]_dedupVars => MergeInv'
<1>. SUFFICES ASSUME MergeInv, [DedupNext]_dedupVars PROVE MergeInv'
  OBVIOUS
<1>0. DedupTypeOK /\ MergesFit /\ DedupTypeOK' /\ Live \subseteq arrived /\ arrived \subseteq Copy
  BY DedupTypeKept DEF MergeInv, DedupTypeOK, Live
<1>. USE <1>0
<1>1. CASE UNCHANGED dedupVars
  BY <1>1 DEF dedupVars, MergeInv, Upwards, MergesFit, Twos, Loser, Better, MergedIsMember, Live,
     CountsAreTrue, Outlets
<1>2. ASSUME NEW p \in Pass, ReadRecent(p) PROVE MergeInv'
  <2>1. Upwards' /\ MergesFit'
    BY <1>2, MergesStayFit DEF ReadRecent, DedupTypeOK, MergesFit, Twos, Loser
  <2>2. MergedIsMember' /\ CountsAreTrue'
    BY <1>2, TablesStay DEF ReadRecent
  <2>. QED BY <2>1, <2>2 DEF MergeInv
<1>3. ASSUME NEW p \in Pass, LookAt(p) PROVE MergeInv'
  <2>1. PICK s \in todo[p] : \E q \in SUBSET {<<s, t>> : t \in Live \ {s}} :
          /\ todo' = [todo EXCEPT ![p] = @ \ {s}]
          /\ questions' = [questions EXCEPT ![p] = @ \cup q]
          /\ UNCHANGED merge \/ \E t \in Live \ {s} : StartMerge(p, s, t)
    BY <1>3, LooksAtTwo
  <2>2. PICK q \in SUBSET {<<s, t>> : t \in Live \ {s}} :
          /\ todo' = [todo EXCEPT ![p] = @ \ {s}]
          /\ questions' = [questions EXCEPT ![p] = @ \cup q]
          /\ UNCHANGED merge \/ \E t \in Live \ {s} : StartMerge(p, s, t)
    BY <2>1
  <2>3. s \in arrived /\ q \subseteq Twos
    <3>1. s \in arrived
      BY DEF MergesFit
    <3>2. \A t \in Live \ {s} : <<s, t>> \in Twos
      BY <3>1 DEF Twos
    <3>. QED BY <3>1, <3>2
  <2>4. merge' = merge \/ \E t \in Live \ {s} : merge' = [merge EXCEPT ![p] = [step |-> "reading", a |-> s, b |-> t, winner |-> 0]]
    BY <2>2 DEF StartMerge
  <2>5. UNCHANGED <<arrived, into, members, coverage, pairs, stops>> /\ merge[p] = NoMerge
    BY <1>3 DEF LookAt, Free
  <2>6. \A r \in Pass : r # p => todo'[r] = todo[r] /\ questions'[r] = questions[r] /\ merge'[r] = merge[r]
    BY <2>2, <2>4 DEF DedupTypeOK
  <2>7. todo'[p] \subseteq arrived /\ questions'[p] \subseteq Twos
    BY <2>2, <2>3 DEF MergesFit, DedupTypeOK
  <2>8. /\ merge'[p] # NoMerge => <<merge'[p].a, merge'[p].b>> \in Twos
        /\ merge'[p].step \notin {"superseding", "adding", "counting"}
    BY <2>3, <2>4, <2>5 DEF NoMerge, Twos, DedupTypeOK
  <2>9. Twos' = Twos /\ pairs[p] \subseteq Twos
    BY <2>5 DEF Twos, MergesFit
  <2>10. Upwards' /\ MergesFit'
    BY <2>5, <2>6, <2>7, <2>8, <2>9, MergesStayFit
  <2>11. MergedIsMember' /\ CountsAreTrue'
    BY <2>5, <2>6, TablesStay DEF NoMerge
  <2>. QED BY <2>10, <2>11 DEF MergeInv
<1>4. ASSUME NEW p \in Pass, ReadTitles(p) PROVE MergeInv'
  <2>1. UNCHANGED <<arrived, into, members, coverage, todo, questions, merge, stops>>
    BY <1>4 DEF ReadTitles
  <2>2. \A r \in Pass : r # p => pairs'[r] = pairs[r]
    BY <1>4 DEF ReadTitles, DedupTypeOK
  <2>3. pairs'[p] \subseteq Twos
    <3>1. \A q \in pairs'[p] : q \in Live \X Live /\ q[1] < q[2]
      BY <1>4 DEF ReadTitles, DedupTypeOK
    <3>2. ASSUME NEW q \in pairs'[p] PROVE q[1] # q[2]
      <4>1. q[1] \in Copy /\ q[2] \in Copy /\ q[1] < q[2]
        BY <3>1
      <4>2. \A n \in Copy : n \in Nat
        BY DEF Copy
      <4>. QED BY <4>1, <4>2
    <3>. QED BY <3>1, <3>2 DEF Twos
  <2>4. Upwards' /\ MergesFit'
    BY <2>1, <2>2, <2>3, MergesStayFit DEF MergesFit, Twos, Loser
  <2>5. MergedIsMember' /\ CountsAreTrue'
    BY <2>1, TablesStay
  <2>. QED BY <2>4, <2>5 DEF MergeInv
<1>5. ASSUME NEW p \in Pass, AskModel(p) PROVE MergeInv'
  <2>1. UNCHANGED <<arrived, into, members, coverage, todo, merge, stops>> /\ questions' = [questions EXCEPT ![p] = {}]
    BY <1>5 DEF AskModel
  <2>2. PICK kept \in SUBSET questions[p] :
          pairs' \in {[pairs EXCEPT ![p] = {q \in kept : {q[1], q[2]} \in Alike}], pairs}
    BY <1>5 DEF AskModel, kSubset
  <2>3. /\ pairs'[p] \subseteq questions[p] \cup pairs[p]
        /\ \A r \in Pass : r # p => pairs'[r] = pairs[r] /\ questions'[r] = questions[r]
    <3>1. CASE pairs' = pairs
      BY <2>1, <3>1 DEF DedupTypeOK
    <3>2. CASE pairs' = [pairs EXCEPT ![p] = {q \in kept : {q[1], q[2]} \in Alike}]
      <4>1. pairs'[p] = {q \in kept : {q[1], q[2]} \in Alike}
        BY <3>2 DEF DedupTypeOK
      <4>. QED BY <2>1, <3>2, <4>1 DEF DedupTypeOK
    <3>. QED BY <2>2, <3>1, <3>2
  <2>4. questions'[p] = {}
    BY <2>1 DEF DedupTypeOK
  <2>5. Upwards' /\ MergesFit'
    BY <2>1, <2>3, <2>4, MergesStayFit DEF MergesFit, Twos, Loser
  <2>6. MergedIsMember' /\ CountsAreTrue'
    BY <2>1, TablesStay
  <2>. QED BY <2>5, <2>6 DEF MergeInv
<1>6. ASSUME NEW p \in Pass, NextPair(p) PROVE MergeInv'
  <2>1. PICK q \in pairs[p] : StartMerge(p, q[1], q[2]) /\ pairs' = [pairs EXCEPT ![p] = @ \ {q}]
    BY <1>6 DEF NextPair
  <2>2. UNCHANGED <<arrived, into, members, coverage, todo, questions, stops>> /\ merge[p] = NoMerge
    BY <1>6 DEF NextPair, Free
  <2>3. merge'[p] = [step |-> "reading", a |-> q[1], b |-> q[2], winner |-> 0] /\ pairs'[p] \subseteq pairs[p]
        /\ \A r \in Pass : r # p => merge'[r] = merge[r] /\ pairs'[r] = pairs[r]
    BY <2>1 DEF StartMerge, DedupTypeOK
  <2>4. <<q[1], q[2]>> \in Twos
    BY DEF MergesFit, Twos
  <2>5. Upwards' /\ MergesFit'
    <3>1. Twos' = Twos
      BY <2>2 DEF Twos
    <3>2. todo[p] \subseteq arrived /\ pairs[p] \subseteq Twos /\ questions[p] \subseteq Twos
      BY DEF MergesFit
    <3>3. <<merge'[p].a, merge'[p].b>> = <<q[1], q[2]>> /\ merge'[p].step = "reading"
      BY <2>3
    <3>. QED BY <2>2, <2>3, <2>4, <3>1, <3>2, <3>3, MergesStayFit
  <2>6. MergedIsMember' /\ CountsAreTrue'
    BY <2>2, <2>3, TablesStay DEF NoMerge
  <2>. QED BY <2>5, <2>6 DEF MergeInv
<1>7. ASSUME NEW p \in Pass, Done(p) PROVE MergeInv'
  <2>1. Upwards' /\ MergesFit'
    BY <1>7, MergesStayFit DEF Done, MergesFit, Twos, Loser
  <2>2. MergedIsMember' /\ CountsAreTrue'
    BY <1>7, TablesStay DEF Done
  <2>. QED BY <2>1, <2>2 DEF MergeInv
<1>8. ASSUME NEW p \in Pass, ReadBoth(p) PROVE MergeInv'
  <2>1. UNCHANGED <<arrived, into, members, coverage, todo, pairs, questions, stops>> /\ merge[p].step = "reading"
    BY <1>8 DEF ReadBoth
  <2>2. \A r \in Pass : r # p => merge'[r] = merge[r]
    BY <1>8 DEF ReadBoth, DedupTypeOK
  <2>3. todo[p] \subseteq arrived /\ pairs[p] \subseteq Twos /\ questions[p] \subseteq Twos /\ Twos' = Twos
    BY <2>1 DEF MergesFit, Twos
  <2>4. merge[p] # NoMerge /\ <<merge[p].a, merge[p].b>> \in Twos
    BY <2>1 DEF MergesFit, NoMerge
  <2>5. CASE {merge[p].a, merge[p].b} \subseteq Live
    <3>1. merge'[p] = [merge[p] EXCEPT !.step = "superseding", !.winner = PickCanonical(merge[p].a, merge[p].b)]
      BY <1>8, <2>5 DEF ReadBoth, DedupTypeOK
    <3>2. merge'[p].a = merge[p].a /\ merge'[p].b = merge[p].b /\ merge'[p].winner = PickCanonical(merge[p].a, merge[p].b)
      BY <3>1 DEF DedupTypeOK
    <3>3. merge[p].a \in Copy /\ merge[p].b \in Copy /\ merge[p].a # merge[p].b
      BY <2>3, <2>4 DEF Twos
    <3>4. merge'[p].winner \in {merge'[p].a, merge'[p].b} /\ Better(merge'[p].winner, Loser(p)')
      BY <3>2, <3>3, TheBetterIsPicked DEF Loser, Better
    <3>5. <<merge'[p].a, merge'[p].b>> \in Twos
      BY <2>1, <3>2 DEF MergesFit, NoMerge
    <3>6. Upwards' /\ MergesFit'
      BY <2>1, <2>2, <2>3, <3>4, <3>5, MergesStayFit
    <3>7. MergedIsMember' /\ CountsAreTrue'
      BY <2>1, <2>2, TablesStay
    <3>. QED BY <3>6, <3>7 DEF MergeInv
  <2>6. CASE ~({merge[p].a, merge[p].b} \subseteq Live)
    <3>1. merge'[p] = NoMerge
      BY <1>8, <2>6 DEF ReadBoth, DedupTypeOK
    <3>2. Upwards' /\ MergesFit'
      <4>1. merge'[p].step = "none"
        BY <3>1 DEF NoMerge
      <4>. QED BY <2>1, <2>2, <2>3, <3>1, <4>1, MergesStayFit
    <3>3. MergedIsMember' /\ CountsAreTrue'
      BY <2>1, <2>2, TablesStay
    <3>. QED BY <3>2, <3>3 DEF MergeInv
  <2>. QED BY <2>5, <2>6
<1>9. ASSUME NEW p \in Pass, Stops(p) PROVE MergeInv'
  <2>1. UNCHANGED <<arrived, into, members, coverage>> /\ stops' = stops + 1
    BY <1>9 DEF Stops
  <2>2. \A r \in Pass : r # p => /\ merge'[r] = merge[r] /\ todo'[r] = todo[r] /\ pairs'[r] = pairs[r]
                                 /\ questions'[r] = questions[r]
    BY <1>9 DEF Stops, DedupTypeOK
  <2>3. merge'[p] = NoMerge /\ todo'[p] = {} /\ pairs'[p] = {} /\ questions'[p] = {}
    BY <1>9 DEF Stops, DedupTypeOK
  <2>4. Upwards' /\ MergesFit'
    <3>1. merge'[p].step = "none" /\ into' = into
      BY <1>9, <2>3 DEF NoMerge, Stops
    <3>. QED BY <2>1, <2>2, <2>3, <3>1, MergesStayFit
  <2>5. MergedIsMember' /\ CountsAreTrue'
    BY <2>1, <2>2, TablesStay
  <2>. QED BY <2>4, <2>5 DEF MergeInv
<1>10. ASSUME NEW p \in Pass, Supersede(p) PROVE MergeInv'
  <2>. DEFINE w == merge[p].winner
              l == Loser(p)
  <2>1. /\ UNCHANGED <<arrived, members, coverage, phase, todo, pairs, questions, stops>>
        /\ merge[p].step = "superseding"
        /\ into' = (IF into[l] = 0 THEN [into EXCEPT ![l] = w] ELSE into)
    BY <1>10 DEF Supersede
  <2>2. w \in arrived /\ l \in arrived /\ w \in Copy /\ l \in Copy /\ Better(w, l)
    BY <2>1, MergesOfCopies
  <2>3. /\ merge'[p] = [merge[p] EXCEPT !.step = "adding"]
        /\ \A r \in Pass : r # p => merge'[r] = merge[r]
    BY <1>10 DEF Supersede, DedupTypeOK
  <2>4. merge'[p].step = "adding" /\ merge'[p].winner = w /\ merge'[p].a = merge[p].a /\ merge'[p].b = merge[p].b
    BY <2>3 DEF DedupTypeOK
  <2>5. Loser(p)' = l /\ \A r \in Pass : r # p => Loser(r)' = Loser(r)
    BY <2>3, <2>4 DEF Loser
  <2>6. MergesFit'
    <3>. SUFFICES ASSUME NEW r \in Pass
                  PROVE /\ todo[r] \subseteq arrived /\ pairs[r] \subseteq Twos /\ questions[r] \subseteq Twos
                        /\ merge'[r] # NoMerge => <<merge'[r].a, merge'[r].b>> \in Twos
                        /\ merge'[r].step \in {"superseding", "adding", "counting"} =>
                             merge'[r].winner \in {merge'[r].a, merge'[r].b} /\ Better(merge'[r].winner, Loser(r)')
      BY <2>1 DEF MergesFit, Twos, NoMerge, Better
    <3>1. merge[p] # NoMerge
      BY <2>1 DEF NoMerge
    <3>. QED BY <2>1, <2>2, <2>3, <2>4, <2>5, <3>1 DEF MergesFit
  <2>7. \A s \in Copy : into'[s] = into[s] \/ (s = l /\ into[s] = 0 /\ into'[s] = w)
    BY <2>1, <2>2 DEF DedupTypeOK
  <2>8. Upwards'
    BY <2>1, <2>2, <2>7 DEF MergeInv, Upwards, Better
  <2>9. CountsAreTrue'
    <3>1. \A s : Outlets(s)' = Outlets(s)
      BY <2>1 DEF Outlets
    <3>2. \A r \in Pass : merge[r].step = "counting" => merge'[r] = merge[r]
      BY <2>1, <2>3
    <3>. QED BY <2>1, <3>1, <3>2 DEF MergeInv, CountsAreTrue
  <2>10. MergedIsMember'
    <3>. SUFFICES ASSUME stops = 0, NEW s \in arrived, into'[s] # 0
                  PROVE  \/ <<into'[s], s>> \in members
                         \/ \E r \in Pass : merge'[r].step = "adding" /\ Loser(r)' = s /\ merge'[r].winner = into'[s]
      BY <2>1 DEF MergedIsMember, Live
    <3>1. CASE into'[s] = into[s]
      <4>1. \/ <<into[s], s>> \in members
            \/ \E r \in Pass : merge[r].step = "adding" /\ Loser(r) = s /\ merge[r].winner = into[s]
        BY <3>1 DEF MergeInv, MergedIsMember, Live
      <4>. QED BY <2>1, <2>3, <2>5, <3>1, <4>1
    <3>2. CASE s = l /\ into'[s] = w
      BY <2>4, <2>5, <3>2
    <3>. QED BY <2>7, <3>1, <3>2
  <2>. QED BY <2>6, <2>8, <2>9, <2>10 DEF MergeInv
<1>11. ASSUME NEW p \in Pass, AddMember(p) PROVE MergeInv'
  <2>. DEFINE w == merge[p].winner
              l == Loser(p)
  <2>1. /\ UNCHANGED <<arrived, into, coverage, todo, pairs, questions, stops>>
        /\ merge[p].step = "adding" /\ members' = members \cup {<<w, l>>}
    BY <1>11 DEF AddMember
  <2>2. w \in Copy /\ l \in Copy /\ Better(w, l)
    BY <2>1, MergesOfCopies
  <2>3. /\ merge'[p] = [merge[p] EXCEPT !.step = "counting"]
        /\ \A r \in Pass : r # p => merge'[r] = merge[r]
    BY <1>11 DEF AddMember, DedupTypeOK
  <2>4. merge'[p].step = "counting" /\ merge'[p].winner = w /\ merge'[p].a = merge[p].a /\ merge'[p].b = merge[p].b
    BY <2>3 DEF DedupTypeOK
  <2>5. Loser(p)' = l /\ \A r \in Pass : r # p => Loser(r)' = Loser(r)
    BY <2>3, <2>4 DEF Loser
  <2>6. Upwards' /\ MergesFit'
    <3>1. merge[p] # NoMerge
      BY <2>1 DEF NoMerge
    <3>2. <<merge'[p].a, merge'[p].b>> \in Twos /\ w \in {merge[p].a, merge[p].b}
      BY <2>1, <2>4, <3>1 DEF MergesFit
    <3>3. Twos' = Twos
      BY <2>1 DEF Twos
    <3>. QED BY <2>1, <2>2, <2>3, <2>4, <2>5, <3>2, <3>3, MergesStayFit DEF MergesFit
  <2>7. MergedIsMember'
    <3>. SUFFICES ASSUME stops = 0, NEW s \in arrived, into[s] # 0
                  PROVE  \/ <<into[s], s>> \in members'
                         \/ \E r \in Pass : merge'[r].step = "adding" /\ Loser(r)' = s /\ merge'[r].winner = into[s]
      BY <2>1 DEF MergedIsMember, Live
    <3>1. \/ <<into[s], s>> \in members
          \/ \E r \in Pass : merge[r].step = "adding" /\ Loser(r) = s /\ merge[r].winner = into[s]
      BY DEF MergeInv, MergedIsMember, Live
    <3>. QED BY <2>1, <2>3, <2>5, <3>1
  <2>8. CountsAreTrue'
    <3>. SUFFICES ASSUME NEW s \in Copy
                  PROVE  /\ coverage[s] <= 1 + Cardinality(Outlets(s)')
                         /\ \/ coverage[s] = 1 + Cardinality(Outlets(s)') \/ stops > 0
                            \/ \E r \in Pass : merge'[r].step = "counting" /\ merge'[r].winner = s
      BY <2>1 DEF CountsAreTrue
    <3>1. /\ coverage[s] <= 1 + Cardinality(Outlets(s))
          /\ \/ coverage[s] = 1 + Cardinality(Outlets(s)) \/ stops > 0
             \/ \E r \in Pass : merge[r].step = "counting" /\ merge[r].winner = s
      BY DEF MergeInv, CountsAreTrue
    <3>2. \A r \in Pass : merge[r].step = "counting" => merge'[r] = merge[r]
      BY <2>1, <2>3
    <3>3. CASE s # w
      <4>1. Outlets(s)' = Outlets(s)
        BY <2>1, <3>3 DEF Outlets, OutletsIn
      <4>. QED BY <3>1, <3>2, <4>1
    <3>4. CASE s = w
      <4>1. /\ members \subseteq Copy \X Copy /\ members' \subseteq Copy \X Copy
            /\ coverage[s] \in Nat
        BY DEF DedupTypeOK
      <4>2. /\ IsFiniteSet(Outlets(s)') /\ Cardinality(Outlets(s)') \in Nat /\ Cardinality(Outlets(s)) \in Nat
        BY <4>1, OutletsAreCounted DEF Outlets
      <4>3. Outlets(s) \in SUBSET (Outlets(s)')
        BY <2>1 DEF Outlets, OutletsIn
      <4>4. Cardinality(Outlets(s)) <= Cardinality(Outlets(s)')
        BY <4>2, <4>3, FS_Subset
      <4>5. coverage[s] <= 1 + Cardinality(Outlets(s)')
        BY <3>1, <4>1, <4>2, <4>4
      <4>. QED BY <2>4, <3>4, <4>5
    <3>. QED BY <3>3, <3>4
  <2>. QED BY <2>6, <2>7, <2>8 DEF MergeInv
<1>12. ASSUME NEW p \in Pass, CountCoverage(p) PROVE MergeInv'
  <2>. DEFINE w == merge[p].winner
  <2>1. /\ UNCHANGED <<arrived, into, members, todo, pairs, questions, stops>>
        /\ merge[p].step = "counting" /\ coverage' = [coverage EXCEPT ![w] = Coverage(w)]
    BY <1>12 DEF CountCoverage
  <2>2. merge'[p] = NoMerge /\ \A r \in Pass : r # p => merge'[r] = merge[r]
    BY <1>12 DEF CountCoverage, DedupTypeOK
  <2>3. w \in Copy
    BY <2>1, MergesOfCopies
  <2>4. Upwards' /\ MergesFit'
    <3>1. todo[p] \subseteq arrived /\ pairs[p] \subseteq Twos /\ questions[p] \subseteq Twos /\ Twos' = Twos
      BY <2>1 DEF MergesFit, Twos
    <3>2. merge'[p].step = "none"
      BY <2>2 DEF NoMerge
    <3>. QED BY <2>1, <2>2, <3>1, <3>2, MergesStayFit
  <2>5. MergedIsMember'
    <3>1. \A r \in Pass : merge[r].step = "adding" => merge'[r] = merge[r] /\ Loser(r)' = Loser(r)
      BY <2>1, <2>2 DEF Loser
    <3>. QED BY <2>1, <3>1 DEF MergeInv, MergedIsMember, Live
  <2>6. CountsAreTrue'
    <3>. SUFFICES ASSUME NEW s \in Copy
                  PROVE  /\ coverage'[s] <= 1 + Cardinality(Outlets(s))
                         /\ \/ coverage'[s] = 1 + Cardinality(Outlets(s)) \/ stops > 0
                            \/ \E r \in Pass : merge'[r].step = "counting" /\ merge'[r].winner = s
      BY <2>1 DEF CountsAreTrue, Outlets
    <3>1. CASE s = w
      <4>1. coverage'[s] = 1 + Cardinality(Outlets(s)) /\ Cardinality(Outlets(s)) \in Nat
        BY <2>1, <2>3, <3>1, Counted DEF DedupTypeOK
      <4>. QED BY <4>1
    <3>2. CASE s # w
      <4>1. coverage'[s] = coverage[s]
        BY <2>1, <3>2 DEF DedupTypeOK
      <4>2. \A r \in Pass : merge[r].step = "counting" /\ merge[r].winner = s => merge'[r] = merge[r]
        BY <2>2, <3>2
      <4>. QED BY <4>1, <4>2 DEF MergeInv, CountsAreTrue
    <3>. QED BY <3>1, <3>2
  <2>. QED BY <2>4, <2>5, <2>6 DEF MergeInv
<1>13. ASSUME NEW s \in Copy, Arrive(s) PROVE MergeInv'
  <2>1. /\ UNCHANGED <<into, members, coverage, phase, todo, pairs, questions, merge, stops>>
        /\ s \notin arrived /\ arrived' = arrived \cup {s}
    BY <1>13 DEF Arrive
  <2>2. into[s] = 0
    BY <2>1 DEF MergeInv, Upwards
  <2>3. \A r : Loser(r)' = Loser(r) /\ Outlets(r)' = Outlets(r)
    BY <2>1 DEF Loser, Outlets
  <2>4. Twos \subseteq Twos'
    BY <2>1 DEF Twos
  <2>5. Upwards' /\ MergesFit'
    BY <2>1, <2>3, <2>4 DEF MergeInv, Upwards, MergesFit, Better, NoMerge
  <2>6. MergedIsMember' /\ CountsAreTrue'
    BY <2>1, <2>2, <2>3 DEF MergeInv, MergedIsMember, CountsAreTrue, Live
  <2>. QED BY <2>5, <2>6 DEF MergeInv
<1>14. ASSUME NEW s \in Copy, Repost(s) PROVE MergeInv'
  <2>1. /\ UNCHANGED <<arrived, into, phase, todo, pairs, questions, merge, stops>>
        /\ members' = members \cup {<<s, s>>} /\ coverage' = [coverage EXCEPT ![s] = Coverage(s)']
    BY <1>14 DEF Repost
  <2>2. Upwards' /\ MergesFit' /\ MergedIsMember'
    BY <2>1 DEF MergeInv, Upwards, MergesFit, Better, NoMerge, Twos, Loser, MergedIsMember, Live
  <2>3. CountsAreTrue'
    <3>. SUFFICES ASSUME NEW t \in Copy
                  PROVE  /\ coverage'[t] <= 1 + Cardinality(Outlets(t)')
                         /\ \/ coverage'[t] = 1 + Cardinality(Outlets(t)') \/ stops > 0
                            \/ \E r \in Pass : merge[r].step = "counting" /\ merge[r].winner = t
      BY <2>1 DEF CountsAreTrue
    <3>1. CASE t = s
      <4>1. members' \subseteq Copy \X Copy
        BY DEF DedupTypeOK
      <4>2. Coverage(s)' = 1 + Cardinality(Outlets(s)') /\ Cardinality(Outlets(s)') \in Nat
        BY <4>1, OutletsAreCounted DEF Outlets, Coverage
      <4>3. coverage'[s] = Coverage(s)'
        BY <2>1 DEF DedupTypeOK
      <4>. QED BY <3>1, <4>2, <4>3
    <3>2. CASE t # s
      <4>1. coverage'[t] = coverage[t] /\ Outlets(t)' = Outlets(t)
        BY <2>1, <3>2 DEF DedupTypeOK, Outlets, OutletsIn
      <4>. QED BY <4>1 DEF MergeInv, CountsAreTrue
    <3>. QED BY <3>1, <3>2
  <2>. QED BY <2>2, <2>3 DEF MergeInv
<1>. QED BY <1>1, <1>2, <1>3, <1>4, <1>5, <1>6, <1>7, <1>8, <1>9, <1>10, <1>11, <1>12, <1>13, <1>14 DEF DedupNext

\* Of any number of copies, outlets and passes at once, whatever is near to what and
\* whatever a model answers: no merge hides a story, and no count names an outlet too many.
THEOREM MergesStaySound == DedupSpec => []MergesAreSound
<1>1. MergeInv => MergesAreSound
  <2>. SUFFICES ASSUME MergeInv PROVE OneIsShown /\ MergedIsMember /\ CoverageIsTrue
    BY DEF MergesAreSound
  <2>1. OneIsShown
    BY TrailsEndLive DEF MergeInv
  <2>2. CoverageIsTrue
    <3>1. arrived \subseteq Copy
      BY DEF MergeInv, DedupTypeOK
    <3>. QED BY <3>1 DEF MergeInv, CountsAreTrue, CoverageIsTrue, Outlets, OutletsIn
  <2>. QED BY <2>1, <2>2 DEF MergeInv
<1>. QED BY <1>1, DedupBegins, MergesKeepSound, PTL DEF DedupSpec

\* A count never exceeds the number of copies, and nothing else leaves its type.
THEOREM DedupTypes == DedupSpec => []DedupTypeOK
<1>1. MergeInv => DedupTypeOK
  BY DEF MergeInv
<1>. QED BY <1>1, DedupBegins, MergesKeepSound, PTL DEF DedupSpec

------------------------------------------------------------------------------
(* The daily report.                                                       *)

LEMMA TodayIsNear ==
  ASSUME NEW t \in Nat
  PROVE  /\ Today(t) \in Nat
         /\ DayLength * Today(t) <= t /\ t < DayLength * Today(t) + DayLength
BY ReportsAssumption DEF Today

LEMMA DaysGoOn ==
  ASSUME NEW t \in Nat, NEW u \in Nat, t <= u
  PROVE  Today(t) <= Today(u)
<1>. SUFFICES ASSUME Today(t) >= Today(u) + 1 PROVE FALSE
  BY TodayIsNear
<1>1. DayLength \in Nat \ {0}
  BY ReportsAssumption
<1>2. DayLength * Today(t) >= DayLength * Today(u) + DayLength
  BY <1>1, TodayIsNear
<1>. QED BY <1>1, <1>2, TodayIsNear

\* What the next run begins with: no row ends later, and it has lost at most what
\* max_catchup cuts off.
LEMMA WindowJoins ==
  ASSUME ReportsTypeOK, \A d \in Stored : reports[d].to <= now
  PROVE  /\ From \in Int /\ -FirstRun <= From /\ From <= now
         /\ \A e \in Stored : reports[e].to <= From
         /\ Stored # {} => From = now - MaxCatchup \/ \E e \in Stored : From = reports[e].to
<1>. DEFINE T == {reports[d].to : d \in Stored}
<1>1. now \in Nat /\ now <= MaxTime /\ MaxTime \in Nat /\ FirstRun \in Nat /\ MaxCatchup \in Nat
  BY ReportsAssumption DEF ReportsTypeOK
<1>2. T \in SUBSET (0 .. now)
  BY <1>1 DEF ReportsTypeOK, Stored
<1>3. CASE Stored = {}
  BY <1>1, <1>3 DEF From, Covered
<1>4. CASE Stored # {}
  <2>1. PICK n \in T : \A m \in T : m <= n
    BY <1>1, <1>2, <1>4, GreatestNumber
  <2>2. Max(T) = n
    <3>0. \A x \in T : x \in Int /\ x <= n
      BY <1>1, <1>2, <2>1
    <3>. HIDE DEF T
    <3>1. \A x \in T : (\A y \in T : x >= y) => x = n
      BY <2>1, <3>0
    <3>2. \A y \in T : n >= y
      BY <2>1, <3>0
    <3>. QED BY <3>1, <3>2 DEF Max
  <2>3. Covered = n /\ n # Never /\ n \in 0 .. now
    BY <1>1, <1>2, <1>4, <2>1, <2>2 DEF Covered, Never
  <2>4. From = n \/ From = now - MaxCatchup
    <3>. DEFINE U == {n, now - MaxCatchup}
    <3>1. From = Max(U)
      BY <2>3 DEF From
    <3>2. \E x \in U : \A y \in U : x >= y
      BY <1>1, <2>3
    <3>. QED BY <3>1, <3>2 DEF Max
  <2>5. From >= n
    <3>. DEFINE U == {n, now - MaxCatchup}
    <3>1. From = Max(U)
      BY <2>3 DEF From
    <3>2. \E x \in U : \A y \in U : x >= y
      BY <1>1, <2>3
    <3>3. Max(U) >= n
      BY <3>2 DEF Max
    <3>. QED BY <3>1, <3>3
  <2>6. ASSUME NEW e \in Stored PROVE reports[e].to <= From
    <3>1. reports[e].to \in T /\ reports[e].to <= n /\ reports[e].to \in Int
      BY <1>2, <2>1
    <3>. QED BY <1>1, <2>3, <2>4, <2>5, <3>1
  <2>7. From \in Int /\ -FirstRun <= From /\ From <= now
    BY <1>1, <2>3, <2>4, <2>5
  <2>8. \E e \in Stored : n = reports[e].to
    BY <2>1
  <2>. QED BY <2>4, <2>6, <2>7, <2>8
<1>. QED BY <1>3, <1>4


\* What is not delayed can be read as soon as it is dated; the row of a day is the row of
\* a run of that day, and nothing that is stored is ahead of the clock.
ArchiveFits ==
  /\ \A s \in Story \ Delayed : dated[s] # Never => s \in readable
  /\ \A d \in Stored : reports[d].to <= now /\ Today(reports[d].to) = d
  /\ \A d \in ReportDay, f \in Field : briefings[d][f].to <= now

\* What a run in progress has read is what its window holds, and the window joins the last.
Decided(f) ==
  /\ outcome[f].status = "written" => outcome[f].pool # {}
  /\ outcome[f].status = "quiet" =>
       /\ Cardinality(outcome[f].pool) < MinCorpus
       /\ \A s \in Story \ Delayed :
            FieldOf[s] = f /\ run.from < dated[s] /\ dated[s] <= run.to => s \in outcome[f].pool
RunFits ==
  /\ run.step = "idle" => run = Idle /\ outcome = [f \in Field |-> Unread]
  /\ run.step # "idle" => run.to = now
  /\ run.step \in {"reading", "saving"} =>
       /\ \A e \in Stored : reports[e].to <= run.from
       /\ Stored # {} => run.from = run.to - MaxCatchup \/ \E e \in Stored : run.from = reports[e].to
       /\ \A f \in Field : \A s \in outcome[f].pool : run.from < dated[s] /\ dated[s] <= run.to
       /\ \A f \in Field : (run.step = "reading" /\ f \in run.left) \/ Decided(f)
  /\ run.step = "saving" =>
       /\ Field # {}
       /\ \A f \in Written \ run.left :
            LET b == briefings[Today(run.to)][f] IN b.stories = outcome[f].pool /\ b.to = run.to

\* A briefing is of the run in progress or ends where a day that is stored ends, or before.
BriefingsFit ==
  cuts = 0 =>
    \A d \in ReportDay, f \in Field :
      /\ \A s \in briefings[d][f].stories : dated[s] <= briefings[d][f].to
      /\ briefings[d][f].stories # {} =>
           \/ \E e \in Stored : briefings[d][f].to <= reports[e].to
           \/ run.step = "saving" /\ d = Today(run.to)

\* A day that is missed is made up for where max_catchup reaches into the day before.
CatchesUp == 2 * DayLength - 1 <= MaxCatchup

DaysInv ==
  /\ ReportsTypeOK /\ ArchiveFits /\ RunFits /\ BriefingsFit
  /\ ReadOnce /\ DayIsBacked /\ QuietIsTrue /\ (CatchesUp => WindowsMeet)
DaysHold == ReadOnce' /\ DayIsBacked' /\ QuietIsTrue' /\ (CatchesUp => WindowsMeet')

LEMMA IdleIsTyped ==
  /\ Idle \in [step : {"idle", "reading", "saving", "releasing"}, from : Moment, to : 0 .. MaxTime, left : SUBSET Field]
  /\ Idle.from <= Idle.to /\ \A m \in Moment : m \in Int
<1>1. MaxTime \in Nat \ {0} /\ FirstRun \in Nat \ {0}
  BY ReportsAssumption
<1>2. 0 \in Moment /\ 0 \in 0 .. MaxTime /\ \A m \in Moment : m \in Int
  BY <1>1 DEF Moment
<1>. QED BY <1>2 DEF Idle

LEMMA ReportsBegin == ReportsInit => DaysInv
<1>. SUFFICES ASSUME ReportsInit PROVE DaysInv
  OBVIOUS
<1>1. Stored = {}
  BY DEF ReportsInit, Stored
<1>2. ReportsTypeOK
  <2>1. 0 \in 0 .. MaxTime /\ 0 \in 0 .. MaxCuts
    BY ReportsAssumption
  <2>2. NoBriefing \in [from : Int, to : 0 .. MaxTime, stories : SUBSET Story]
    BY <2>1 DEF NoBriefing
  <2>3. NoDay \in [from : Int, to : 0 .. MaxTime, written : SUBSET Field, quiet : SUBSET Field]
    BY <2>1 DEF NoDay
  <2>4. Never \in 0 .. Never
    BY ReportsAssumption DEF Never
  <2>. QED BY <2>1, <2>2, <2>3, <2>4, IdleIsTyped DEF ReportsInit, ReportsTypeOK, Unread
<1>3. ArchiveFits /\ RunFits /\ BriefingsFit
  BY <1>1 DEF ReportsInit, ArchiveFits, RunFits, BriefingsFit, Idle, NoBriefing
<1>4. ReadOnce /\ DayIsBacked /\ QuietIsTrue /\ WindowsMeet
  BY <1>1 DEF ReportsInit, ReadOnce, DayIsBacked, QuietIsTrue, WindowsMeet, NoBriefing
<1>. QED BY <1>2, <1>3, <1>4 DEF DaysInv

\* What comes of a field: the pool that was read, or nothing read and nothing written.
LEMMA WhatComes ==
  ASSUME ReportsTypeOK, NEW f \in Field, NEW o \in Comes(f)
  PROVE  /\ o \in [status : {"none", "quiet", "written", "unwritten"}, pool : SUBSET Story]
         /\ o = Thrown \/ o.pool = Pool(f, run.from, run.to)
         /\ o.status = "written" => o.pool # {}
         /\ o.status = "quiet" =>
              o.pool = Pool(f, run.from, run.to) /\ Cardinality(o.pool) < MinCorpus
<1>. DEFINE P == Pool(f, run.from, run.to)
<1>1. P \in SUBSET Story
  BY DEF Pool, ReportsTypeOK
<1>2. P = {} => Cardinality(P) < MinCorpus
  BY FS_EmptySet, ReportsAssumption
<1>. HIDE DEF P
<1>3. CASE o = Thrown
  <2>1. o.status = "unwritten" /\ o.pool = {}
    BY <1>3 DEF Thrown
  <2>. QED BY <1>3, <2>1 DEF Thrown
<1>4. CASE Cardinality(P) < MinCorpus /\ o = [status |-> "quiet", pool |-> P]
  BY <1>1, <1>4 DEF P
<1>5. CASE P # {} /\ \E s \in {"written", "unwritten"} : o = [status |-> s, pool |-> P]
  BY <1>1, <1>5 DEF P
<1>. QED BY <1>2, <1>3, <1>4, <1>5 DEF Comes, P

LEMMA ReportsTypeKept == ReportsTypeOK /\ ArchiveFits /\ RunFits /\ [ReportsNext]_reportVars => ReportsTypeOK'
<1>. SUFFICES ASSUME ReportsTypeOK, ArchiveFits, RunFits, [ReportsNext]_reportVars PROVE ReportsTypeOK'
  OBVIOUS
<1>0. MaxTime \in Nat \ {0} /\ MaxCuts \in Nat /\ now \in 0 .. MaxTime
  BY ReportsAssumption DEF ReportsTypeOK
<1>1. CASE UNCHANGED reportVars
  BY <1>1 DEF reportVars, ReportsTypeOK
<1>2. ASSUME NEW s \in Story, Publish(s) PROVE ReportsTypeOK'
  <2>1. now + 1 \in 0 .. Never
    BY <1>0 DEF Never
  <2>. QED BY <1>2, <2>1 DEF Publish, ReportsTypeOK
<1>3. ASSUME NEW s \in Story, TurnUp(s) PROVE ReportsTypeOK'
  BY <1>3 DEF TurnUp, ReportsTypeOK
<1>4. CASE Begin
  <2>1. From \in Moment /\ From <= now
    BY <1>0, WindowJoins, ReportsAssumption DEF ArchiveFits, Moment
  <2>2. run' = [step |-> "reading", from |-> From, to |-> now, left |-> Field]
    BY <1>4 DEF Begin
  <2>. QED BY <1>4, <2>1, <2>2 DEF Begin, ReportsTypeOK
<1>5. ASSUME NEW f \in Field, Brief(f) PROVE ReportsTypeOK'
  <2>1. PICK o \in Comes(f) : outcome' = [outcome EXCEPT ![f] = o]
    BY <1>5 DEF Brief
  <2>2. o \in [status : {"none", "quiet", "written", "unwritten"}, pool : SUBSET Story]
    BY <2>1, WhatComes
  <2>3. outcome' \in [Field -> [status : {"none", "quiet", "written", "unwritten"}, pool : SUBSET Story]]
    BY <2>1, <2>2 DEF ReportsTypeOK
  <2>4. /\ run' \in [step : {"idle", "reading", "saving", "releasing"}, from : Moment, to : 0 .. MaxTime, left : SUBSET Field]
        /\ run'.from = run.from /\ run'.to = run.to
    BY <1>5 DEF Brief, ReportsTypeOK
  <2>. QED BY <1>5, <2>3, <2>4 DEF Brief, ReportsTypeOK
<1>6. ASSUME NEW f \in Field, SaveField(f) PROVE ReportsTypeOK'
  <2>1. [from |-> run.from, to |-> run.to, stories |-> outcome[f].pool]
          \in [from : Int, to : 0 .. MaxTime, stories : SUBSET Story]
    BY IdleIsTyped DEF ReportsTypeOK
  <2>2. briefings' \in [ReportDay -> [Field -> [from : Int, to : 0 .. MaxTime, stories : SUBSET Story]]]
    BY <1>6, <2>1 DEF SaveField, ReportsTypeOK
  <2>. QED BY <1>6, <2>2 DEF SaveField, ReportsTypeOK
<1>7. CASE SaveDay
  <2>1. DayRow \in [from : Int, to : 0 .. MaxTime, written : SUBSET Field, quiet : SUBSET Field]
    BY IdleIsTyped DEF DayRow, Written, Came, ReportsTypeOK
  <2>2. (run.from + 1) .. run.to \subseteq Moment
    BY <1>0, ReportsAssumption DEF ReportsTypeOK, Moment
  <2>. QED BY <1>7, <2>1, <2>2 DEF SaveDay, ReportsTypeOK
<1>8. CASE PutDown
  <2>1. Idle \in [step : {"idle", "reading", "saving", "releasing"}, from : Moment, to : 0 .. MaxTime, left : SUBSET Field]
        /\ Idle.from <= Idle.to
    BY IdleIsTyped
  <2>. QED BY <1>8, <2>1 DEF PutDown, ReportsTypeOK, Unread
<1>9. CASE CutShort
  BY <1>0, <1>9, IdleIsTyped DEF CutShort, ReportsTypeOK, Unread
<1>10. CASE Tick
  BY <1>0, <1>10 DEF Tick, ReportsTypeOK
<1>. QED BY <1>1, <1>2, <1>3, <1>4, <1>5, <1>6, <1>7, <1>8, <1>9, <1>10 DEF ReportsNext

\* A step of a run that stores nothing.
LEMMA TablesStand ==
  ASSUME DaysInv, UNCHANGED <<briefings, reports, swept>>,
         cuts' = 0 => cuts = 0,
         \A s \in Story : dated'[s] = dated[s] \/ (dated[s] = Never /\ dated'[s] = now + 1),
         run.step = "saving" /\ cuts' = 0 => run'.step = "saving" /\ run'.to = run.to
  PROVE  DaysHold /\ BriefingsFit'
<1>1. Stored' = Stored
  BY DEF Stored
<1>2. /\ MaxTime \in Nat /\ now \in 0 .. MaxTime
      /\ \A d \in ReportDay : reports[d].to \in 0 .. MaxTime
      /\ \A d \in Stored : d \in ReportDay /\ reports[d].to <= now
  BY ReportsAssumption DEF DaysInv, ReportsTypeOK, ArchiveFits, Stored
<1>3. (cuts = 0 => ReadOnce) /\ DayIsBacked /\ QuietIsTrue /\ (CatchesUp => WindowsMeet)
  BY DEF DaysInv
<1>4. ReadOnce' /\ DayIsBacked' /\ (CatchesUp => WindowsMeet')
  BY <1>1, <1>3 DEF ReadOnce, DayIsBacked, WindowsMeet, Unbroken
<1>5. QuietIsTrue'
  <2>. SUFFICES ASSUME NEW d \in Stored, NEW f \in reports[d].quiet
                PROVE  Cardinality({s \in Story \ Delayed : FieldOf[s] = f
                         /\ reports[d].from < dated'[s] /\ dated'[s] <= reports[d].to}) < MinCorpus
    BY <1>1 DEF QuietIsTrue
  <2>1. ASSUME NEW s \in Story, dated'[s] # dated[s]
        PROVE  ~(dated[s] <= reports[d].to) /\ ~(dated'[s] <= reports[d].to)
    <3>1. reports[d].to <= now /\ reports[d].to \in 0 .. MaxTime
      BY <1>2
    <3>. QED BY <1>2, <2>1, <3>1 DEF Never
  <2>2. {s \in Story \ Delayed : FieldOf[s] = f
           /\ reports[d].from < dated'[s] /\ dated'[s] <= reports[d].to}
        = {s \in Story \ Delayed : FieldOf[s] = f
           /\ reports[d].from < dated[s] /\ dated[s] <= reports[d].to}
    BY <2>1
  <2>. QED BY <1>3, <2>2 DEF QuietIsTrue
<1>6. BriefingsFit'
  <2>. SUFFICES ASSUME cuts' = 0, NEW d \in ReportDay, NEW f \in Field
                PROVE  /\ \A s \in briefings[d][f].stories : dated'[s] <= briefings[d][f].to
                       /\ briefings[d][f].stories # {} =>
                            \/ \E e \in Stored : briefings[d][f].to <= reports[e].to
                            \/ run'.step = "saving" /\ d = Today(run'.to)
    BY <1>1 DEF BriefingsFit
  <2>1. /\ \A s \in briefings[d][f].stories : dated[s] <= briefings[d][f].to
        /\ briefings[d][f].stories # {} =>
             \/ \E e \in Stored : briefings[d][f].to <= reports[e].to
             \/ run.step = "saving" /\ d = Today(run.to)
    BY DEF DaysInv, BriefingsFit
  <2>2. briefings[d][f].to \in 0 .. MaxTime /\ briefings[d][f].stories \subseteq Story
    BY DEF DaysInv, ReportsTypeOK
  <2>3. ASSUME NEW s \in briefings[d][f].stories PROVE dated'[s] = dated[s]
    <3>1. dated[s] <= MaxTime
      BY <1>2, <2>1, <2>2 DEF DaysInv, ReportsTypeOK, Never
    <3>. QED BY <1>2, <2>2, <3>1 DEF Never
  <2>. QED BY <2>1, <2>3
<1>. QED BY <1>4, <1>5, <1>6 DEF DaysHold

LEMMA DaysStayWhole == DaysInv /\ [ReportsNext]_reportVars => DaysInv'
<1>. SUFFICES ASSUME DaysInv, [ReportsNext]_reportVars PROVE DaysInv'
  OBVIOUS
<1>0. ReportsTypeOK /\ ArchiveFits /\ RunFits /\ ReportsTypeOK'
  BY ReportsTypeKept DEF DaysInv
<1>1. MaxTime \in Nat /\ now \in 0 .. MaxTime /\ MaxCuts \in Nat /\ cuts \in 0 .. MaxCuts
  BY <1>0, ReportsAssumption DEF ReportsTypeOK
<1>. USE <1>0
<1>2. CASE UNCHANGED reportVars
  <2>1. /\ UNCHANGED <<now, dated, readable, run, outcome, briefings, reports, swept, cuts>>
        /\ Stored' = Stored /\ Written' = Written /\ \A f : Decided(f)' = Decided(f)
    BY <1>2 DEF reportVars, Stored, Written, Came, Decided
  <2>2. DaysHold /\ BriefingsFit'
    BY <2>1, TablesStand
  <2>. QED BY <2>1, <2>2 DEF DaysInv, DaysHold, ArchiveFits, RunFits
<1>3. ASSUME NEW s \in Story, Publish(s) PROVE DaysInv'
  <2>1. /\ UNCHANGED <<now, due, run, outcome, briefings, reports, swept, cuts>>
        /\ dated[s] = Never /\ dated'[s] = now + 1 /\ \A t \in Story : t # s => dated'[t] = dated[t]
        /\ readable \subseteq readable' /\ (s \notin Delayed => s \in readable')
    BY <1>3 DEF Publish, ReportsTypeOK
  <2>2. DaysHold /\ BriefingsFit'
    BY <2>1, TablesStand
  <2>3. Stored' = Stored /\ Written' = Written
    BY <2>1 DEF Stored, Written, Came
  <2>4. ArchiveFits'
    BY <2>1, <2>3 DEF ArchiveFits
  <2>5. RunFits'
    <3>1. run.step # "idle" => ~(dated'[s] <= run.to) /\ ~(dated[s] <= run.to)
      BY <1>1, <2>1 DEF RunFits, Never
    <3>2. \A f \in Field : run.step \in {"reading", "saving"} /\ Decided(f) => Decided(f)'
      BY <2>1, <3>1 DEF Decided
    <3>3. \A f \in Field : run.step \in {"reading", "saving"} => \A t \in outcome[f].pool : dated'[t] = dated[t]
      BY <2>1, <3>1 DEF RunFits, ReportsTypeOK
    <3>. QED BY <2>1, <2>3, <3>2, <3>3 DEF RunFits
  <2>. QED BY <2>2, <2>4, <2>5 DEF DaysInv, DaysHold
<1>4. ASSUME NEW s \in Story, TurnUp(s) PROVE DaysInv'
  <2>1. UNCHANGED <<now, dated, due, run, outcome, briefings, reports, swept, cuts>> /\ readable \subseteq readable'
    BY <1>4 DEF TurnUp
  <2>2. DaysHold /\ BriefingsFit'
    BY <2>1, TablesStand
  <2>3. Stored' = Stored /\ Written' = Written /\ \A f : Decided(f)' = Decided(f)
    BY <2>1 DEF Stored, Written, Came, Decided
  <2>. QED BY <2>1, <2>2, <2>3 DEF DaysInv, DaysHold, ArchiveFits, RunFits
<1>5. CASE Begin
  <2>1. /\ UNCHANGED <<now, dated, readable, outcome, briefings, reports, swept, cuts>>
        /\ run = Idle
        /\ run' = [step |-> "reading", from |-> From, to |-> now, left |-> Field]
    BY <1>5 DEF Begin
  <2>2. DaysHold /\ BriefingsFit'
    BY <2>1, TablesStand DEF Idle
  <2>3. Stored' = Stored
    BY <2>1 DEF Stored
  <2>4. /\ \A e \in Stored : reports[e].to <= From
        /\ Stored # {} => From = now - MaxCatchup \/ \E e \in Stored : From = reports[e].to
    BY WindowJoins DEF ArchiveFits
  <2>5. RunFits'
    BY <2>1, <2>3, <2>4 DEF RunFits, Idle, Unread
  <2>6. ArchiveFits'
    BY <2>1, <2>3 DEF ArchiveFits
  <2>. QED BY <2>2, <2>5, <2>6 DEF DaysInv, DaysHold
<1>6. CASE PutDown
  <2>1. /\ UNCHANGED <<now, dated, readable, briefings, reports, swept, cuts>>
        /\ run.step = "releasing" /\ run' = Idle /\ outcome' = [f \in Field |-> Unread]
    BY <1>6 DEF PutDown
  <2>2. DaysHold /\ BriefingsFit'
    BY <2>1, TablesStand
  <2>3. ArchiveFits' /\ RunFits'
    BY <2>1 DEF ArchiveFits, RunFits, Idle, Unread, Stored
  <2>. QED BY <2>2, <2>3 DEF DaysInv, DaysHold
<1>7. CASE CutShort
  <2>1. /\ UNCHANGED <<now, dated, readable, briefings, reports, swept>>
        /\ run' = Idle /\ outcome' = [f \in Field |-> Unread] /\ cuts' = cuts + 1
    BY <1>7 DEF CutShort
  <2>2. cuts' # 0
    BY <1>1, <2>1
  <2>3. DaysHold /\ BriefingsFit'
    BY <2>1, <2>2, TablesStand
  <2>4. ArchiveFits' /\ RunFits'
    BY <2>1 DEF ArchiveFits, RunFits, Idle, Unread, Stored
  <2>. QED BY <2>3, <2>4 DEF DaysInv, DaysHold
<1>8. CASE Tick
  <2>1. /\ UNCHANGED <<dated, readable, run, outcome, briefings, reports, swept, cuts>>
        /\ run = Idle /\ now' = now + 1
    BY <1>8 DEF Tick
  <2>2. DaysHold /\ BriefingsFit'
    BY <2>1, TablesStand
  <2>3. /\ Stored' = Stored /\ \A d \in Stored : reports[d].to \in Int
        /\ \A d \in ReportDay, f \in Field : briefings[d][f].to \in Int
    BY <2>1 DEF Stored, ReportsTypeOK
  <2>4. ArchiveFits' /\ RunFits'
    BY <1>1, <2>1, <2>3 DEF ArchiveFits, RunFits, Idle
  <2>. QED BY <2>2, <2>4 DEF DaysInv, DaysHold
<1>9. ASSUME NEW f \in Field, Brief(f) PROVE DaysInv'
  <2>. DEFINE P == Pool(f, run.from, run.to)
  <2>1. PICK o \in Comes(f) : outcome' = [outcome EXCEPT ![f] = o]
    BY <1>9 DEF Brief
  <2>2. /\ UNCHANGED <<now, dated, readable, due, briefings, reports, swept, cuts>>
        /\ run.step = "reading" /\ f \in run.left
        /\ run' = (IF run.left = {f} THEN [run EXCEPT !.step = "saving", !.left = Field]
                   ELSE [run EXCEPT !.left = @ \ {f}])
    BY <1>9 DEF Brief
  <2>3. /\ outcome'[f] = o
        /\ \A g \in Field : g # f => outcome'[g] = outcome[g]
    BY <2>1 DEF ReportsTypeOK
  <2>4. /\ o = Thrown \/ o.pool = P
        /\ o.status = "written" => o.pool # {}
        /\ o.status = "quiet" => o.pool = P /\ Cardinality(o.pool) < MinCorpus
    BY <2>1, WhatComes
  <2>5. /\ run'.from = run.from /\ run'.to = run.to
        /\ \/ run'.step = "saving" /\ run'.left = Field /\ run.left = {f}
           \/ run'.step = "reading" /\ run'.left = run.left \ {f}
    BY <2>2 DEF ReportsTypeOK
  <2>6. DaysHold /\ BriefingsFit'
    BY <2>2, TablesStand
  <2>7. Stored' = Stored
    BY <2>2 DEF Stored
  <2>8. Decided(f)'
    <3>1. ASSUME NEW s \in Story \ Delayed, FieldOf[s] = f, run.from < dated[s], dated[s] <= run.to PROVE s \in P
      <4>1. dated[s] # Never
        BY <1>1, <3>1 DEF ReportsTypeOK, Never
      <4>. QED BY <3>1, <4>1 DEF ArchiveFits, Pool
    <3>. QED BY <2>2, <2>3, <2>4, <2>5, <3>1 DEF Decided
  <2>9. \A g \in Field : g # f => (Decided(g) => Decided(g)')
    BY <2>2, <2>3, <2>5 DEF Decided
  <2>10. \A g \in Field : \A s \in outcome'[g].pool : run.from < dated[s] /\ dated[s] <= run.to
    <3>1. \A s \in o.pool : run.from < dated[s] /\ dated[s] <= run.to
      BY <2>4 DEF Pool, Thrown
    <3>. QED BY <2>2, <2>3, <3>1 DEF RunFits
  <2>11. \A g \in Field : (run'.step = "reading" /\ g \in run'.left) \/ Decided(g)'
    BY <2>2, <2>5, <2>8, <2>9 DEF RunFits
  <2>12. RunFits'
    BY <2>2, <2>5, <2>7, <2>10, <2>11 DEF RunFits, Written, Came
  <2>. QED BY <2>2, <2>6, <2>7, <2>12 DEF DaysInv, DaysHold, ArchiveFits
<1>10. run.step = "saving" => Today(run.to) \in ReportDay /\ run.to = now
  <2>1. \A t \in 0 .. MaxTime : Today(t) \in ReportDay
    BY <1>1, TodayIsNear, DaysGoOn DEF ReportDay
  <2>. QED BY <2>1 DEF RunFits, ReportsTypeOK
<1>11. ASSUME run.step = "saving", NEW f \in Written PROVE f \in Field /\ outcome[f].pool # {}
  <2>1. f \in Field /\ outcome[f].status = "written"
    BY DEF Written, Came
  <2>. QED BY <1>11, <2>1 DEF RunFits, Decided
<1>12. ASSUME NEW f \in Field, SaveField(f) PROVE DaysInv'
  <2>. DEFINE D == Today(run.to)
  <2>1. /\ UNCHANGED <<now, dated, readable, due, outcome, reports, swept, cuts>>
        /\ run.step = "saving" /\ f \in run.left /\ f \in Written
        /\ run' = [run EXCEPT !.left = @ \ {f}]
    BY <1>12 DEF SaveField
  <2>2. D \in ReportDay /\ run.to = now
    BY <1>10, <2>1
  <2>3. /\ briefings'[D][f] = [from |-> run.from, to |-> run.to, stories |-> outcome[f].pool]
        /\ \A d \in ReportDay, g \in Field : d # D \/ g # f => briefings'[d][g] = briefings[d][g]
    BY <1>12, <2>2 DEF SaveField, ReportsTypeOK
  <2>4. run'.step = "saving" /\ run'.from = run.from /\ run'.to = run.to /\ run'.left = run.left \ {f}
    BY <2>1 DEF ReportsTypeOK
  <2>5. Stored' = Stored /\ Written' = Written /\ \A g : Decided(g)' = Decided(g)
    BY <2>1, <2>4 DEF Stored, Written, Came, Decided
  <2>6. outcome[f].pool # {} /\ outcome[f].pool \subseteq Story
    BY <1>11, <2>1 DEF ReportsTypeOK
  <2>. HIDE DEF D
  <2>7. ArchiveFits'
    <3>1. \A d \in ReportDay, g \in Field : briefings'[d][g].to <= now
      BY <1>1, <2>2, <2>3 DEF ArchiveFits
    <3>. QED BY <2>1, <2>5, <3>1 DEF ArchiveFits
  <2>8. RunFits'
    <3>1. \A g \in Written \ run'.left : briefings'[D][g].stories = outcome[g].pool /\ briefings'[D][g].to = run.to
      BY <2>1, <2>2, <2>3, <2>4 DEF RunFits, D, Written, Came
    <3>. QED BY <2>1, <2>4, <2>5, <3>1 DEF RunFits, D
  <2>9. ReadOnce'
    <3>. SUFFICES ASSUME cuts = 0, NEW d \in ReportDay, NEW e \in ReportDay, NEW g \in Field, d # e
                  PROVE  briefings'[d][g].stories \cap briefings'[e][g].stories = {}
      BY <2>1 DEF ReadOnce
    <3>1. briefings[d][g].stories \cap briefings[e][g].stories = {}
      BY DEF DaysInv, ReadOnce
    <3>2. ASSUME NEW b \in ReportDay, b # D, NEW s \in outcome[f].pool, s \in briefings[b][f].stories PROVE FALSE
      <4>1. PICK r \in Stored : briefings[b][f].to <= reports[r].to
        BY <3>2 DEF DaysInv, BriefingsFit, D
      <4>2. dated[s] <= briefings[b][f].to /\ reports[r].to <= run.from /\ run.from < dated[s]
        BY <2>1, <3>2 DEF DaysInv, BriefingsFit, RunFits
      <4>3. dated[s] \in Int /\ briefings[b][f].to \in Int /\ reports[r].to \in Int /\ run.from \in Int
        BY <2>6, IdleIsTyped DEF ReportsTypeOK, Stored
      <4>. QED BY <4>1, <4>2, <4>3
    <3>. QED BY <2>3, <3>1, <3>2
  <2>10. DayIsBacked'
    <3>. SUFFICES ASSUME NEW d \in Stored, NEW g \in reports[d].written
                  PROVE  briefings'[d][g].stories # {} /\ briefings'[d][g].to >= reports[d].to
      BY <2>1, <2>5 DEF DayIsBacked
    <3>1. d \in ReportDay /\ g \in Field /\ reports[d].to \in Int /\ reports[d].to <= now /\ now \in Int
      BY DEF ReportsTypeOK, Stored, ArchiveFits
    <3>2. briefings[d][g].stories # {} /\ briefings[d][g].to >= reports[d].to
      BY DEF DaysInv, DayIsBacked
    <3>3. CASE d = D /\ g = f
      BY <2>2, <2>3, <2>6, <3>1, <3>3
    <3>4. CASE d # D \/ g # f
      BY <2>3, <3>1, <3>2, <3>4
    <3>. QED BY <3>3, <3>4
  <2>11. QuietIsTrue' /\ (CatchesUp => WindowsMeet')
    BY <2>1, <2>5 DEF DaysInv, QuietIsTrue, WindowsMeet, Unbroken
  <2>12. BriefingsFit'
    <3>. SUFFICES ASSUME cuts = 0, NEW d \in ReportDay, NEW g \in Field
                  PROVE  /\ \A s \in briefings'[d][g].stories : dated[s] <= briefings'[d][g].to
                         /\ briefings'[d][g].stories # {} =>
                              \/ \E e \in Stored : briefings'[d][g].to <= reports[e].to
                              \/ d = D
      BY <2>1, <2>4, <2>5 DEF BriefingsFit, D
    <3>1. /\ \A s \in briefings[d][g].stories : dated[s] <= briefings[d][g].to
          /\ briefings[d][g].stories # {} =>
               \/ \E e \in Stored : briefings[d][g].to <= reports[e].to
               \/ d = D
      BY DEF DaysInv, BriefingsFit, D
    <3>2. \A s \in outcome[f].pool : dated[s] <= run.to
      BY <2>1 DEF RunFits
    <3>. QED BY <2>3, <3>1, <3>2
  <2>. QED BY <2>7, <2>8, <2>9, <2>10, <2>11, <2>12 DEF DaysInv
<1>13. CASE SaveDay
  <2>. DEFINE D == Today(run.to)
  <2>1. /\ UNCHANGED <<now, dated, readable, due, outcome, briefings, cuts>>
        /\ run.step = "saving" /\ run.left \cap Written = {}
        /\ reports' = [reports EXCEPT ![D] = DayRow]
        /\ swept' = swept \cup ((run.from + 1) .. run.to)
        /\ run' = [run EXCEPT !.step = "releasing"]
    BY <1>13 DEF SaveDay
  <2>2. D \in ReportDay /\ run.to = now /\ run.from \in Int /\ run.from <= run.to
    BY <1>10, <2>1, IdleIsTyped DEF ReportsTypeOK
  <2>3. /\ reports'[D] = DayRow /\ \A d \in ReportDay : d # D => reports'[d] = reports[d]
        /\ run'.step = "releasing" /\ run'.to = run.to
    BY <2>1, <2>2 DEF ReportsTypeOK
  <2>4. DayRow # NoDay
    BY <2>2 DEF DayRow, NoDay
  <2>5. /\ Stored' = Stored \cup {D} /\ Stored' \subseteq ReportDay
        /\ DayRow.from = run.from /\ DayRow.to = run.to
        /\ DayRow.written = Written /\ DayRow.quiet = Came("quiet")
    BY <2>2, <2>3, <2>4 DEF Stored, DayRow
  <2>6. \A d \in Stored' : /\ reports'[d].to \in Int /\ reports[d].to \in Int /\ reports'[d].from \in Int
                           /\ reports'[d].to <= now /\ Today(reports'[d].to) = d
                           /\ d # D => d \in Stored /\ reports'[d] = reports[d]
    <3>1. ASSUME NEW d \in Stored', d # D PROVE d \in Stored /\ d \in ReportDay /\ reports'[d] = reports[d]
      BY <2>3, <2>5, <3>1
    <3>2. now <= now
      BY <1>1
    <3>. QED BY <2>2, <2>3, <2>5, <3>1, <3>2 DEF ArchiveFits, ReportsTypeOK
  <2>. HIDE DEF D
  <2>7. ArchiveFits' /\ RunFits'
    BY <2>1, <2>2, <2>3, <2>6 DEF ArchiveFits, RunFits
  <2>8. ReadOnce'
    BY <2>1 DEF DaysInv, ReadOnce
  <2>9. DayIsBacked'
    <3>. SUFFICES ASSUME NEW d \in Stored', NEW f \in reports'[d].written
                  PROVE  briefings[d][f].stories # {} /\ briefings[d][f].to >= reports'[d].to
      BY <2>1 DEF DayIsBacked
    <3>1. CASE d = D
      <4>1. f \in Written /\ f \notin run.left /\ reports'[d].to = run.to
        BY <2>1, <2>3, <2>5, <3>1
      <4>2. briefings[D][f].stories = outcome[f].pool /\ briefings[D][f].to = run.to
        BY <2>1, <4>1 DEF RunFits, D
      <4>. QED BY <1>1, <1>11, <2>1, <2>2, <3>1, <4>1, <4>2
    <3>2. CASE d # D
      BY <2>6, <3>2 DEF DaysInv, DayIsBacked
    <3>. QED BY <3>1, <3>2
  <2>10. BriefingsFit'
    <3>. SUFFICES ASSUME cuts = 0, NEW d \in ReportDay, NEW f \in Field
                  PROVE  /\ \A s \in briefings[d][f].stories : dated[s] <= briefings[d][f].to
                         /\ briefings[d][f].stories # {} => \E e \in Stored' : briefings[d][f].to <= reports'[e].to
      BY <2>1 DEF BriefingsFit
    <3>1. /\ \A s \in briefings[d][f].stories : dated[s] <= briefings[d][f].to
          /\ briefings[d][f].stories # {} =>
               \/ \E e \in Stored : briefings[d][f].to <= reports[e].to
               \/ d = D
      BY DEF DaysInv, BriefingsFit, D
    <3>2. D \in Stored' /\ briefings[d][f].to <= reports'[D].to
      BY <2>2, <2>3, <2>5 DEF ArchiveFits
    <3>. QED BY <3>1, <3>2
  <2>11. ASSUME CatchesUp PROVE WindowsMeet'
    <3>. SUFFICES ASSUME Unbroken', NEW d \in Stored', NEW e \in Stored',
                         NEW m \in (reports'[d].from + 1) .. reports'[e].to
                  PROVE  m \in swept'
      BY DEF WindowsMeet
    <3>1. m \in Int /\ reports'[d].from < m /\ m <= reports'[e].to
      BY <2>6
    <3>2. m <= run.to
      <4>1. reports'[e].to <= now
        BY <2>6
      <4>. QED BY <1>1, <2>2, <2>6, <3>1, <4>1
    <3>3. CASE run.from < m
      BY <2>1, <2>2, <3>1, <3>2, <3>3
    <3>4. CASE ~(run.from < m)
      <4>1. d # D /\ d \in Stored /\ reports[d].from < m
        BY <2>3, <2>5, <2>6, <3>1, <3>4
      <4>2. \A b \in Stored : b <= D
        BY <1>1, <2>2, DaysGoOn DEF ArchiveFits, ReportsTypeOK, Stored, D
      <4>3. Unbroken
        <5>. SUFFICES ASSUME NEW b \in ReportDay, NEW c \in Stored, b <= c PROVE b \in Stored
          BY DEF Unbroken
        <5>1. b \in Stored'
          BY <2>5 DEF Unbroken
        <5>2. b = D => c = D
          BY <4>2 DEF ReportDay, Stored
        <5>. QED BY <2>5, <5>1, <5>2
      <4>4. PICK c \in Stored : D - 1 <= c
        <5>1. d \in Int /\ 0 <= d /\ d <= D /\ D \in Int
          BY <2>2, <4>1, <4>2 DEF ReportDay, Stored
        <5>2. D - 1 \in ReportDay
          <6>1. d # D /\ Today(MaxTime) \in Nat
            BY <1>1, <4>1, TodayIsNear
          <6>. QED BY <2>2, <5>1, <6>1 DEF ReportDay
        <5>3. D - 1 \in Stored'
          BY <2>5, <5>1, <5>2 DEF Unbroken
        <5>. QED BY <2>5, <5>1, <5>3
      <4>5. run.to - reports[c].to <= 2 * DayLength - 1
        <5>1. run.to \in Nat /\ reports[c].to \in Nat /\ DayLength \in Nat \ {0} /\ D \in Nat /\ c \in Nat
          <6>1. c \in ReportDay /\ D \in ReportDay /\ reports[c].to \in 0 .. MaxTime
            BY <2>2 DEF ReportsTypeOK, Stored
          <6>2. \A n \in ReportDay : n \in Nat
            BY DEF ReportDay
          <6>. QED BY <1>1, <2>2, <6>1, <6>2, ReportsAssumption
        <5>2. run.to < DayLength * D + DayLength /\ DayLength * c <= reports[c].to
          BY <5>1, TodayIsNear DEF ArchiveFits, D
        <5>3. DayLength * D <= DayLength * c + DayLength
          BY <4>4, <5>1
        <5>4. DayLength * D \in Int /\ DayLength * c \in Int
          BY <5>1
        <5>. QED BY <5>1, <5>2, <5>3, <5>4
      <4>6. PICK b \in Stored : run.from = reports[b].to
        <5>1. run.from = run.to - MaxCatchup => run.from = reports[c].to
          <6>1. reports[c].to <= run.from /\ reports[c].to \in Int /\ MaxCatchup \in Int /\ DayLength \in Int
            BY <2>1, ReportsAssumption DEF RunFits, ReportsTypeOK, Stored
          <6>. QED BY <1>1, <2>2, <2>11, <4>5, <6>1 DEF CatchesUp
        <5>. QED BY <2>1, <5>1 DEF RunFits
      <4>7. m \in (reports[d].from + 1) .. reports[b].to
        BY <2>2, <2>6, <3>1, <3>4, <4>1, <4>6 DEF ReportsTypeOK, Stored
      <4>. QED BY <2>1, <2>11, <4>1, <4>3, <4>6, <4>7 DEF DaysInv, WindowsMeet
    <3>. QED BY <3>3, <3>4
  <2>12. QuietIsTrue'
    <3>. SUFFICES ASSUME NEW d \in Stored', NEW f \in reports'[d].quiet
                  PROVE  Cardinality({s \in Story \ Delayed : FieldOf[s] = f
                           /\ reports'[d].from < dated[s] /\ dated[s] <= reports'[d].to}) < MinCorpus
      BY <2>1 DEF QuietIsTrue
    <3>1. CASE d # D
      <4>1. d \in Stored /\ reports'[d] = reports[d] /\ f \in reports[d].quiet
        BY <2>6, <3>1
      <4>2. \A g \in reports[d].quiet :
              Cardinality({s \in Story \ Delayed : FieldOf[s] = g
                /\ reports[d].from < dated[s] /\ dated[s] <= reports[d].to}) < MinCorpus
        BY <4>1 DEF DaysInv, QuietIsTrue
      <4>. QED BY <4>1, <4>2
    <3>2. CASE d = D
      <4>. DEFINE W == {s \in Story \ Delayed : FieldOf[s] = f /\ run.from < dated[s] /\ dated[s] <= run.to}
      <4>1. f \in Field /\ outcome[f].status = "quiet"
        BY <2>3, <2>5, <3>2 DEF Came
      <4>2. Cardinality(outcome[f].pool) < MinCorpus /\ W \subseteq outcome[f].pool
        BY <2>1, <4>1 DEF RunFits, Decided
      <4>3. IsFiniteSet(outcome[f].pool)
        <5>1. outcome[f].pool \subseteq Story
          BY <4>1 DEF ReportsTypeOK
        <5>. QED BY <5>1, FS_Subset, ReportsAssumption
      <4>4. /\ Cardinality(W) \in Nat /\ Cardinality(outcome[f].pool) \in Nat
            /\ Cardinality(W) <= Cardinality(outcome[f].pool)
        <5>. HIDE DEF W
        <5>. QED BY <4>2, <4>3, FS_Subset, FS_CardinalityType
      <4>5. Cardinality(W) < MinCorpus
        <5>. HIDE DEF W
        <5>. QED BY <4>2, <4>4, ReportsAssumption
      <4>. QED BY <2>3, <2>5, <3>2, <4>5
    <3>. QED BY <3>1, <3>2
  <2>. QED BY <2>7, <2>8, <2>9, <2>10, <2>11, <2>12 DEF DaysInv
<1>. QED BY <1>2, <1>3, <1>4, <1>5, <1>6, <1>7, <1>8, <1>9, <1>12, <1>13 DEF ReportsNext

\* Whatever is published and wherever runs are cut short: the days fit together where a
\* run reaches back into the day before the last one, as the code's seven days do.
THEOREM DaysFitTogether ==
  ASSUME CatchesUp
  PROVE  ReportsSpec => []DaysAreWhole
<1>1. DaysInv => DaysAreWhole
  BY DEF DaysInv, DaysAreWhole
<1>. QED BY <1>1, ReportsBegin, DaysStayWhole, PTL DEF ReportsSpec

\* No window ends before it begins, and nothing else leaves its type, however short
\* max_catchup is.
THEOREM ReportsTypes == ReportsSpec => []ReportsTypeOK
<1>1. DaysInv => ReportsTypeOK
  BY DEF DaysInv
<1>. QED BY <1>1, ReportsBegin, DaysStayWhole, PTL DEF ReportsSpec

------------------------------------------------------------------------------
(* The launcher.                                                           *)

\* From the end of the migration until the app has ended.
RolesGiven == {"app", "writing app", "worker", "writing worker"}
Prepared == RolesGiven \cup {"roles", "seeding", "binding", "serving"}

\* What is remembered is one database, and no other was ever served.
UrlInv ==
  /\ config.url = file.url
  /\ served \subseteq {file.url}
  /\ step = "serving" => config.url \in served

\* The schema is there as soon as the migration has ended; as long as nothing has gone
\* wrong its database answers, so that the seed comes into it.
SchemaInv ==
  /\ step \in Prepared => schema[config.url] # "empty"
  /\ faults = 0 => reachable /\ (step \in Prepared => Answers(config.url))
  /\ faults = 0 /\ step \in {"binding", "serving"} => schema[config.url] = "seeded"

\* The worker is given its password last: where it is written down, both are right.
Whole(c) ==
  c.roles["worker"] # "none" => c.roles["worker"] = "good" /\ c.roles["app"] = "good"
RolesInv ==
  /\ Whole(file) /\ Whole(config)
  /\ step \in {"choosing", "cluster", "starting", "creating", "reaching", "migrating",
               "roles", "app"} => file = config
  /\ step \in RolesGiven => file.roles["worker"] = "none" /\ config.roles["worker"] = "none"
  /\ step \in {"worker", "writing worker"} => file.roles["app"] = "good"

LaunchInv == LaunchTypeOK /\ UrlInv /\ SchemaInv /\ RolesInv

------------------------------------------------------------------------------
\* The bound on faults is kept, whether a step is one or not.
LEMMA FaultsAreBounded ==
  ASSUME faults \in 0 .. MaxFaults, Fault \/ faults' = faults
  PROVE  faults' \in 0 .. MaxFaults
<1>1. MaxFaults \in Nat
  BY Zenon, LauncherAssumption
<1> QED
  BY <1>1 DEF Fault

\* After a fault the count is not 0.
LEMMA FaultCounts == ASSUME faults \in Nat, Fault PROVE faults' # 0
BY DEF Fault

LEMMA LaunchStarts == LaunchInit => LaunchInv
<1> SUFFICES ASSUME LaunchInit PROVE LaunchInv
  OBVIOUS
<1>1. file \in Config /\ config = file /\ file.roles = NoRoles
  BY DEF LaunchInit, Config, Chosen, Password, NoRoles, Role
<1>2. LaunchTypeOK
  <2>1. schema \in [Database -> {"empty", "migrated", "seeded"}] /\ served \subseteq Database
    BY DEF LaunchInit, Database
  <2>2. MaxFaults \in Nat
    BY Zenon, LauncherAssumption
  <2>3. faults \in 0 .. MaxFaults
    BY <2>2 DEF LaunchInit
  <2> QED
    BY <1>1, <2>1, <2>3 DEF LaunchInit, LaunchTypeOK
<1>3. UrlInv
  BY <1>1 DEF LaunchInit, UrlInv
<1>4. SchemaInv
  BY DEF LaunchInit, SchemaInv, Prepared, RolesGiven
<1>5. RolesInv
  BY <1>1 DEF LaunchInit, RolesInv, Whole, NoRoles, RolesGiven, Role
<1> QED
  BY <1>2, <1>3, <1>4, <1>5 DEF LaunchInv

\* The types are kept by every step.
LEMMA LaunchTypeStep == LaunchInv /\ [LaunchNext]_launchVars => LaunchTypeOK'
<1> SUFFICES ASSUME LaunchInv, [LaunchNext]_launchVars PROVE LaunchTypeOK'
  OBVIOUS
<1> USE DEF LaunchInv, LaunchTypeOK, UrlInv, Config, Chosen, Password, Database
<1>1. CASE UNCHANGED launchVars
  BY <1>1 DEF launchVars
<1>2. CASE ReadConfig
  BY <1>2 DEF ReadConfig
<1>3. CASE ChooseDatabase
  <2>1. file' \in Config /\ config' \in Config
    BY <1>3 DEF ChooseDatabase
  <2> QED
    BY <1>3, <2>1 DEF ChooseDatabase
<1>4. CASE InitDb
  BY <1>4 DEF InitDb
<1>5. CASE StartPostgres
  BY <1>5 DEF StartPostgres, Fail
<1>6. CASE CreateDb
  BY <1>6 DEF CreateDb, Fail
<1>7. CASE RequireReachable
  BY <1>7 DEF RequireReachable, Fail
<1>8. CASE Migrate
  <2>1. schema' \in [Database -> {"empty", "migrated", "seeded"}]
    BY <1>8 DEF Migrate
  <2> QED
    BY <1>8, <2>1 DEF Migrate
<1>9. CASE EnsureRoles
  BY <1>9 DEF EnsureRoles
<1>10. CASE SeedIfEmpty
  BY <1>10 DEF SeedIfEmpty
<1>11. CASE StartApp
  BY <1>11 DEF StartApp
<1>12. ASSUME NEW r \in Role, AlterRole(r) PROVE LaunchTypeOK'
  BY <1>12 DEF AlterRole, Stale, Writing, Role
<1>13. ASSUME NEW r \in Role, WriteRole(r) PROVE LaunchTypeOK'
  <2>1. file' = [file EXCEPT !.roles[r] = "good"] /\ (config' = config \/ config' = file')
    BY <1>13 DEF WriteRole
  <2>2. file' \in Config
    BY <2>1
  <2>3. config' \in Config
    BY <2>1, <2>2
  <2>4. config'.url = config.url
    BY <2>1
  <2>5. step \notin {"off", "choosing", "closing"}
    BY <1>13 DEF WriteRole, Writing
  <2> QED
    BY <1>13, <2>2, <2>3, <2>4, <2>5 DEF WriteRole
<1>14. CASE ScriptFails
  <2>1. faults' \in 0 .. MaxFaults
    BY <1>14, FaultsAreBounded, Zenon DEF ScriptFails
  <2> QED
    BY <1>14, <2>1 DEF ScriptFails
<1>15. CASE Stop
  BY <1>15 DEF Stop
<1>16. CASE Shutdown
  BY <1>16 DEF Shutdown
<1>17. CASE Kill
  <2>1. faults' \in 0 .. MaxFaults
    BY <1>17, FaultsAreBounded, Zenon DEF Kill
  <2> QED
    BY <1>17, <2>1 DEF Kill
<1>18. CASE Outage
  <2>1. faults' \in 0 .. MaxFaults
    BY <1>18, FaultsAreBounded, Zenon DEF Outage
  <2> QED
    BY <1>18, <2>1 DEF Outage
<1>19. ASSUME NEW r \in Role, RoleFails(r) PROVE LaunchTypeOK'
  <2>1. faults' \in 0 .. MaxFaults
    BY <1>19, FaultsAreBounded, Zenon DEF RoleFails
  <2> QED
    BY <1>19, <2>1 DEF RoleFails, Writing, Role
<1> QED
  BY <1>1, <1>2, <1>3, <1>4, <1>5, <1>6, <1>7, <1>8, <1>9, <1>10, <1>11, <1>12, <1>13, <1>14,
     <1>15, <1>16, <1>17, <1>18, <1>19 DEF LaunchNext, Startup


\* The address that is remembered is the one in use, and the one that is served.
LEMMA UrlStep == LaunchInv /\ [LaunchNext]_launchVars => UrlInv'
<1> SUFFICES ASSUME LaunchInv, [LaunchNext]_launchVars PROVE UrlInv'
  OBVIOUS
<1> USE DEF LaunchInv, UrlInv, LaunchTypeOK, Config
<1>1. CASE UNCHANGED launchVars
  BY <1>1 DEF launchVars
<1>2. CASE ReadConfig
  BY <1>2 DEF ReadConfig
<1>3. CASE ChooseDatabase
  <2>1. CASE config.url # "none"
    BY <1>3, <2>1 DEF ChooseDatabase
  <2>2. CASE config.url = "none"
    <3>1. served = {}
      BY <2>2 DEF Database
    <3> QED
      BY <1>3, <2>2, <3>1 DEF ChooseDatabase
  <2> QED
    BY <2>1, <2>2
<1>4. CASE InitDb \/ StartPostgres \/ CreateDb \/ RequireReachable
  BY <1>4 DEF InitDb, StartPostgres, CreateDb, RequireReachable, Fail
<1>5. CASE Migrate \/ EnsureRoles \/ SeedIfEmpty
  BY <1>5 DEF Migrate, EnsureRoles, SeedIfEmpty
<1>6. CASE StartApp
  BY <1>6 DEF StartApp
<1>7. ASSUME NEW r \in Role, AlterRole(r) PROVE UrlInv'
  BY <1>7 DEF AlterRole, Stale, Writing
<1>8. ASSUME NEW r \in Role, WriteRole(r) PROVE UrlInv'
  BY <1>8 DEF WriteRole, Writing
<1>9. CASE ScriptFails \/ Stop \/ Shutdown \/ Kill \/ Outage
  BY <1>9 DEF ScriptFails, Stop, Shutdown, Kill, Outage
<1>10. ASSUME NEW r \in Role, RoleFails(r) PROVE UrlInv'
  BY <1>10 DEF RoleFails
<1> QED
  BY <1>1, <1>2, <1>3, <1>4, <1>5, <1>6, <1>7, <1>8, <1>9, <1>10 DEF LaunchNext, Startup

\* No step from the end of the migration on is taken without the schema; none that goes
\* well is taken without an answer.
LEMMA SchemaStep == LaunchInv /\ [LaunchNext]_launchVars => SchemaInv'
<1> SUFFICES ASSUME LaunchInv, [LaunchNext]_launchVars PROVE SchemaInv'
  OBVIOUS
<1>0. /\ step \in Prepared => config.url \in Database
      /\ schema \in [Database -> {"empty", "migrated", "seeded"}] /\ faults \in Nat
  <2>1. faults \in 0 .. MaxFaults /\ config \in Config
    BY DEF LaunchInv, LaunchTypeOK
  <2>2. faults \in Nat
    BY <2>1
  <2> QED
    BY <2>1, <2>2 DEF LaunchInv, LaunchTypeOK, Prepared, RolesGiven, Config, Chosen, Database
<1> USE <1>0 DEF LaunchInv, SchemaInv, Prepared, RolesGiven, Answers
<1>1. CASE UNCHANGED launchVars
  BY <1>1 DEF launchVars
<1>2. CASE ReadConfig
  BY <1>2 DEF ReadConfig
<1>3. CASE ChooseDatabase
  BY <1>3 DEF ChooseDatabase
<1>4. CASE InitDb \/ StartPostgres
  BY <1>4 DEF InitDb, StartPostgres, Fail
<1>5. CASE CreateDb \/ RequireReachable
  BY <1>5 DEF CreateDb, RequireReachable, Fail
<1>6. CASE Migrate
  <2>1. CASE Answers(config.url)
    <3>1. config.url \in Database
      BY <1>6 DEF Migrate, LaunchTypeOK, Config, Chosen, Database
    <3> QED
      BY <1>6, <2>1, <3>1 DEF Migrate
  <2>2. CASE ~Answers(config.url)
    BY <1>6, <2>2 DEF Migrate
  <2> QED
    BY <2>1, <2>2
<1>7. CASE EnsureRoles
  BY <1>7 DEF EnsureRoles
<1>8. CASE SeedIfEmpty
  BY <1>8 DEF SeedIfEmpty
<1>9. CASE StartApp
  BY <1>9 DEF StartApp
<1>10. ASSUME NEW r \in Role, AlterRole(r) PROVE SchemaInv'
  <2>1. config'.url = config.url
    BY <1>10 DEF AlterRole, Stale, LaunchTypeOK, Config
  <2> QED
    BY <1>10, <2>1 DEF AlterRole, Writing, Role
<1>11. ASSUME NEW r \in Role, WriteRole(r) PROVE SchemaInv'
  <2>1. config'.url = config.url
    BY <1>11 DEF WriteRole, UrlInv, LaunchTypeOK, Config
  <2> QED
    BY <1>11, <2>1 DEF WriteRole, Writing, Role
<1>12. CASE ScriptFails \/ Kill
  BY <1>12, FaultCounts DEF ScriptFails, Kill
<1>13. CASE Stop \/ Shutdown
  BY <1>13 DEF Stop, Shutdown
<1>14. CASE Outage
  BY <1>14, FaultCounts DEF Outage
<1>15. ASSUME NEW r \in Role, RoleFails(r) PROVE SchemaInv'
  BY <1>15, FaultCounts DEF RoleFails, Writing, Role
<1> QED
  BY <1>1, <1>2, <1>3, <1>4, <1>5, <1>6, <1>7, <1>8, <1>9, <1>10, <1>11, <1>12, <1>13, <1>14, <1>15
  DEF LaunchNext, Startup

\* The passwords that are written down are those the roles have, or not both are there.
LEMMA RolesStep == LaunchInv /\ [LaunchNext]_launchVars => RolesInv'
<1> SUFFICES ASSUME LaunchInv, [LaunchNext]_launchVars PROVE RolesInv'
  OBVIOUS
<1>0. file \in Config /\ config \in Config
  BY DEF LaunchInv, LaunchTypeOK
<1> USE <1>0 DEF LaunchInv, RolesInv, Whole, RolesGiven, Config
<1>1. CASE UNCHANGED launchVars
  BY <1>1 DEF launchVars
<1>2. CASE ReadConfig
  BY <1>2 DEF ReadConfig
<1>3. CASE ChooseDatabase
  BY <1>3 DEF ChooseDatabase
<1>4. CASE InitDb \/ StartPostgres \/ CreateDb \/ RequireReachable
  BY <1>4 DEF InitDb, StartPostgres, CreateDb, RequireReachable, Fail
<1>5. CASE Migrate \/ SeedIfEmpty \/ StartApp
  BY <1>5 DEF Migrate, SeedIfEmpty, StartApp
<1>6. CASE EnsureRoles
  BY <1>6 DEF EnsureRoles, Role
<1>7. ASSUME NEW r \in Role, AlterRole(r) PROVE RolesInv'
  BY <1>7 DEF AlterRole, Stale, Writing, Role
<1>8. ASSUME NEW r \in Role, WriteRole(r) PROVE RolesInv'
  BY <1>8 DEF WriteRole, Writing, Role
<1>9. CASE ScriptFails \/ Stop \/ Shutdown \/ Kill \/ Outage
  BY <1>9 DEF ScriptFails, Stop, Shutdown, Kill, Outage
<1>10. ASSUME NEW r \in Role, RoleFails(r) PROVE RolesInv'
  BY <1>10 DEF RoleFails
<1> QED
  BY <1>1, <1>2, <1>3, <1>4, <1>5, <1>6, <1>7, <1>8, <1>9, <1>10 DEF LaunchNext, Startup

LEMMA LaunchNextInv == LaunchInv /\ [LaunchNext]_launchVars => LaunchInv'
BY LaunchTypeStep, UrlStep, SchemaStep, RolesStep DEF LaunchInv

\* A start that is served is whole, in a state of the invariant.
LEMMA WholeApp == LaunchInv => AppIsWhole
<1> SUFFICES ASSUME LaunchInv PROVE AppIsWhole
  OBVIOUS
<1>1. OneArchive
  BY DEF LaunchInv, UrlInv, OneArchive
<1>2. AppHasItsTables
  BY DEF LaunchInv, SchemaInv, AppHasItsTables, Prepared
<1>3. RolesFit
  BY DEF LaunchInv, RolesInv, RolesFit, Whole, Role
<1> QED
  BY <1>1, <1>2, <1>3 DEF AppIsWhole

\* No step but the end of the launcher that started it, or a kill, ends the cluster.
LEMMA SparesStep == LaunchInv /\ [LaunchNext]_launchVars => AdoptedIsSpared
<1> SUFFICES ASSUME LaunchInv, [LaunchNext]_launchVars, up, ~up' PROVE started \/ faults' > faults
  BY DEF AdoptedIsSpared
<1>1. CASE Kill
  <2>1. faults \in 0 .. MaxFaults
    BY DEF LaunchInv, LaunchTypeOK
  <2>2. faults' = faults + 1
    BY <1>1 DEF Kill, Fault
  <2> QED
    BY <2>1, <2>2
<1>2. CASE Shutdown
  BY <1>2 DEF Shutdown
<1>3. CASE StartPostgres
  BY <1>3 DEF StartPostgres
<1>4. ASSUME up' = up PROVE FALSE
  BY <1>4
<1>5. CASE LaunchNext
  BY <1>1, <1>2, <1>3, <1>4, <1>5 DEF LaunchNext, Startup, ReadConfig, ChooseDatabase, InitDb,
     CreateDb, RequireReachable, Migrate, EnsureRoles, SeedIfEmpty, StartApp, AlterRole, WriteRole,
     ScriptFails, Stop, Outage, RoleFails
<1> QED
  BY <1>4, <1>5 DEF launchVars

\* Type correctness, for any number of faults.
THEOREM LaunchTypes == LaunchSpec => []LaunchTypeOK
<1>1. LaunchSpec => []LaunchInv
  BY LaunchStarts, LaunchNextInv, PTL DEF LaunchSpec
<1>2. LaunchInv => LaunchTypeOK
  BY DEF LaunchInv
<1> QED
  BY <1>1, <1>2, PTL

\* One launcher at a time: whatever fails in a start and however often the launcher is
\* started again after it, an app runs on the one database that was ever served, with its
\* tables and the passwords of the roles, and a cluster that a start did not start is not
\* stopped by it.
THEOREM EveryStartIsSafe == LaunchSpec => StartsAreSafe
<1>1. LaunchSpec => []LaunchInv
  BY LaunchStarts, LaunchNextInv, PTL DEF LaunchSpec
<1>2. LaunchInv /\ LaunchInv' /\ [LaunchNext]_launchVars =>
        [AppIsWhole' /\ AdoptedIsSpared]_launchVars
  <2>1. LaunchInv' => AppIsWhole'
    BY WholeApp, PTL
  <2> QED
    BY <2>1, SparesStep
<1> QED
  BY <1>1, <1>2, PTL DEF LaunchSpec, StartsAreSafe

------------------------------------------------------------------------------
(* The instance that is checked.                                           *)

\* No part touches the variables of another: what is proved of each by itself holds of
\* the behaviours that the run enumerates.
LEMMA EachByItself ==
  Spec => DedupSpec /\ ReportsSpec /\ LaunchSpec /\ QueueSpec /\ PoliteSpec /\ EdgeSpec
<1>1. Init => DedupInit /\ ReportsInit /\ LaunchInit /\ QueueInit /\ PoliteInit /\ EdgeInit
  BY DEF Init
<1>2. [Next]_vars => [DedupNext]_dedupVars
  BY DEF Next, vars, Dedups, Report, Starts, Queues, Waits, Invokes
<1>3. [Next]_vars => [ReportsNext]_reportVars
  BY DEF Next, vars, Dedups, Report, Starts, Queues, Waits, Invokes
<1>4. [Next]_vars => [LaunchNext]_launchVars
  BY DEF Next, vars, Dedups, Report, Starts, Queues, Waits, Invokes
<1>5. [Next]_vars => [QueueNext]_queueVars
  BY DEF Next, vars, Dedups, Report, Starts, Queues, Waits, Invokes
<1>6. [Next]_vars => [PoliteNext]_politeVars
  BY DEF Next, vars, Dedups, Report, Starts, Queues, Waits, Invokes
<1>7. [Next]_vars => [EdgeNext]_edgeVars
  BY DEF Next, vars, Dedups, Report, Starts, Queues, Waits, Invokes
<1>. QED
  BY <1>1, <1>2, <1>3, <1>4, <1>5, <1>6, <1>7, PTL
  DEF Spec, DedupSpec, ReportsSpec, LaunchSpec, QueueSpec, PoliteSpec, EdgeSpec

\* The components keep their types, whatever the constants are.
THEOREM RecordTypes == Spec => []RecordsTypeOK
<1>1. QueueSpec => []QueueTypeOK
  <2>1. QueueInv => QueueTypeOK
    BY DEF QueueInv
  <2>. QED BY <2>1, QueueBegins, QueueGoesOn, PTL DEF QueueSpec
<1>2. PoliteSpec => []PoliteTypeOK
  <2>1. GateInv => PoliteTypeOK
    BY DEF GateInv
  <2>. QED BY <2>1, GateInit, GateNext, PTL DEF PoliteSpec
<1>3. EdgeSpec => []EdgeTypeOK
  BY EdgeTypesBegin, EdgeTypesGoOn, PTL DEF EdgeSpec
<1>4. DedupTypeOK /\ ReportsTypeOK /\ LaunchTypeOK /\ QueueTypeOK /\ PoliteTypeOK /\ EdgeTypeOK
      => RecordsTypeOK
  BY DEF RecordsTypeOK
<1>. QED
  BY <1>1, <1>2, <1>3, <1>4, EachByItself, DedupTypes, ReportsTypes, LaunchTypes, PTL

=============================================================================
