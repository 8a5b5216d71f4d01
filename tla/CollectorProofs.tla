---------------------------- MODULE CollectorProofs ----------------------------
(***************************************************************************)
(* What holds around the polls of a collector: how late the order of       *)
(* PollQueue leaves a source, for any number of them, what the gate of     *)
(* Politeness keeps, for any number of polls and any intervals, and whose  *)
(* the pool of EdgeWorker is and how far its allowance goes, for any       *)
(* number of invocations and sources.                                      *)
(***************************************************************************)
EXTENDS PollQueue, Politeness, EdgeWorker, FiniteSetTheorems, TLAPS

------------------------------------------------------------------------------

(* PollQueue.                                                              *)

\* How late a source was when the last cycle ended.
LateBy(s) == IF turn = "cycle" THEN -wait[s] - 1 ELSE -wait[s]

\* Those that were less than m late.
Within(m) == {s \in Fed : LateBy(s) < m}

\* The longer one source has had to wait, the more of the others have just been served:
\* each cycle served one that was late by a fraction of it, and it begins anew.  A cycle
\* whose polls throw serves none.
OthersAreServed ==
  \A m \in Nat \ {0} :
    (\E s \in Fed : LateBy(s) > (m - 1) * Warm) => Cardinality(Within(m)) >= m - thrown

QueueInv == QueueTypeOK /\ OthersAreServed

LEMMA MinOfTwo == ASSUME NEW a \in Int, NEW b \in Int
                  PROVE  Min({a, b}) = IF a <= b THEN a ELSE b
BY DEF Min

LEMMA MaxOfTwo == ASSUME NEW a \in Int, NEW b \in Int
                  PROVE  Max({a, b}) = IF a >= b THEN a ELSE b
BY DEF Max

\* A poll puts its source off to now or later, and counts its failures up to Unfit.
LEMMA OutcomesArePut ==
  ASSUME QueueTypeOK, NEW s \in Fed, NEW out \in Outcomes(s)
  PROVE  out.wait \in Nat /\ out.failed \in 0 .. Unfit
<1>. USE QueueAssumption
<1>1. interval[s] \in Nat /\ failed[s] \in 0 .. Unfit
  BY DEF QueueTypeOK
<1>2. BackOff(s) \in Nat
  <2>. DEFINE e == Min({failed[s], MaxDoublings})
  <2>1. e \in 0 .. MaxDoublings
    BY <1>1, MinOfTwo
  <2>2. 2^e \in Nat
    BY <2>1
  <2>. HIDE DEF e
  <2>3. interval[s] * 2^e \in Nat
    BY <1>1, <2>2
  <2>4. Min({interval[s] * 2^e, Longest}) \in Nat
    BY <2>3, MinOfTwo
  <2>. QED BY <2>4 DEF BackOff, e
<1>3. Min({failed[s] + 1, Unfit}) \in 0 .. Unfit
  BY <1>1, MinOfTwo
<1>4. CASE out = [wait |-> interval[s], failed |-> 0]
  BY <1>1, <1>4
<1>5. CASE out = [wait |-> BackOff(s), failed |-> Min({failed[s] + 1, Unfit})]
  BY <1>2, <1>3, <1>5
<1>6. CASE \E r \in RetryAfters \cup {2 * interval[s]} : out = [wait |-> r, failed |-> failed[s]]
  <2>1. PICK r \in RetryAfters \cup {2 * interval[s]} : out = [wait |-> r, failed |-> failed[s]]
    BY <1>6
  <2>2. 2 * interval[s] \in Nat
    BY <1>1
  <2>3. r \in Nat
    BY <2>1, <2>2
  <2>. QED BY <1>1, <2>1, <2>3
<1>. QED BY <1>4, <1>5, <1>6 DEF Outcomes

\* The paces differ by a factor of Warm at the most.
LEMMA PacesAreNear ==
  ASSUME QueueTypeOK, NEW s \in Fed, NEW t \in Fed
  PROVE  /\ Pace(s) \in Nat \ {0} /\ Pace(t) \in Nat \ {0}
         /\ Pace(s) <= Warm * Pace(t)
<1>. USE QueueAssumption
<1>1. interval[s] \in Hot .. Warm /\ interval[t] \in Hot .. Warm
  BY DEF QueueTypeOK
<1>2. /\ Pace(s) \in Nat \ {0} /\ Pace(t) \in Nat \ {0}
      /\ Pace(s) = interval[s] \/ Pace(s) <= Pace(t)
  BY <1>1, MaxOfTwo DEF Pace
<1>3. Warm * Pace(t) >= Warm /\ Warm * Pace(t) >= Pace(t)
  BY <1>2
<1>. QED BY <1>1, <1>2, <1>3

\* One that is served instead of s is late by a part of what s is late by.
LEMMA ServedIsLate ==
  ASSUME QueueTypeOK, NEW s \in Fed, NEW t \in Fed, NEW k \in Nat,
         -wait[s] > k * Warm, wait[t] <= 0, ~Precedes(s, t)
  PROVE  -wait[t] > k
<1>. USE QueueAssumption
<1>. DEFINE L == -wait[s]  l == -wait[t]  P == Pace(s)  Q == Pace(t)
<1>1. L \in Nat /\ l \in Nat /\ wait[s] \in Int /\ wait[t] \in Int /\ Warm \in Nat /\ k * Warm \in Nat
  BY DEF QueueTypeOK
<1>2. P \in Nat \ {0} /\ Q \in Nat \ {0} /\ P <= Warm * Q
  BY PacesAreNear
<1>3. l * P >= L * Q
  <2>1. ~(wait[s] * Q < wait[t] * P)
    BY DEF Precedes
  <2>2. wait[s] = -L /\ wait[t] = -l
    BY <1>1
  <2>. HIDE DEF L, l, P, Q
  <2>3. (-L) * Q = -(L * Q) /\ (-l) * P = -(l * P)
    BY <1>1, <1>2
  <2>4. L * Q \in Int /\ l * P \in Int
    BY <1>1, <1>2
  <2>. QED BY <2>1, <2>2, <2>3, <2>4
<1>. HIDE DEF L, l, P, Q
<1>4. SUFFICES ASSUME l <= k PROVE FALSE
  BY <1>1 DEF l
<1>5. l * P <= k * P
  BY <1>1, <1>2, <1>4
<1>6. k * P <= k * (Warm * Q)
  BY <1>1, <1>2
<1>7. k * (Warm * Q) = (k * Warm) * Q
  BY <1>1, <1>2
<1>8. (k * Warm) * Q < L * Q
  <2>1. L >= k * Warm + 1
    BY <1>1 DEF L
  <2>. DEFINE z == k * Warm
  <2>2. z \in Nat /\ L >= z + 1
    BY <1>1, <2>1
  <2>. HIDE DEF z
  <2>3. z * Q < L * Q
    BY <1>1, <1>2, <2>2
  <2>. QED BY <2>3 DEF z
<1>9. l * P \in Int /\ k * P \in Int /\ k * (Warm * Q) \in Int /\ (k * Warm) * Q \in Int /\ L * Q \in Int
  BY <1>1, <1>2
<1>. QED BY <1>3, <1>5, <1>6, <1>7, <1>8, <1>9

LEMMA QueueBegins == QueueInit => QueueInv
<1>. SUFFICES ASSUME QueueInit PROVE QueueInv
  OBVIOUS
<1>. USE QueueAssumption DEF QueueInit
<1>1. QueueTypeOK
  BY DEF QueueTypeOK
<1>2. \A s \in Fed : LateBy(s) = -1
  <2>1. \A s \in Fed : wait[s] = 0 /\ -0 - 1 = -1
    OBVIOUS
  <2>. QED BY <2>1 DEF LateBy
<1>3. \A m \in Nat \ {0} : (m - 1) * Warm >= 0
  OBVIOUS
<1>. QED BY <1>1, <1>2, <1>3 DEF QueueInv, OthersAreServed

\* What a cycle does: it puts off some that are due, one of them at the least if there are
\* any and none throws, and none of the others came before that one.
Serves ==
  /\ thrown' >= thrown
  /\ \A s \in Fed : wait'[s] = wait[s] \/ (wait[s] <= 0 /\ wait'[s] >= 0)
  /\ Overdue # {} /\ ~(thrown' > thrown) =>
       \E t \in Overdue :
         /\ wait'[t] >= 0
         /\ \A s \in Overdue : wait'[s] < 0 => ~Precedes(s, t)

LEMMA CycleIsServing ==
  ASSUME QueueTypeOK, Cycle
  PROVE  QueueTypeOK' /\ Serves
<1>. USE QueueAssumption
<1>1. CASE Overdue = {} /\ UNCHANGED <<wait, failed, thrown>>
  BY <1>1 DEF Cycle, QueueTypeOK, Serves
<1>2. ASSUME NEW S \in SUBSET Overdue, NEW T \in SUBSET Overdue, Takes(S \cup T),
             thrown' = thrown + Cardinality(T), thrown' <= MaxThrown,
             NEW out \in [S -> UNION {Outcomes(s) : s \in S}],
             \A s \in S : out[s] \in Outcomes(s),
             wait' = [s \in Fed |-> IF s \in S THEN out[s].wait ELSE wait[s]],
             failed' = [s \in Fed |-> IF s \in S THEN out[s].failed ELSE failed[s]]
      PROVE  QueueTypeOK' /\ Serves
  <2>1. \A s \in S : s \in Fed /\ wait[s] <= 0 /\ out[s].wait \in Nat /\ out[s].failed \in 0 .. Unfit
    BY <1>2, OutcomesArePut DEF Overdue
  <2>2. IsFiniteSet(T) /\ Cardinality(T) \in Nat /\ thrown \in Nat
    BY FS_Subset, FS_CardinalityType DEF Overdue, QueueTypeOK
  <2>3. QueueTypeOK'
    <3>1. thrown' \in 0 .. MaxThrown
      BY <1>2, <2>2
    <3>. QED BY <1>2, <2>1, <3>1 DEF Cycle, QueueTypeOK
  <2>4. thrown' >= thrown /\ (thrown' > thrown \/ T = {})
    <3>1. Cardinality(T) = 0 => T = {}
      BY <2>2, FS_EmptySet
    <3>. QED BY <1>2, <2>2, <3>1
  <2>5. \A s \in Fed : wait'[s] = wait[s] \/ (wait[s] <= 0 /\ wait'[s] >= 0)
    BY <1>2, <2>1
  <2>6. ASSUME T = {}
        PROVE  \E t \in Overdue : wait'[t] >= 0 /\ \A s \in Overdue : wait'[s] < 0 => ~Precedes(s, t)
    <3>1. PICK t \in S : TRUE
      BY <1>2, <2>6 DEF Takes
    <3>2. \A s \in Overdue \ S : ~Precedes(s, t)
      BY <1>2, <2>6, <3>1 DEF Takes
    <3>3. \A s \in S : wait'[s] >= 0 /\ ~(wait'[s] < 0)
      BY <1>2, <2>1
    <3>. QED BY <3>1, <3>2, <3>3
  <2>. QED BY <2>3, <2>4, <2>5, <2>6 DEF Serves
<1>. QED BY <1>1, <1>2 DEF Cycle

\* The step that matters: a cycle serves one of those that are late.
LEMMA CycleServes ==
  ASSUME QueueInv, Cycle
  PROVE  QueueInv'
<1>. USE QueueAssumption DEF QueueInv
<1>1. QueueTypeOK' /\ Serves
  BY CycleIsServing
<1>2. OthersAreServed'
  <2>. SUFFICES ASSUME NEW m \in Nat \ {0}, NEW s \in Fed, LateBy(s)' > (m - 1) * Warm
                PROVE  Cardinality(Within(m)') >= m - thrown'
    BY DEF OthersAreServed
  <2>0. /\ turn = "cycle" /\ turn' = "time" /\ wait \in [Fed -> Int] /\ wait' \in [Fed -> Int]
        /\ thrown \in Nat /\ thrown' \in Nat /\ thrown' >= thrown
    BY <1>1 DEF Cycle, QueueTypeOK, Serves
  <2>1. (m - 1) * Warm \in Nat
    OBVIOUS
  <2>2. wait'[s] < 0 /\ wait'[s] = wait[s] /\ -wait[s] > (m - 1) * Warm /\ s \in Overdue
    BY <1>1, <2>0, <2>1 DEF LateBy, Overdue, Serves
  <2>3. IsFiniteSet(Within(m - 1)) /\ IsFiniteSet(Within(m)')
    BY FS_Subset DEF Within
  <2>4. Cardinality(Within(m - 1)) \in Nat /\ Cardinality(Within(m)') \in Nat
    BY <2>3, FS_CardinalityType
  <2>5. Cardinality(Within(m - 1)) >= m - 1 - thrown
    <3>1. CASE m = 1
      BY <2>0, <2>4, <3>1
    <3>2. CASE m # 1
      <4>1. (m - 1) * Warm = (m - 2) * Warm + Warm
        OBVIOUS
      <4>2. LateBy(s) > (m - 2) * Warm
        BY <2>0, <2>2, <4>1 DEF LateBy
      <4>. QED BY <3>2, <4>2 DEF OthersAreServed
    <3>. QED BY <3>1, <3>2
  <2>6. Within(m - 1) \subseteq Within(m)'
    BY <1>1, <2>0 DEF Within, LateBy, Serves
  <2>7. CASE thrown' > thrown
    <3>1. Cardinality(Within(m - 1)) <= Cardinality(Within(m)')
      BY <2>3, <2>6, FS_Subset
    <3>. QED BY <2>0, <2>4, <2>5, <2>7, <3>1
  <2>8. CASE ~(thrown' > thrown)
    <3>1. PICK t \in Overdue : wait'[t] >= 0 /\ ~Precedes(s, t)
      BY <1>1, <2>2, <2>8 DEF Serves
    <3>2. t \in Fed /\ wait[t] <= 0
      BY DEF Overdue
    <3>3. -wait[t] > m - 1
      BY <2>2, <3>1, <3>2, ServedIsLate
    <3>4. Within(m - 1) \cup {t} \subseteq Within(m)' /\ t \notin Within(m - 1)
      <4>1. wait'[t] \in Int /\ LateBy(t)' = -wait'[t] /\ LateBy(t)' < m
        BY <2>0, <3>1, <3>2 DEF LateBy
      <4>2. ~(LateBy(t) < m - 1)
        BY <2>0, <3>2, <3>3 DEF LateBy
      <4>. QED BY <2>6, <3>2, <4>1, <4>2 DEF Within
    <3>5. Cardinality(Within(m - 1) \cup {t}) = Cardinality(Within(m - 1)) + 1
      BY <2>3, <3>4, FS_AddElement
    <3>6. Cardinality(Within(m - 1) \cup {t}) <= Cardinality(Within(m)')
      BY <2>3, <3>4, FS_Subset
    <3>. QED BY <2>0, <2>4, <2>5, <3>5, <3>6
  <2>. QED BY <2>7, <2>8
<1>. QED BY <1>1, <1>2

LEMMA QueueGoesOn == QueueInv /\ [QueueNext]_queueVars => QueueInv'
<1>. SUFFICES ASSUME QueueInv, [QueueNext]_queueVars PROVE QueueInv'
  OBVIOUS
<1>. USE QueueAssumption
<1>0. QueueTypeOK /\ OthersAreServed
  BY DEF QueueInv
<1>1. CASE Cycle
  BY <1>1, CycleServes
<1>2. ASSUME QueueTypeOK', thrown' = thrown, \A s \in Fed : LateBy(s)' = LateBy(s) PROVE QueueInv'
  <2>1. \A m \in Nat : Within(m)' = Within(m)
    BY <1>2 DEF Within
  <2>. QED BY <1>0, <1>2, <2>1 DEF QueueInv, OthersAreServed
<1>3. CASE TimeGoesOn
  <2>1. QueueTypeOK'
    BY <1>0, <1>3 DEF TimeGoesOn, QueueTypeOK
  <2>2. \A s \in Fed : LateBy(s)' = LateBy(s)
    BY <1>0, <1>3 DEF TimeGoesOn, QueueTypeOK, LateBy
  <2>. QED BY <1>2, <1>3, <2>1, <2>2 DEF TimeGoesOn
<1>4. ASSUME NEW s \in Fed, Tune(s) PROVE QueueInv'
  <2>1. interval[s] \in Hot .. Warm
    BY <1>0 DEF QueueTypeOK
  <2>2. /\ (IF interval[s] > Hot THEN Max({Hot, interval[s] \div 2}) ELSE interval[s]) \in Hot .. Warm
        /\ Min({Warm, 2 * interval[s]}) \in Hot .. Warm
    BY <2>1, MinOfTwo, MaxOfTwo
  <2>3. interval' \in [Fed -> Hot .. Warm]
    BY <1>0, <1>4, <2>2 DEF Tune, QueueTypeOK
  <2>4. QueueTypeOK'
    BY <1>0, <1>4, <2>3 DEF Tune, QueueTypeOK
  <2>5. \A t \in Fed : LateBy(t)' = LateBy(t)
    BY <1>4 DEF Tune, LateBy
  <2>. QED BY <1>2, <1>4, <2>4, <2>5 DEF Tune
<1>5. CASE UNCHANGED queueVars
  BY <1>0, <1>2, <1>5 DEF queueVars, QueueTypeOK, LateBy
<1>. QED BY <1>1, <1>3, <1>4, <1>5 DEF QueueNext

\* If a source were later than that, all of them would have just been served.
LEMMA QueueBound == QueueInv => ServedInTime
<1>. SUFFICES ASSUME QueueInv, NEW s \in Fed, -wait[s] > (Cardinality(Fed) + thrown) * Warm PROVE FALSE
  <2>0. Cardinality(Fed) \in Nat /\ Warm \in Nat /\ (QueueInv => thrown \in Nat)
    BY QueueAssumption, FS_CardinalityType DEF QueueInv, QueueTypeOK
  <2>1. QueueInv => (Cardinality(Fed) + thrown) * Warm \in Int /\ \A s \in Fed : wait[s] \in Int
    BY <2>0 DEF QueueInv, QueueTypeOK
  <2>. QED BY <2>1 DEF ServedInTime
<1>. USE QueueAssumption
<1>. DEFINE N == Cardinality(Fed)  M == N + thrown
<1>1. N \in Nat \ {0} /\ thrown \in Nat /\ M \in Nat \ {0}
  BY FS_CardinalityType, FS_EmptySet DEF QueueInv, QueueTypeOK
<1>2. wait[s] \in Int
  BY DEF QueueInv, QueueTypeOK
<1>3. -wait[s] > M * Warm
  OBVIOUS
<1>4. M - thrown = N
  BY <1>1
<1>. HIDE DEF M
<1>5. M * Warm = (M - 1) * Warm + Warm /\ M * Warm >= M
  BY <1>1
<1>6. LateBy(s) > (M - 1) * Warm /\ LateBy(s) >= M
  BY <1>1, <1>2, <1>3, <1>5 DEF LateBy
<1>7. Cardinality(Within(M)) >= N
  BY <1>1, <1>4, <1>6 DEF QueueInv, OthersAreServed
<1>8. Within(M) = Fed
  BY <1>1, <1>7, FS_Subset, FS_CardinalityType DEF Within
<1>. QED BY <1>1, <1>2, <1>6, <1>8 DEF Within, LateBy

\* dueAcrossShards: with a cycle that polls one source at the least, in the order of their
\* lateness by their own intervals, no source is ever later than Warm for each source there
\* is and for each poll that has thrown, whatever else fails, is told to wait or has its
\* interval tuned.
THEOREM NobodyStarves == QueueSpec => []ServedInTime
BY QueueBegins, QueueGoesOn, QueueBound, PTL DEF QueueSpec

------------------------------------------------------------------------------
(* Politeness.                                                             *)

\* A worker that sleeps wakes no earlier than its interval after each of its requests: it
\* went to sleep for an interval after the last request of the domain, and asks nothing
\* while it sleeps.
SleepsLongEnough ==
  \A w \in Worker : wakes[w] # Awake =>
    \A r \in sent : r.by = w => wakes[w] - r.at >= GapOf(w)

GateInv == PoliteTypeOK /\ SleepsLongEnough /\ OwnGapIsKept

LEMMA GapsAreNumbers == \A w \in Worker : GapOf(w) \in Nat \ {0}
BY PolitenessAssumption DEF Worker, GapOf

LEMMA GateInit == PoliteInit => GateInv
BY PolitenessAssumption DEF PoliteInit, GateInv, PoliteTypeOK, SleepsLongEnough, OwnGapIsKept, NoHit, Awake

\* A request that comes an interval or more after each request of its worker.
LEMMA GateHit ==
  ASSUME GateInv, NEW w \in Worker, Hit(w), moment' = moment, paging' = paging,
         wakes' = [wakes EXCEPT ![w] = Awake],
         \A r \in sent : r.by = w => moment - r.at >= GapOf(w)
  PROVE  GateInv'
<1>. USE GapsAreNumbers DEF GateInv, Hit, NoHit, Awake
<1>0. moment \in Nat /\ [by |-> w, at |-> moment] \in [by : Worker, at : 0 .. moment]
  BY DEF PoliteTypeOK
<1>1. PoliteTypeOK'
  <2>1. wakes' \in [Worker -> {Awake} \cup Nat]
    BY DEF PoliteTypeOK
  <2>2. sent' \subseteq [by : Worker, at : 0 .. moment'] /\ \A r \in sent' : r.at <= lastHit'
    BY <1>0 DEF PoliteTypeOK
  <2>3. lastHit' \in 0 .. moment' /\ lastHit' # NoHit
    BY <1>0
  <2>5. [by |-> w, at |-> moment] \in sent'
    OBVIOUS
  <2>. HIDE DEF Hit, GateInv
  <2>4. moment' \in 0 .. LastMoment /\ paging' \subseteq Poll
    BY DEF GateInv, PoliteTypeOK
  <2>. QED BY <2>1, <2>2, <2>3, <2>4, <2>5 DEF PoliteTypeOK
<1>2. SleepsLongEnough'
  <2>. SUFFICES ASSUME NEW o \in Worker, wakes'[o] # Awake, NEW r \in sent', r.by = o
                PROVE  wakes'[o] - r.at >= GapOf(o)
    BY DEF SleepsLongEnough
  <2>1. o # w /\ wakes'[o] = wakes[o]
    BY <1>0, <1>1 DEF PoliteTypeOK
  <2>. QED BY <2>1 DEF SleepsLongEnough
<1>3. OwnGapIsKept'
  <2>. SUFFICES ASSUME NEW r \in sent', NEW q \in sent', r.by = q.by, r.at < q.at
                PROVE  q.at - r.at >= GapOf(q.by)
    BY DEF OwnGapIsKept
  <2>1. CASE r \in sent /\ q \in sent
    BY <2>1 DEF OwnGapIsKept
  <2>2. CASE r \in sent /\ q \notin sent
    BY <2>2
  <2>3. CASE r \notin sent
    BY <2>3 DEF PoliteTypeOK
  <2>. QED BY <2>1, <2>2, <2>3
<1>. QED BY <1>1, <1>2, <1>3

LEMMA GateNext == GateInv /\ [PoliteNext]_politeVars => GateInv'
<1>. SUFFICES ASSUME GateInv, [PoliteNext]_politeVars PROVE GateInv'
  OBVIOUS
<1>. USE PolitenessAssumption, GapsAreNumbers DEF NoHit, Awake
<1>1. ASSUME NEW w \in Worker, FallAsleep(w) PROVE GateInv'
  <2>1. PoliteTypeOK'
    BY <1>1 DEF FallAsleep, Asks, GateInv, PoliteTypeOK
  <2>2. SleepsLongEnough'
    BY <1>1 DEF FallAsleep, Asks, GateInv, PoliteTypeOK, SleepsLongEnough
  <2>. QED BY <1>1, <2>1, <2>2 DEF FallAsleep, GateInv, OwnGapIsKept
<1>2. ASSUME NEW w \in Worker, PassAtOnce(w) PROVE GateInv'
  <2>1. \A r \in sent : r.by = w => moment - r.at >= GapOf(w)
    BY <1>2 DEF PassAtOnce, GateInv, PoliteTypeOK
  <2>2. wakes' = [wakes EXCEPT ![w] = Awake] /\ moment' = moment /\ paging' = paging /\ Hit(w)
    BY <1>2 DEF PassAtOnce, Asks, GateInv, PoliteTypeOK
  <2>. QED BY <2>1, <2>2, GateHit
<1>3. ASSUME NEW w \in Worker, WakeUp(w) PROVE GateInv'
  <2>1. \A r \in sent : r.by = w => moment - r.at >= GapOf(w)
    BY <1>3 DEF WakeUp, GateInv, PoliteTypeOK, SleepsLongEnough
  <2>. QED BY <1>3, <2>1, GateHit DEF WakeUp
<1>4. CASE TimePasses
  BY <1>4 DEF TimePasses, GateInv, PoliteTypeOK, SleepsLongEnough, OwnGapIsKept
<1>6. ASSUME NEW p \in Poll, TurnToPages(p) \/ PagesAreIn(p) PROVE GateInv'
  BY <1>6 DEF TurnToPages, PagesAreIn, GateInv, PoliteTypeOK, SleepsLongEnough, OwnGapIsKept
<1>5. CASE UNCHANGED politeVars
  BY <1>5 DEF politeVars, GateInv, PoliteTypeOK, SleepsLongEnough, OwnGapIsKept
<1>. QED BY <1>1, <1>2, <1>3, <1>4, <1>5, <1>6 DEF PoliteNext

\* PolitenessGate.wait: however many polls of a domain run side by side, however many
\* articles each of them fetches at a time and however late their timers fire, no worker
\* passes the gate twice within its interval.
THEOREM EachKeepsItsInterval == PoliteSpec => []OwnGapIsKept
<1>1. GateInv => OwnGapIsKept
  BY DEF GateInv
<1>. QED BY <1>1, GateInit, GateNext, PTL DEF PoliteSpec

------------------------------------------------------------------------------
(* EdgeWorker.                                                             *)

\* Where the modules may hold a pool that this invocation will see away.
Holding == Asking \cup {"closing", "ending"}

Doings == Asking \cup {"asked", "closing", "ending", "clearing", "over"}

PoolTypes ==
  /\ workerPool \in Invocation \cup {NoPool} /\ ended \subseteq Invocation
  /\ doing \in [Invocation -> Doings]
  /\ db \in [Invocation -> Invocation \cup {NoPool}]
  /\ alone \in [Invocation -> BOOLEAN]

\* A pool is named by an invocation that has begun.
OpenedByOne == \A i \in Invocation : i = workerPool \/ i \in ended => doing[i] # "asked"

\* While nobody holds a pool there is none in the module: whoever ends last forgets it.
NoneIsLeftBehind == (\A i \in Invocation : doing[i] \notin Holding) => workerPool = NoPool

\* The pool of an invocation that runs by itself.
LoneOnes ==
  \A i \in Invocation : alone[i] =>
    /\ i \in Running => Running = {i} /\ db[i] = i
    /\ doing[i] \in Holding => workerPool = i
    /\ doing[i] \in Asking \cup {"closing"} => i \notin ended
    /\ doing[i] \in {"ending", "clearing", "over"} => i \in ended

PoolInv == PoolTypes /\ OpenedByOne /\ NoneIsLeftBehind /\ LoneOnes

LEMMA PoolInit == EdgeInit => PoolInv
BY EdgeAssumption DEF EdgeInit, PoolInv, PoolTypes, OpenedByOne, NoneIsLeftBehind, LoneOnes,
  Running, Holding, Asking, Doings

\* An invocation goes on without touching its pool.
LEMMA PoolGoesOn ==
  ASSUME PoolInv, NEW i \in Invocation, NEW to \in Asking \cup {"closing"},
         doing[i] \in Asking, Goes(i, to), UNCHANGED <<workerPool, ended, db, alone>>
  PROVE  PoolInv'
<1>1. PoolTypes'
  BY DEF PoolInv, PoolTypes, Goes, Asking, Doings
<1>2. \A j \in Invocation : j # i => doing'[j] = doing[j]
  BY DEF PoolInv, PoolTypes, Goes
<1>3. doing'[i] = to /\ doing[i] \notin {"asked", "over"} /\ to \notin {"asked", "over"}
  BY DEF PoolInv, PoolTypes, Goes, Asking
<1>4. Running' = Running
  BY <1>2, <1>3 DEF Running
<1>5. OpenedByOne' /\ NoneIsLeftBehind'
  BY <1>2, <1>3 DEF PoolInv, OpenedByOne, NoneIsLeftBehind, Holding
<1>6. LoneOnes'
  BY <1>2, <1>3, <1>4 DEF PoolInv, LoneOnes, Holding, Asking
<1>. QED BY <1>1, <1>5, <1>6 DEF PoolInv

LEMMA PoolNext == PoolInv /\ [EdgeNext]_edgeVars => PoolInv'
<1>. SUFFICES ASSUME PoolInv, [EdgeNext]_edgeVars PROVE PoolInv'
  OBVIOUS
<1>1. ASSUME NEW i \in Invocation, Open(i) PROVE PoolInv'
  <2>. USE <1>1
  <2>0. doing[i] = "asked" /\ i # NoPool /\ doing'[i] = "settings"
        /\ \A j \in Invocation : j # i => doing'[j] = doing[j]
    BY EdgeAssumption DEF Open, Goes, PoolInv, PoolTypes
  <2>1. workerPool' \in Invocation /\ (workerPool # NoPool => workerPool' = workerPool)
        /\ (workerPool = NoPool => workerPool' = i) /\ db' = [db EXCEPT ![i] = workerPool']
        /\ ended' = ended
    BY EdgeAssumption DEF Open, PoolInv, PoolTypes
  <2>2. PoolTypes'
    BY <2>1 DEF Open, Goes, PoolInv, PoolTypes, Doings, Asking
  <2>3. OpenedByOne'
    BY <2>0, <2>1 DEF PoolInv, OpenedByOne
  <2>4. NoneIsLeftBehind'
    BY <2>0 DEF NoneIsLeftBehind, Holding, Asking
  <2>5. i \notin Running /\ Running' = Running \cup {i}
    BY <2>0 DEF Running
  <2>6. ASSUME NEW j \in Invocation, alone'[j], j # i
        PROVE  alone[j] /\ j \notin Running
    BY <2>6 DEF Open
  <2>7. alone'[i] => Running = {}
    BY DEF Open
  <2>8. Running = {} => workerPool = NoPool
    BY DEF PoolInv, NoneIsLeftBehind, Running, Holding, Asking
  <2>9. i \notin ended
    BY <2>0 DEF PoolInv, OpenedByOne
  <2>10. ASSUME NEW j \in Invocation, alone'[j]
         PROVE  /\ j \in Running' => Running' = {j} /\ db'[j] = j
                /\ doing'[j] \in Holding => workerPool' = j
                /\ doing'[j] \in Asking \cup {"closing"} => j \notin ended'
                /\ doing'[j] \in {"ending", "clearing", "over"} => j \in ended'
    <3>1. CASE j = i
      <4>1. Running' = {i} /\ workerPool' = i
        BY <2>10, <3>1, <2>1, <2>5, <2>7, <2>8
      <4>2. db'[i] = i
        BY <4>1, <2>1 DEF PoolInv, PoolTypes
      <4>. QED BY <3>1, <4>1, <4>2, <2>0, <2>1, <2>9
    <3>2. CASE j # i
      <4>1. alone[j] /\ j \notin Running /\ j \notin Running'
        BY <2>10, <3>2, <2>5, <2>6
      <4>2. doing'[j] = doing[j] /\ doing[j] \in {"asked", "over"}
        BY <4>1, <3>2, <2>0 DEF Running
      <4>. QED BY <4>1, <4>2, <2>1 DEF PoolInv, LoneOnes, Holding, Asking
    <3>. QED BY <3>1, <3>2
  <2>11. LoneOnes'
    BY <2>10 DEF LoneOnes
  <2>. QED BY <2>2, <2>3, <2>4, <2>11 DEF PoolInv
<1>2. ASSUME NEW i \in Invocation,
             ReadSettings(i) \/ Defer(i) \/ RunStatement(i) \/ List(i) \/ EndCycle(i)
      PROVE  PoolInv'
  <2>1. doing[i] \in Asking /\ UNCHANGED <<workerPool, ended, db, alone>>
    BY <1>2 DEF ReadSettings, Defer, RunStatement, List, EndCycle, isolate, Asking
  <2>2. \E to \in Asking \cup {"closing"} : Goes(i, to)
    BY <1>2 DEF ReadSettings, Defer, RunStatement, List, EndCycle, Asking
  <2>. QED BY <2>1, <2>2, PoolGoesOn
<1>3. ASSUME NEW i \in Invocation,
             PassDeadline(i) \/ \E s \in Site : Take(i, s) \/ Fetch(i, s)
      PROVE  PoolInv'
  <2>1. UNCHANGED <<workerPool, ended, doing, db, alone>>
    BY <1>3 DEF PassDeadline, Take, Fetch, isolate
  <2>. QED BY <2>1 DEF PoolInv, PoolTypes, OpenedByOne, NoneIsLeftBehind, LoneOnes, Running
<1>4. ASSUME NEW i \in Invocation, ClosePool(i) PROVE PoolInv'
  <2>. USE <1>4
  <2>0. /\ doing[i] = "closing" /\ UNCHANGED <<workerPool, db, alone>>
        /\ \A j \in Invocation : j # i => doing'[j] = doing[j]
    BY DEF ClosePool, Goes, PoolInv, PoolTypes
  <2>1. Running' = Running /\ doing'[i] \in {"ending", "clearing"}
    BY <2>0 DEF ClosePool, Goes, PoolInv, PoolTypes, Running
  <2>2. PoolTypes'
    BY EdgeAssumption DEF ClosePool, Goes, PoolInv, PoolTypes, Doings
  <2>3. ended' \subseteq ended \cup {workerPool} /\ ended \subseteq ended'
    BY DEF ClosePool
  <2>4. OpenedByOne'
    BY <2>0, <2>1, <2>3 DEF PoolInv, OpenedByOne
  <2>5. NoneIsLeftBehind'
    <3>1. CASE workerPool = NoPool
      BY <3>1, <2>0 DEF NoneIsLeftBehind
    <3>2. CASE workerPool # NoPool
      <4>1. doing'[i] = "ending"
        BY <3>2 DEF ClosePool, Goes, PoolInv, PoolTypes
      <4>. QED BY <4>1 DEF NoneIsLeftBehind, Holding
    <3>. QED BY <3>1, <3>2
  <2>6. ASSUME NEW j \in Invocation, alone'[j]
        PROVE  /\ j \in Running' => Running' = {j} /\ db'[j] = j
               /\ doing'[j] \in Holding => workerPool' = j
               /\ doing'[j] \in Asking \cup {"closing"} => j \notin ended'
               /\ doing'[j] \in {"ending", "clearing", "over"} => j \in ended'
    <3>0. alone[j] /\ i \in Running
      BY <2>6, <2>0 DEF Running
    <3>1. CASE j = i
      <4>1. workerPool = i /\ i # NoPool
        BY <3>1, <3>0, <2>0, EdgeAssumption DEF PoolInv, LoneOnes, Holding
      <4>2. doing'[i] = "ending" /\ ended' = ended \cup {i}
        BY <4>1 DEF ClosePool, Goes, PoolInv, PoolTypes
      <4>3. Running = {i} /\ db[i] = i
        BY <3>0, <3>1 DEF PoolInv, LoneOnes
      <4>. QED BY <3>1, <4>1, <4>2, <4>3, <2>0, <2>1 DEF Holding, Asking
    <3>2. CASE j # i
      <4>1. j \notin Running
        BY <3>0, <3>2 DEF PoolInv, LoneOnes
      <4>2. doing'[j] = doing[j] /\ doing[j] \in {"asked", "over"}
        BY <4>1, <3>2, <2>0 DEF Running
      <4>. QED BY <4>1, <4>2, <3>0, <2>1, <2>3 DEF PoolInv, LoneOnes, Holding, Asking
    <3>. QED BY <3>1, <3>2
  <2>7. LoneOnes'
    BY <2>6 DEF LoneOnes
  <2>. QED BY <2>2, <2>4, <2>5, <2>7 DEF PoolInv
<1>5. ASSUME NEW i \in Invocation, ForgetPool(i) PROVE PoolInv'
  <2>. USE <1>5
  <2>0. /\ doing[i] = "ending" /\ doing'[i] = "clearing" /\ workerPool' = NoPool
        /\ UNCHANGED <<ended, db, alone>>
        /\ \A j \in Invocation : j # i => doing'[j] = doing[j]
    BY DEF ForgetPool, Goes, PoolInv, PoolTypes
  <2>1. Running' = Running
    BY <2>0 DEF Running
  <2>2. PoolTypes'
    BY <2>0 DEF ForgetPool, Goes, PoolInv, PoolTypes, Doings
  <2>3. OpenedByOne' /\ NoneIsLeftBehind'
    BY <2>0, EdgeAssumption DEF PoolInv, OpenedByOne, NoneIsLeftBehind
  <2>4. ASSUME NEW j \in Invocation, alone[j], j # i
        PROVE  j \notin Running /\ doing[j] \in {"asked", "over"}
    <3>1. i \in Running
      BY <2>0 DEF Running
    <3>2. j \notin Running
      BY <2>4, <3>1 DEF PoolInv, LoneOnes
    <3>. QED BY <3>2 DEF Running
  <2>5. LoneOnes'
    BY <2>0, <2>1, <2>4 DEF PoolInv, LoneOnes, Holding, Asking
  <2>. QED BY <2>2, <2>3, <2>5 DEF PoolInv
<1>6. ASSUME NEW i \in Invocation, Clear(i) PROVE PoolInv'
  <2>. USE <1>6
  <2>0. /\ doing[i] = "clearing" /\ doing'[i] = "over"
        /\ UNCHANGED <<workerPool, ended, db, alone>>
        /\ \A j \in Invocation : j # i => doing'[j] = doing[j]
    BY DEF Clear, Goes, PoolInv, PoolTypes
  <2>1. Running' = Running \ {i}
    BY <2>0 DEF Running
  <2>2. PoolTypes'
    BY <2>0 DEF Clear, Goes, PoolInv, PoolTypes, Doings
  <2>3. OpenedByOne' /\ NoneIsLeftBehind'
    BY <2>0 DEF PoolInv, OpenedByOne, NoneIsLeftBehind, Holding, Asking
  <2>4. LoneOnes'
    BY <2>0, <2>1 DEF PoolInv, LoneOnes, Holding, Asking
  <2>. QED BY <2>2, <2>3, <2>4 DEF PoolInv
<1>7. CASE UNCHANGED edgeVars
  BY <1>7 DEF edgeVars, isolate, PoolInv, PoolTypes, OpenedByOne, NoneIsLeftBehind, LoneOnes,
    Running
<1>. QED BY <1>1, <1>2, <1>3, <1>4, <1>5, <1>6, <1>7 DEF EdgeNext

\* cron.ts:82 and db/client.ts:62: however many invocations have shared the modules of the
\* isolate before, and wherever they were when each other's pool was closed or forgotten,
\* the queries of one that nothing runs beside go to a pool of its own, open while it asks
\* and closed when it is over.
THEOREM LonePoolIsItsOwn == EdgeSpec => []PoolIsItsOwn
<1>1. PoolInv => PoolIsItsOwn
  BY DEF PoolInv, LoneOnes, PoolIsItsOwn, Asking
<1>. QED BY <1>1, PoolInit, PoolNext, PTL DEF EdgeSpec

LEMMA EdgeTypesBegin == EdgeInit => EdgeTypeOK
<1>. SUFFICES ASSUME EdgeInit PROVE EdgeTypeOK
  OBVIOUS
<1>1. asks \in [Invocation -> [Site -> Nat]]
  <2>1. [s \in Site |-> 0] \in [Site -> Nat]
    OBVIOUS
  <2>. QED BY <2>1 DEF EdgeInit
<1>2. /\ db \in [Invocation -> Invocation \cup {NoPool}]
      /\ left \in [Invocation -> SUBSET Site] /\ spent \in [Invocation -> Nat]
      /\ alone \in [Invocation -> BOOLEAN]
  BY DEF EdgeInit
<1>. QED BY <1>1, <1>2 DEF EdgeInit, EdgeTypeOK

LEMMA EdgeTypesGoOn == EdgeTypeOK /\ [EdgeNext]_edgeVars => EdgeTypeOK'
<1>. SUFFICES ASSUME EdgeTypeOK, [EdgeNext]_edgeVars PROVE EdgeTypeOK'
  OBVIOUS
<1>. USE DEF EdgeTypeOK, Goes
<1>1. ASSUME NEW i \in Invocation, Open(i) PROVE EdgeTypeOK'
  <2>1. /\ workerPool' \in Invocation \cup {NoPool} /\ used' \in Nat
        /\ spent' \in [Invocation -> Nat] /\ db' = [db EXCEPT ![i] = workerPool']
    BY <1>1 DEF Open
  <2>2. alone' \in [Invocation -> BOOLEAN]
    BY <1>1 DEF Open
  <2>3. /\ active' \in BOOLEAN /\ UNCHANGED <<ended, left, asks>>
        /\ doing' = [doing EXCEPT ![i] = "settings"]
    BY <1>1 DEF Open
  <2>. QED BY <2>1, <2>2, <2>3
<1>2. ASSUME NEW i \in Invocation,
             ReadSettings(i) \/ Defer(i) \/ RunStatement(i) \/ EndCycle(i)
      PROVE  EdgeTypeOK'
  BY <1>2 DEF ReadSettings, Defer, RunStatement, EndCycle, isolate
<1>3. ASSUME NEW i \in Invocation, List(i) \/ PassDeadline(i) PROVE EdgeTypeOK'
  BY <1>3 DEF List, PassDeadline, isolate
<1>4. ASSUME NEW i \in Invocation, NEW s \in Site, Take(i, s) PROVE EdgeTypeOK'
  <2>1. asks' \in [Invocation -> [Site -> Nat]]
    <3>1. CASE UNCHANGED asks
      BY <3>1
    <3>2. CASE \E n \in Requests[s] : asks' = [asks EXCEPT ![i][s] = n]
      BY <3>2, EdgeAssumption
    <3>. QED BY <1>4, <3>1, <3>2 DEF Take
  <2>. QED BY <1>4, <2>1 DEF Take, isolate
<1>5. ASSUME NEW i \in Invocation, NEW s \in Site, Fetch(i, s) PROVE EdgeTypeOK'
  <2>1. asks[i][s] - 1 \in Nat
    BY <1>5 DEF Fetch
  <2>. QED BY <1>5, <2>1 DEF Fetch
<1>6. ASSUME NEW i \in Invocation, ClosePool(i) \/ ForgetPool(i) \/ Clear(i)
      PROVE  EdgeTypeOK'
  <2>1. CASE ClosePool(i)
    <3>1. ended' \subseteq Invocation /\ \E to \in {"clearing", "ending"} : Goes(i, to)
      BY <2>1 DEF ClosePool
    <3>. QED BY <2>1, <3>1 DEF ClosePool
  <2>2. CASE ForgetPool(i)
    BY <2>2 DEF ForgetPool
  <2>3. CASE Clear(i)
    <3>1. spent' \in [Invocation -> Nat] /\ active' \in BOOLEAN /\ used' \in Nat
      BY <2>3 DEF Clear
    <3>. QED BY <2>3, <3>1 DEF Clear
  <2>. QED BY <1>6, <2>1, <2>2, <2>3
<1>7. CASE UNCHANGED edgeVars
  BY <1>7 DEF edgeVars, isolate
<1>. QED BY <1>1, <1>2, <1>3, <1>4, <1>5, <1>6, <1>7 DEF EdgeNext

------------------------------------------------------------------------------
(* The allowance, for polls of `most` requests at the most.                *)

Affordable(most) ==
  /\ \A s \in Site : Requests[s] \subseteq 1 .. most
  /\ 1 + PerSource < Allowance - Reserve

Slip(most) == (Concurrency + Cardinality(Adapter)) * most

\* The counted requests that polls under way have still to make, and those of adapters,
\* whose polls may not have begun.
Owed(i, most) == {r \in (Site \ Adapter) \X (1 .. most) : r[2] <= asks[i][r[1]]}
ToCome(i, most) ==
  {r \in Adapter \X (1 .. most) :
     \/ doing[i] \in {"asked", "settings", "defer", "list"}
     \/ r[1] \in left[i]
     \/ r[2] <= asks[i][r[1]]}

Ceiling(most) == Allowance - Reserve - PerSource - 1 + Concurrency * most
Uncounted(most) == Cardinality(Adapter) * most

BudgetTypes(most) ==
  /\ used \in Nat /\ active \in BOOLEAN
  /\ left \in [Invocation -> SUBSET Site]
  /\ asks \in [Invocation -> [Site -> 0 .. most]]
  /\ spent \in [Invocation -> Nat]

\* Polls belong to a cycle, and a source is polled once in it.
PollsInCycle ==
  \A i \in Invocation :
    /\ left[i] # {} \/ Busy(i) # {} => doing[i] = "polling"
    /\ left[i] \cap Busy(i) = {}
    /\ doing[i] \in {"asked", "over"} => spent[i] = 0

\* What is used and owed stays below the ceiling, and what is not counted below what
\* adapters may ask.
Balance(i, most) ==
  /\ active
  /\ used + Cardinality(Owed(i, most)) <= Ceiling(most)
  /\ spent[i] - used + Cardinality(ToCome(i, most)) <= Uncounted(most)

LoneOnesBalance(most) == \A i \in Invocation : alone[i] /\ i \in Running => Balance(i, most)

BudgetInv(most) == PoolInv /\ BudgetTypes(most) /\ PollsInCycle /\ LoneOnesBalance(most)

LEMMA EdgeNumbers ==
  ASSUME NEW most \in Nat, Affordable(most)
  PROVE  /\ Cardinality(Adapter) \in Nat /\ IsFiniteSet(Adapter)
         /\ Ceiling(most) \in Nat \ {0} /\ Uncounted(most) \in Nat
         /\ Ceiling(most) + Uncounted(most) = Allowance - Reserve - PerSource - 1 + Slip(most)
<1>. USE EdgeAssumption
<1>1. Cardinality(Adapter) \in Nat /\ IsFiniteSet(Adapter)
  BY FS_Subset, FS_CardinalityType
<1>. DEFINE c == Cardinality(Adapter)
<1>. HIDE DEF c
<1>2. c \in Nat /\ c * most \in Nat /\ Concurrency * most \in Nat
      /\ (Concurrency + c) * most = Concurrency * most + c * most
  BY <1>1 DEF c
<1>. QED BY <1>1, <1>2 DEF Affordable, Ceiling, Uncounted, Slip, c

\* The sets whose sizes are counted are finite, and as large as that.
LEMMA RequestSets ==
  ASSUME NEW most \in Nat, NEW B \in SUBSET Site
  PROVE  /\ IsFiniteSet(B) /\ IsFiniteSet(B \X (1 .. most))
         /\ Cardinality(B \X (1 .. most)) = Cardinality(B) * most
         /\ Cardinality(B) \in Nat
<1>1. IsFiniteSet(B)
  BY EdgeAssumption, FS_Subset
<1>2. IsFiniteSet(1 .. most) /\ Cardinality(1 .. most) = most
  BY FS_Interval
<1>. QED BY <1>1, <1>2, FS_Product, FS_CardinalityType

LEMMA Counts ==
  ASSUME NEW most \in Nat, NEW i \in Invocation
  PROVE  /\ IsFiniteSet(Owed(i, most)) /\ Cardinality(Owed(i, most)) \in Nat
         /\ IsFiniteSet(ToCome(i, most)) /\ Cardinality(ToCome(i, most)) \in Nat
         /\ Cardinality(ToCome(i, most)) <= Uncounted(most)
<1>1. IsFiniteSet((Site \ Adapter) \X (1 .. most))
  BY RequestSets
<1>2. IsFiniteSet(Adapter \X (1 .. most)) /\ Cardinality(Adapter \X (1 .. most)) = Uncounted(most)
  BY RequestSets, EdgeAssumption DEF Uncounted
<1>3. Owed(i, most) \in SUBSET ((Site \ Adapter) \X (1 .. most))
  BY DEF Owed
<1>4. ToCome(i, most) \in SUBSET (Adapter \X (1 .. most))
  BY DEF ToCome
<1>. QED BY <1>1, <1>2, <1>3, <1>4, FS_Subset, FS_CardinalityType

LEMMA BudgetInit ==
  ASSUME NEW most \in Nat, Affordable(most), EdgeInit
  PROVE  BudgetInv(most)
<1>1. PoolInv
  BY PoolInit
<1>2. BudgetTypes(most)
  <2>1. 0 \in 0 .. most
    OBVIOUS
  <2>. QED BY <2>1 DEF EdgeInit, BudgetTypes
<1>3. PollsInCycle
  BY DEF EdgeInit, PollsInCycle, Busy
<1>4. LoneOnesBalance(most)
  BY DEF EdgeInit, LoneOnesBalance, Running
<1>. QED BY <1>1, <1>2, <1>3, <1>4 DEF BudgetInv

\* An invocation goes on without using anything.
LEMMA BudgetGoesOn ==
  ASSUME NEW most \in Nat, Affordable(most), BudgetInv(most), PoolInv', NEW i \in Invocation,
         BudgetTypes(most)', PollsInCycle',
         UNCHANGED <<used, active, asks, spent, alone>>,
         \A j \in Invocation : j # i => doing'[j] = doing[j] /\ left'[j] = left[j],
         i \in Running' => i \in Running,
         ToCome(i, most)' \subseteq ToCome(i, most)
  PROVE  BudgetInv(most)'
<1>1. ASSUME NEW j \in Invocation, alone'[j], j \in Running' PROVE Balance(j, most)'
  <2>1. alone[j] /\ j \in Running
    BY <1>1 DEF Running
  <2>2. Balance(j, most)
    BY <2>1 DEF BudgetInv, LoneOnesBalance
  <2>3. Owed(j, most)' = Owed(j, most)
    BY DEF Owed
  <2>4. ToCome(j, most)' \subseteq ToCome(j, most)
    <3>1. CASE j = i
      BY <3>1
    <3>2. CASE j # i
      BY <3>2 DEF ToCome
    <3>. QED BY <3>1, <3>2
  <2>5. Cardinality(ToCome(j, most)') <= Cardinality(ToCome(j, most))
    BY <2>4, Counts, FS_Subset
  <2>6. Cardinality(ToCome(j, most)') \in Nat
    BY <2>4, Counts, FS_Subset, FS_CardinalityType
  <2>. QED
    BY <2>2, <2>3, <2>5, <2>6, Counts, EdgeNumbers DEF Balance, BudgetInv, BudgetTypes, Ceiling, Uncounted
<1>. QED BY <1>1 DEF BudgetInv, LoneOnesBalance

\* A step of one that is running leaves no other running one alone.
LEMMA NobodyBeside ==
  ASSUME PoolInv, NEW i \in Invocation, i \in Running, NEW j \in Invocation, alone[j], j \in Running
  PROVE  j = i
BY DEF PoolInv, LoneOnes

\* A worker of the cycle takes a source: what its poll may ask was afforded, and polls
\* that run beside it are fewer than Concurrency.
LEMMA BudgetTake ==
  ASSUME NEW most \in Nat, Affordable(most), BudgetInv(most), PoolInv',
         NEW i \in Invocation, NEW s \in Site, Take(i, s)
  PROVE  BudgetInv(most)'
<1>. USE EdgeAssumption
<1>0. /\ BudgetTypes(most) /\ PollsInCycle /\ s \in left[i] /\ doing[i] = "polling"
      /\ UNCHANGED <<isolate, doing, db, spent, alone>> /\ left' = [left EXCEPT ![i] = @ \ {s}]
      /\ Cardinality(Busy(i)) < Concurrency
  BY DEF Take, BudgetInv
<1>1. PICK n \in 0 .. most : /\ asks' = [asks EXCEPT ![i][s] = n]
                             /\ n > 0 => CanAfford
  <2>1. CASE CanAfford
    BY <2>1 DEF Take, Affordable
  <2>2. CASE ~CanAfford
    <3>1. asks[i][s] = 0
      BY <1>0 DEF PollsInCycle, Busy, BudgetTypes
    <3>2. asks' = [asks EXCEPT ![i][s] = 0]
      BY <2>2, <3>1, <1>0 DEF Take, BudgetTypes
    <3>3. 0 \in 0 .. most /\ ~(0 > 0)
      OBVIOUS
    <3>. QED BY <3>2, <3>3
  <2>. QED BY <2>1, <2>2
<1>2. /\ \A j \in Invocation : j # i => asks'[j] = asks[j] /\ left'[j] = left[j]
      /\ \A t \in Site : t # s => asks'[i][t] = asks[i][t]
      /\ asks'[i][s] = n /\ left'[i] = left[i] \ {s}
  BY <1>0, <1>1 DEF BudgetTypes
<1>3. BudgetTypes(most)'
  BY <1>0, <1>1, <1>2 DEF BudgetTypes, isolate
<1>4. PollsInCycle'
  BY <1>0, <1>2 DEF PollsInCycle, Busy
<1>5. ASSUME NEW j \in Invocation, alone'[j], j \in Running' PROVE Balance(j, most)'
  <2>1. alone[j] /\ j \in Running /\ i \in Running
    BY <1>0, <1>5 DEF Running
  <2>2. j = i
    BY <2>1, NobodyBeside DEF BudgetInv
  <2>3. Balance(i, most)
    BY <2>1, <2>2 DEF BudgetInv, LoneOnesBalance
  <2>4. ToCome(i, most)' \subseteq ToCome(i, most)
    BY <1>0, <1>2 DEF ToCome
  <2>5. Cardinality(ToCome(i, most)') <= Cardinality(ToCome(i, most)) /\ Cardinality(ToCome(i, most)') \in Nat
    BY <2>4, Counts, FS_Subset, FS_CardinalityType
  <2>6. spent'[i] - used' + Cardinality(ToCome(i, most)') <= Uncounted(most)
    BY <2>3, <2>5, <1>0, Counts, EdgeNumbers DEF Balance, BudgetTypes, isolate
  <2>7. used' + Cardinality(Owed(i, most)') <= Ceiling(most)
    <3>1. CASE n = 0
      <4>1. Owed(i, most)' \subseteq Owed(i, most)
        BY <1>2, <3>1 DEF Owed
      <4>2. Cardinality(Owed(i, most)') <= Cardinality(Owed(i, most)) /\ Cardinality(Owed(i, most)') \in Nat
        BY <4>1, Counts, FS_Subset, FS_CardinalityType
      <4>. QED BY <4>2, <2>3, <1>0, Counts, EdgeNumbers DEF Balance, BudgetTypes, isolate
    <3>2. CASE n > 0
      <4>1. used <= Allowance - Reserve - PerSource - 1
        BY <1>1, <3>2, <1>0, <2>3 DEF CanAfford, Balance, BudgetTypes
      <4>2. Busy(i) \in SUBSET Site /\ Busy(i) \cup {s} \in SUBSET Site
        BY DEF Busy
      <4>3. Owed(i, most)' \subseteq (Busy(i) \cup {s}) \X (1 .. most)
        BY <1>0, <1>2 DEF Owed, Busy, BudgetTypes
      <4>4. Cardinality(Busy(i) \cup {s}) <= Concurrency
        <5>1. IsFiniteSet(Busy(i)) /\ Cardinality(Busy(i)) \in Nat
          BY <4>2, RequestSets
        <5>2. Cardinality(Busy(i) \cup {s}) <= Cardinality(Busy(i)) + 1
          <6>1. Cardinality(Busy(i) \cup {s}) =
                  IF s \in Busy(i) THEN Cardinality(Busy(i)) ELSE Cardinality(Busy(i)) + 1
            BY <5>1, FS_AddElement
          <6>. QED BY <5>1, <6>1
        <5>3. Cardinality(Busy(i) \cup {s}) \in Nat
          BY <4>2, RequestSets
        <5>. QED BY <5>1, <5>2, <5>3, <1>0
      <4>5. Cardinality(Owed(i, most)') <= Cardinality((Busy(i) \cup {s}) \X (1 .. most))
        BY <4>2, <4>3, RequestSets, FS_Subset
      <4>6. Cardinality((Busy(i) \cup {s}) \X (1 .. most)) <= Concurrency * most
        <5>. DEFINE c == Cardinality(Busy(i) \cup {s})
        <5>1. c \in Nat /\ c <= Concurrency
              /\ Cardinality((Busy(i) \cup {s}) \X (1 .. most)) = c * most
          BY <4>2, <4>4, RequestSets
        <5>. HIDE DEF c
        <5>2. c * most <= Concurrency * most
          BY <5>1
        <5>. QED BY <5>1, <5>2
      <4>7. Cardinality(Owed(i, most)') \in Nat
        BY <4>2, <4>3, RequestSets, FS_Subset, FS_CardinalityType
      <4>8. Cardinality((Busy(i) \cup {s}) \X (1 .. most)) \in Nat
        BY <4>2, RequestSets, FS_CardinalityType
      <4>9. Concurrency * most \in Nat
        OBVIOUS
      <4>. QED BY <4>1, <4>5, <4>6, <4>7, <4>8, <4>9, <1>0 DEF Ceiling, BudgetTypes, isolate
    <3>. QED BY <3>1, <3>2
  <2>. QED BY <2>2, <2>3, <2>6, <2>7, <1>0 DEF Balance, isolate
<1>. QED BY <1>3, <1>4, <1>5 DEF BudgetInv, LoneOnesBalance

\* A request is made: it was owed, or still to come from an adapter.
LEMMA BudgetFetch ==
  ASSUME NEW most \in Nat, Affordable(most), BudgetInv(most), PoolInv',
         NEW i \in Invocation, NEW s \in Site, Fetch(i, s)
  PROVE  BudgetInv(most)'
<1>. USE EdgeAssumption
<1>. DEFINE n == asks[i][s]
<1>0. /\ BudgetTypes(most) /\ PollsInCycle /\ n \in 1 .. most
      /\ asks' = [asks EXCEPT ![i][s] = n - 1] /\ spent' = [spent EXCEPT ![i] = @ + 1]
      /\ used' = (IF active /\ s \notin Adapter THEN used + 1 ELSE used)
      /\ UNCHANGED <<workerPool, ended, active, doing, db, left, alone>>
  BY DEF Fetch, BudgetInv, BudgetTypes
<1>1. doing[i] = "polling" /\ i \in Running /\ s \notin left[i]
  BY <1>0 DEF PollsInCycle, Busy, Running
<1>2. /\ \A j \in Invocation : j # i => asks'[j] = asks[j] /\ spent'[j] = spent[j]
      /\ \A t \in Site : t # s => asks'[i][t] = asks[i][t]
      /\ asks'[i][s] = n - 1 /\ spent'[i] = spent[i] + 1
  BY <1>0 DEF BudgetTypes
<1>3. BudgetTypes(most)'
  BY <1>0 DEF BudgetTypes
<1>4. PollsInCycle'
  BY <1>0, <1>1, <1>2 DEF PollsInCycle, Busy
<1>. HIDE DEF n
<1>5. ASSUME NEW j \in Invocation, alone'[j], j \in Running' PROVE Balance(j, most)'
  <2>1. alone[j] /\ j \in Running
    BY <1>0, <1>5 DEF Running
  <2>2. j = i
    BY <1>1, <2>1, NobodyBeside DEF BudgetInv
  <2>3. Balance(i, most)
    BY <2>1, <2>2 DEF BudgetInv, LoneOnesBalance
  <2>4. CASE s \in Adapter
    <3>1. Owed(i, most)' = Owed(i, most)
      BY <1>2, <2>4 DEF Owed
    <3>2. <<s, n>> \in ToCome(i, most)
      BY <1>0, <2>4 DEF ToCome, n
    <3>3. ToCome(i, most)' \subseteq ToCome(i, most) \ {<<s, n>>}
      BY <1>0, <1>1, <1>2 DEF ToCome, n
    <3>4. Cardinality(ToCome(i, most) \ {<<s, n>>}) = Cardinality(ToCome(i, most)) - 1
          /\ IsFiniteSet(ToCome(i, most) \ {<<s, n>>})
      BY <3>2, Counts, FS_RemoveElement
    <3>5. Cardinality(ToCome(i, most)') <= Cardinality(ToCome(i, most)) - 1 /\ Cardinality(ToCome(i, most)') \in Nat
      BY <3>3, <3>4, FS_Subset, FS_CardinalityType
    <3>6. used' = used /\ active'
      BY <1>0, <2>3, <2>4 DEF Balance
    <3>7. spent'[i] - used' + Cardinality(ToCome(i, most)') <= Uncounted(most)
      BY <1>0, <1>2, <2>3, <3>5, <3>6, Counts, EdgeNumbers DEF Balance, BudgetTypes
    <3>. QED BY <2>2, <2>3, <3>1, <3>6, <3>7 DEF Balance
  <2>5. CASE s \notin Adapter
    <3>1. ToCome(i, most)' = ToCome(i, most)
      BY <1>0, <1>2, <2>5 DEF ToCome
    <3>2. <<s, n>> \in Owed(i, most)
      BY <1>0, <2>5 DEF Owed, n
    <3>3. Owed(i, most)' \subseteq Owed(i, most) \ {<<s, n>>}
      BY <1>0, <1>2 DEF Owed, n
    <3>4. Cardinality(Owed(i, most) \ {<<s, n>>}) = Cardinality(Owed(i, most)) - 1
          /\ IsFiniteSet(Owed(i, most) \ {<<s, n>>})
      BY <3>2, Counts, FS_RemoveElement
    <3>5. Cardinality(Owed(i, most)') <= Cardinality(Owed(i, most)) - 1 /\ Cardinality(Owed(i, most)') \in Nat
      BY <3>3, <3>4, FS_Subset, FS_CardinalityType
    <3>6. used' = used + 1 /\ active'
      BY <1>0, <2>3, <2>5 DEF Balance
    <3>7. used' + Cardinality(Owed(i, most)') <= Ceiling(most)
      BY <1>0, <2>3, <3>5, <3>6, Counts, EdgeNumbers DEF Balance, BudgetTypes
    <3>8. spent'[i] - used' = spent[i] - used
      <4>1. spent[i] \in Nat /\ used \in Nat
        BY <1>0 DEF BudgetTypes
      <4>. QED BY <1>2, <3>6, <4>1
    <3>. QED BY <2>2, <2>3, <3>1, <3>6, <3>7, <3>8 DEF Balance
  <2>. QED BY <2>4, <2>5
<1>. QED BY <1>3, <1>4, <1>5 DEF BudgetInv, LoneOnesBalance

LEMMA BudgetNext ==
  ASSUME NEW most \in Nat, Affordable(most), BudgetInv(most), [EdgeNext]_edgeVars
  PROVE  BudgetInv(most)'
<1>0. PoolInv /\ PoolInv' /\ PoolTypes /\ BudgetTypes(most) /\ PollsInCycle
  BY PoolNext DEF BudgetInv, PoolInv
<1>1. ASSUME NEW i \in Invocation, Open(i) PROVE BudgetInv(most)'
  <2>0. /\ doing[i] = "asked" /\ doing'[i] = "settings" /\ active'
        /\ \A j \in Invocation : j # i => doing'[j] = doing[j] /\ spent'[j] = spent[j]
        /\ UNCHANGED <<left, asks>>
        /\ used' \in Nat /\ spent' \in [Invocation -> Nat]
    BY <1>0, <1>1 DEF Open, Goes, PoolTypes, BudgetTypes
  <2>1. BudgetTypes(most)'
    BY <1>0, <2>0 DEF BudgetTypes
  <2>2. PollsInCycle'
    BY <1>0, <2>0 DEF PollsInCycle, Busy
  <2>3. ASSUME NEW j \in Invocation, alone'[j], j \in Running' PROVE Balance(j, most)'
    <3>1. j = i
      BY <1>1, <2>0, <2>3 DEF Open, Running
    <3>2. Running = {}
      BY <1>1, <2>3, <3>1 DEF Open
    <3>3. workerPool = NoPool
      BY <1>0, <3>2 DEF PoolInv, NoneIsLeftBehind, Running, Holding, Asking
    <3>4. used' = 1 /\ spent'[i] = 1
      BY <1>0, <1>1, <3>3 DEF Open, BudgetTypes
    <3>5. \A s \in Site : asks'[i][s] = 0
      BY <1>0, <2>0 DEF PollsInCycle, Busy, BudgetTypes
    <3>6. Owed(i, most)' = {}
      BY <3>5 DEF Owed
    <3>7. Cardinality(Owed(i, most)') = 0
      BY <3>6, FS_EmptySet
    <3>8. ToCome(i, most)' \in SUBSET (Adapter \X (1 .. most))
      BY DEF ToCome
    <3>9. Cardinality(ToCome(i, most)') <= Uncounted(most) /\ Cardinality(ToCome(i, most)') \in Nat
      <4>1. /\ IsFiniteSet(Adapter \X (1 .. most))
            /\ Cardinality(Adapter \X (1 .. most)) = Uncounted(most)
        BY RequestSets, EdgeAssumption DEF Uncounted
      <4>. QED BY <3>8, <4>1, FS_Subset, FS_CardinalityType
    <3>10. 1 + 0 <= Ceiling(most) /\ Uncounted(most) \in Nat
      BY EdgeNumbers
    <3>11. used' + Cardinality(Owed(i, most)') <= Ceiling(most)
      BY <3>4, <3>7, <3>10
    <3>12. spent'[i] - used' + Cardinality(ToCome(i, most)') <= Uncounted(most)
      BY <3>4, <3>9, <3>10
    <3>. QED BY <3>1, <3>11, <3>12, <2>0 DEF Balance
  <2>. QED BY <1>0, <2>1, <2>2, <2>3 DEF BudgetInv, LoneOnesBalance
<1>2. ASSUME NEW i \in Invocation,
             \/ ReadSettings(i) \/ Defer(i) \/ RunStatement(i) \/ List(i)
             \/ PassDeadline(i) \/ EndCycle(i) \/ ClosePool(i) \/ ForgetPool(i)
      PROVE  BudgetInv(most)'
  <2>. DEFINE Early == {"settings", "defer", "list"}
  <2>1. /\ UNCHANGED <<used, active, asks, spent, alone>>
        /\ \A j \in Invocation : j # i => doing'[j] = doing[j] /\ left'[j] = left[j]
    BY <1>0, <1>2 DEF ReadSettings, Defer, RunStatement, List, PassDeadline, EndCycle, ClosePool,
      ForgetPool, isolate, Goes, PoolTypes, BudgetTypes
  <2>2. /\ doing[i] \notin {"asked", "over"} /\ doing'[i] \notin {"asked", "over"}
        /\ left'[i] \in SUBSET Site /\ left' \in [Invocation -> SUBSET Site]
        /\ doing[i] \notin Early => left'[i] \subseteq left[i] /\ doing'[i] \notin Early
        /\ doing'[i] # "polling" =>
             left'[i] = left[i] /\ (doing[i] = "polling" => left[i] = {} /\ Busy(i) = {})
        /\ doing[i] = "polling" => left'[i] \subseteq left[i]
    <3>1. CASE ReadSettings(i) \/ Defer(i) \/ RunStatement(i) \/ ClosePool(i) \/ ForgetPool(i)
      BY <1>0, <3>1 DEF ReadSettings, Defer, RunStatement, ClosePool, ForgetPool, isolate, Goes,
        PoolTypes, BudgetTypes
    <3>2. CASE List(i)
      BY <1>0, <3>2 DEF List, isolate, Goes, PoolTypes, BudgetTypes
    <3>3. CASE PassDeadline(i) \/ EndCycle(i)
      BY <1>0, <3>3 DEF PassDeadline, EndCycle, isolate, Goes, PoolTypes, BudgetTypes
    <3>. QED BY <1>2, <3>1, <3>2, <3>3
  <2>3. BudgetTypes(most)'
    BY <1>0, <2>1, <2>2 DEF BudgetTypes
  <2>4. \A j \in Invocation : Busy(j)' = Busy(j)
    BY <2>1 DEF Busy
  <2>5. PollsInCycle'
    <3>. SUFFICES ASSUME NEW j \in Invocation
                  PROVE  /\ left'[j] # {} \/ Busy(j) # {} => doing'[j] = "polling"
                         /\ left'[j] \cap Busy(j) = {}
                         /\ doing'[j] \in {"asked", "over"} => spent'[j] = 0
      BY <2>4 DEF PollsInCycle
    <3>1. CASE j # i
      BY <1>0, <2>1, <3>1 DEF PollsInCycle
    <3>2. CASE j = i
      BY <1>0, <2>2, <3>2 DEF PollsInCycle
    <3>. QED BY <3>1, <3>2
  <2>6. ToCome(i, most)' \subseteq ToCome(i, most)
    BY <2>1, <2>2 DEF ToCome
  <2>7. i \in Running
    BY <2>2 DEF Running
  <2>. HIDE DEF Early
  <2>. QED BY <1>0, <2>1, <2>3, <2>5, <2>6, <2>7, BudgetGoesOn
<1>3. ASSUME NEW i \in Invocation, NEW s \in Site, Take(i, s) PROVE BudgetInv(most)'
  BY <1>0, <1>3, BudgetTake
<1>4. ASSUME NEW i \in Invocation, NEW s \in Site, Fetch(i, s) PROVE BudgetInv(most)'
  BY <1>0, <1>4, BudgetFetch
<1>5. ASSUME NEW i \in Invocation, Clear(i) PROVE BudgetInv(most)'
  <2>0. /\ doing[i] = "clearing" /\ doing'[i] = "over" /\ i \in Running
        /\ \A j \in Invocation : j # i => doing'[j] = doing[j] /\ spent'[j] = spent[j]
        /\ UNCHANGED <<left, asks, alone>> /\ active' = FALSE /\ used' = 0
        /\ spent'[i] = 0 /\ spent' \in [Invocation -> Nat]
    BY <1>0, <1>5 DEF Clear, Goes, PoolTypes, BudgetTypes, Running
  <2>1. BudgetTypes(most)'
    BY <1>0, <2>0 DEF BudgetTypes
  <2>2. PollsInCycle'
    BY <1>0, <2>0 DEF PollsInCycle, Busy
  <2>3. ASSUME NEW j \in Invocation, alone'[j], j \in Running' PROVE FALSE
    <3>1. j # i /\ alone[j] /\ j \in Running
      BY <2>0, <2>3 DEF Running
    <3>. QED BY <1>0, <2>0, <3>1, NobodyBeside
  <2>. QED BY <1>0, <2>1, <2>2, <2>3 DEF BudgetInv, LoneOnesBalance
<1>6. CASE UNCHANGED edgeVars
  BY <1>0, <1>6 DEF edgeVars, isolate, BudgetInv, BudgetTypes, PollsInCycle, Busy, LoneOnesBalance,
    Running, Balance, Owed, ToCome
<1>. QED BY <1>1, <1>2, <1>3, <1>4, <1>5, <1>6 DEF EdgeNext

LEMMA BudgetBound ==
  ASSUME NEW most \in Nat, Affordable(most), BudgetInv(most), NEW i \in Invocation, alone[i]
  PROVE  spent[i] <= Allowance - Reserve - PerSource - 1 + Slip(most)
<1>1. BudgetTypes(most) /\ PollsInCycle /\ LoneOnesBalance(most)
  BY DEF BudgetInv
<1>2. Ceiling(most) \in Nat \ {0} /\ Uncounted(most) \in Nat
      /\ Ceiling(most) + Uncounted(most) = Allowance - Reserve - PerSource - 1 + Slip(most)
  BY EdgeNumbers
<1>3. spent[i] <= Ceiling(most) + Uncounted(most)
  <2>1. CASE i \in Running
    BY <1>1, <1>2, <2>1, Counts DEF LoneOnesBalance, Balance, BudgetTypes
  <2>2. CASE i \notin Running
    BY <1>1, <1>2, <2>2 DEF PollsInCycle, Running
  <2>. QED BY <2>1, <2>2
<1>. QED BY <1>2, <1>3

\* subrequests.ts:53, which asks what is left before each source and not what others are
\* about to use: an invocation that runs by itself goes past what it keeps back by the
\* requests of its concurrent polls and of its adapters, whatever has happened before.
THEOREM OverrunIsBounded ==
  ASSUME NEW most \in Nat, Affordable(most)
  PROVE  EdgeSpec => [](\A i \in Invocation : alone[i] =>
           spent[i] <= Allowance - Reserve - PerSource - 1 + Slip(most))
<1>1. EdgeInit => BudgetInv(most)
  BY BudgetInit
<1>2. BudgetInv(most) /\ [EdgeNext]_edgeVars => BudgetInv(most)'
  BY BudgetNext
<1>3. BudgetInv(most) => \A i \in Invocation : alone[i] =>
                           spent[i] <= Allowance - Reserve - PerSource - 1 + Slip(most)
  BY BudgetBound
<1>. QED BY <1>1, <1>2, <1>3, PTL DEF EdgeSpec

=============================================================================
