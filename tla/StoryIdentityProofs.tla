------------------------- MODULE StoryIdentityProofs -------------------------
(***************************************************************************)
(* One story to one address, for any polls, items and ids.                 *)
(***************************************************************************)
EXTENDS StoryIdentity, TLAPS

USE NoStoryAssumption, KeyAssumption, ItemAssumption

------------------------------------------------------------------------------
(* Types.                                                                  *)

Steps == {"idle", "reading", "matching", "claiming", "losing", "inserting", "keying", "joining"}

Types ==
  /\ keys \in [Key -> Id \cup {NoStory}]
  /\ story \in [Id -> StoryRow \cup {NoStory}]
  /\ step \in [Poll -> Steps]
  /\ batch \in [Poll -> SUBSET Item]
  /\ reading \in [Poll -> [Item -> Reading]]
  /\ claimed \in [Poll -> [Item -> Id \cup {NoStory}]]

\* A reading is an address and a text.
LEMMA ReadingType ==
  ASSUME Types, NEW p \in Poll, NEW i \in Item
  PROVE  reading[p][i].url \in Url /\ reading[p][i].body \in Body
BY DEF Types, Reading

\* What the end of a call leaves.
LEMMA OverType ==
  ASSUME Types, NEW p \in Poll, Over(p)
  PROVE  /\ step' \in [Poll -> Steps] /\ batch' \in [Poll -> SUBSET Item]
         /\ reading' \in [Poll -> [Item -> Reading]]
         /\ claimed' \in [Poll -> [Item -> Id \cup {NoStory}]]
BY DEF Types, Over, Steps, Reading

LEMMA PollTypeStep ==
  ASSUME Types, NEW p \in Poll, PollStep(p) \/ Crash(p)
  PROVE  Types'
<1>1. CASE LookUp(p)
  <2>1. batch' \in [Poll -> SUBSET Item] /\ step' \in [Poll -> Steps]
    BY <1>1 DEF LookUp, Types, Steps
  <2> QED
    BY <1>1, <2>1 DEF LookUp, Types, tables
<1>2. CASE Read(p)
  <2>1. \E fetched \in SUBSET batch[p], left \in SUBSET batch[p] :
          /\ reading' = [reading EXCEPT ![p] =
                           [i \in Item |-> IF i \in fetched THEN Page[i] ELSE Feed[i]]]
          /\ batch' = [batch EXCEPT ![p] = left]
          /\ step' = [step EXCEPT ![p] = IF left = {} THEN "joining" ELSE "matching"]
    <3>1. PICK fetched \in SUBSET (batch[p] \cap Short) :
            LET read == [i \in Item |-> IF i \in fetched THEN Page[i] ELSE Feed[i]]
                known == {i \in fetched : read[i].url # Feed[i].url /\ HeldAt(read[i].url)}
                thin == IF p \in Lenient THEN {} ELSE (batch[p] \cap Short) \ fetched
                left == batch[p] \ (known \cup thin) IN
            /\ reading' = [reading EXCEPT ![p] = read]
            /\ batch' = [batch EXCEPT ![p] = left]
            /\ step' = [step EXCEPT ![p] = IF left = {} THEN "joining" ELSE "matching"]
      BY <1>2 DEF Read
    <3> DEFINE read == [i \in Item |-> IF i \in fetched THEN Page[i] ELSE Feed[i]]
               known == {i \in fetched : read[i].url # Feed[i].url /\ HeldAt(read[i].url)}
               thin == IF p \in Lenient THEN {} ELSE (batch[p] \cap Short) \ fetched
               left == batch[p] \ (known \cup thin)
    <3>2. left \in SUBSET batch[p] /\ fetched \in SUBSET batch[p]
      OBVIOUS
    <3>3. /\ reading' = [reading EXCEPT ![p] = read]
          /\ batch' = [batch EXCEPT ![p] = left]
          /\ step' = [step EXCEPT ![p] = IF left = {} THEN "joining" ELSE "matching"]
      BY <3>1
    <3> HIDE DEF left
    <3> QED
      BY <3>2, <3>3
  <2>2. reading' \in [Poll -> [Item -> Reading]]
    BY <2>1 DEF Types, Reading
  <2>3. batch' \in [Poll -> SUBSET Item] /\ step' \in [Poll -> Steps]
    BY <2>1 DEF Types, Steps
  <2> QED
    BY <1>2, <2>2, <2>3 DEF Read, Types, tables
<1>3. CASE MatchBodies(p)
  <2>1. PICK known \in SUBSET batch[p] :
          /\ batch' = [batch EXCEPT ![p] = @ \ known]
          /\ step' = [step EXCEPT ![p] = IF batch[p] = known THEN "joining" ELSE "claiming"]
    BY <1>3 DEF MatchBodies
  <2>2. batch' \in [Poll -> SUBSET Item] /\ step' \in [Poll -> Steps]
    BY <2>1 DEF Types, Steps
  <2> QED
    BY <1>3, <2>2 DEF MatchBodies, Types, tables
<1>4. CASE ClaimUrls(p)
  <2> DEFINE won == {i \in batch[p] : MayClaim(reading[p][i].url)}
  <2>1. PICK ids \in [won -> Unused] :
          /\ keys' = [k \in Key |->
               IF \E i \in won : reading[p][i].url = k
                 THEN ids[CHOOSE i \in won : reading[p][i].url = k] ELSE keys[k]]
          /\ claimed' = [claimed EXCEPT ![p] =
               [i \in Item |-> IF i \in won THEN ids[i] ELSE NoStory]]
          /\ step' = [step EXCEPT ![p] = IF won = batch[p] THEN "inserting" ELSE "losing"]
    BY <1>4 DEF ClaimUrls
  <2>2. ids \in [won -> Id]
    BY DEF Unused
  <2> HIDE DEF won
  <2>3. keys' \in [Key -> Id \cup {NoStory}]
    BY <2>1, <2>2 DEF Types
  <2>4. claimed' \in [Poll -> [Item -> Id \cup {NoStory}]]
    BY <2>1, <2>2 DEF Types
  <2>5. step' \in [Poll -> Steps]
    BY <2>1 DEF Types, Steps
  <2> QED
    BY <1>4, <2>3, <2>4, <2>5 DEF ClaimUrls, Types
<1>5. CASE ClaimRefused(p)
  BY <1>5, OverType DEF ClaimRefused, Types, tables
<1>6. CASE LookUpOwners(p)
  <2>1. batch' \in [Poll -> SUBSET Item] /\ step' \in [Poll -> Steps]
    BY <1>6 DEF LookUpOwners, Types, Steps, Won
  <2> QED
    BY <1>6, <2>1 DEF LookUpOwners, Types, tables
<1>7. CASE InsertStories(p)
  <2>1. ASSUME NEW id \in Id PROVE story'[id] \in StoryRow \cup {NoStory}
    <3>1. CASE \E i \in batch[p] : claimed[p][i] = id
      <4> DEFINE i == CHOOSE i \in batch[p] : claimed[p][i] = id
      <4>1. i \in batch[p] /\ i \in Item
        BY <3>1 DEF Types
      <4>2. story'[id] = [item |-> i, url |-> reading[p][i].url, body |-> reading[p][i].body,
                          source |-> p]
        BY <1>7, <3>1 DEF InsertStories
      <4> HIDE DEF i
      <4> QED
        BY <4>1, <4>2, ReadingType DEF StoryRow
    <3>2. CASE ~\E i \in batch[p] : claimed[p][i] = id
      BY <1>7, <3>2 DEF InsertStories, Types
    <3> QED
      BY <3>1, <3>2
  <2>2. story' \in [Id -> StoryRow \cup {NoStory}]
    <3>1. DOMAIN story' = Id /\ story' = [id \in Id |-> story'[id]]
      BY <1>7 DEF InsertStories
    <3> QED
      BY <2>1, <3>1
  <2>3. step' \in [Poll -> Steps]
    BY <1>7 DEF InsertStories, Types, Steps
  <2> QED
    BY <1>7, <2>2, <2>3 DEF InsertStories, Types
<1>8. CASE RegisterKeys(p)
  <2>0. ASSUME NEW k \in Key, \E i \in batch[p] : k \in Addresses(p, i)
        PROVE  claimed[p][ItemOf(p, k)] \in Id \cup {NoStory}
    <3>1. ItemOf(p, k) \in batch[p]
      BY <2>0 DEF ItemOf
    <3> QED
      BY <3>1 DEF Types
  <2>1. keys' \in [Key -> Id \cup {NoStory}]
    BY <1>8, <2>0 DEF RegisterKeys, Types
  <2>2. step' \in [Poll -> Steps]
    BY <1>8 DEF RegisterKeys, Types, Steps
  <2> QED
    BY <1>8, <2>1, <2>2 DEF RegisterKeys, Types
<1>9. CASE AddMembers(p)
  BY <1>9, OverType DEF AddMembers, Types
<1>10. CASE Crash(p)
  BY <1>10, OverType DEF Crash, Types, tables
<1> QED
  BY <1>1, <1>2, <1>3, <1>4, <1>5, <1>6, <1>7, <1>8, <1>9, <1>10 DEF PollStep

LEMMA TypesStep == Types /\ [Next]_vars => Types'
<1> SUFFICES ASSUME Types, [Next]_vars PROVE Types'
  OBVIOUS
<1>1. ASSUME NEW p \in Poll, PollStep(p) \/ Crash(p) PROVE Types'
  BY <1>1, PollTypeStep
<1>2. CASE StripKeys
  BY <1>2 DEF StripKeys, Types, call
<1>3. CASE DeleteStories
  BY <1>3 DEF DeleteStories, Types, call
<1>4. CASE SweepKeys \/ SweepMembers
  BY <1>4 DEF SweepKeys, SweepMembers, Types, call
<1>5. CASE KeeperFails \/ UNCHANGED vars
  BY <1>5 DEF KeeperFails, vars, Types, tables, call
<1> QED
  BY <1>1, <1>2, <1>3, <1>4, <1>5 DEF Next, Retain

\* A claim or a key leads to an id.
LEMMA KeyLeads ==
  ASSUME Types, NEW k \in Key, keys[k] # NoStory
  PROVE  keys[k] \in Id
BY DEF Types

JoinTypes ==
  joins \in [Poll -> SUBSET Id] /\ members \subseteq Id \X Poll
  /\ keeper \in {"idle", "deleting", "sweeping", "sweeping members"} /\ crashes \in 0 .. MaxCrashes

LEMMA OneMoreCrash ==
  ASSUME crashes \in 0 .. MaxCrashes, crashes < MaxCrashes, crashes' = crashes + 1
  PROVE  crashes' \in 0 .. MaxCrashes
BY BoundAssumption

LEMMA JoinTypesStep == Types /\ JoinTypes /\ [Next]_vars => JoinTypes'
<1> SUFFICES ASSUME Types, JoinTypes, [Next]_vars PROVE JoinTypes'
  OBVIOUS
<1> USE DEF JoinTypes
<1>1. ASSUME NEW p \in Poll, NEW S \in SUBSET Id, joins' = [joins EXCEPT ![p] = @ \cup S],
             UNCHANGED <<members, keeper, crashes>>
      PROVE  JoinTypes'
  BY <1>1
<1>2. ASSUME NEW p \in Poll, LookUp(p) PROVE JoinTypes'
  <2> DEFINE S == {keys[Feed[i].url] : i \in {k \in Offered[p] : HeldAt(Feed[k].url)}}
  <2>1. S \subseteq Id
    BY KeyLeads DEF HeldAt, Key
  <2>2. joins' = [joins EXCEPT ![p] = S] /\ UNCHANGED <<members, keeper, crashes>>
    BY <1>2 DEF LookUp, tables
  <2> HIDE DEF S
  <2> QED
    BY <2>1, <2>2
<1>3. ASSUME NEW p \in Poll, Read(p) PROVE JoinTypes'
  <2>1. PICK fetched \in SUBSET (batch[p] \cap Short) :
          LET read == [i \in Item |-> IF i \in fetched THEN Page[i] ELSE Feed[i]]
              known == {i \in fetched : read[i].url # Feed[i].url /\ HeldAt(read[i].url)}
          IN joins' = [joins EXCEPT ![p] = @ \cup {keys[read[i].url] : i \in known}]
    BY <1>3 DEF Read
  <2> DEFINE read == [i \in Item |-> IF i \in fetched THEN Page[i] ELSE Feed[i]]
             known == {i \in fetched : read[i].url # Feed[i].url /\ HeldAt(read[i].url)}
             S == {keys[read[i].url] : i \in known}
  <2>2. \A i \in known : read[i].url \in Key
    BY DEF Types, Key
  <2>3. S \subseteq Id
    BY <2>2, KeyLeads DEF HeldAt
  <2>4. joins' = [joins EXCEPT ![p] = @ \cup S] /\ UNCHANGED <<members, keeper, crashes>>
    BY <1>3, <2>1 DEF Read, tables
  <2> HIDE DEF S
  <2> QED
    BY <1>1, <2>3, <2>4
<1>4. ASSUME NEW p \in Poll, MatchBodies(p) PROVE JoinTypes'
  <2> DEFINE known == {k \in batch[p] : keys[reading[p][k].body] # NoStory}
             S == {keys[reading[p][i].body] : i \in known}
  <2>0. \A i \in known : reading[p][i].body \in Key
    BY ReadingType DEF Types, Key
  <2>1. S \subseteq Id
    BY <2>0, KeyLeads
  <2>2. joins' = [joins EXCEPT ![p] = @ \cup S] /\ UNCHANGED <<members, keeper, crashes>>
    BY <1>4 DEF MatchBodies, tables
  <2> HIDE DEF S
  <2> QED
    BY <1>1, <2>1, <2>2
<1>5. ASSUME NEW p \in Poll, LookUpOwners(p) PROVE JoinTypes'
  <2> DEFINE owned == {k \in batch[p] \ Won(p) : HeldAt(reading[p][k].url)}
             S == {keys[reading[p][i].url] : i \in owned}
  <2>0. \A i \in owned : reading[p][i].url \in Key
    BY ReadingType DEF Types, Key
  <2>1. S \subseteq Id
    BY <2>0, KeyLeads DEF HeldAt
  <2>2. joins' = [joins EXCEPT ![p] = @ \cup S] /\ UNCHANGED <<members, keeper, crashes>>
    BY <1>5 DEF LookUpOwners, tables
  <2> HIDE DEF S
  <2> QED
    BY <1>1, <2>1, <2>2
<1>6. ASSUME NEW p \in Poll, Over(p), UNCHANGED <<members, keeper>>, crashes' \in 0 .. MaxCrashes
      PROVE  JoinTypes'
  BY <1>6 DEF Over
<1>7. ASSUME NEW p \in Poll, ClaimUrls(p) \/ InsertStories(p) \/ RegisterKeys(p) PROVE JoinTypes'
  BY <1>7 DEF ClaimUrls, InsertStories, RegisterKeys
<1>8. ASSUME NEW p \in Poll, ClaimRefused(p) PROVE JoinTypes'
  BY <1>6, <1>8 DEF ClaimRefused, tables
<1>9. ASSUME NEW p \in Poll, AddMembers(p) PROVE JoinTypes'
  BY <1>9 DEF AddMembers, Over
<1>10. ASSUME NEW p \in Poll, Crash(p) PROVE JoinTypes'
  <2>1. crashes' \in 0 .. MaxCrashes
    BY <1>10, OneMoreCrash DEF Crash
  <2> QED
    BY <1>6, <1>10, <2>1 DEF Crash, tables
<1>11. CASE Retain
  BY <1>11 DEF Retain, StripKeys, DeleteStories, SweepKeys, SweepMembers, call
<1>12. CASE KeeperFails \/ UNCHANGED vars
  <2>1. crashes' \in 0 .. MaxCrashes
    BY <1>12, OneMoreCrash DEF KeeperFails, vars
  <2> QED
    BY <1>12, <2>1 DEF KeeperFails, vars, tables, call
<1> QED
  BY <1>2, <1>3, <1>4, <1>5, <1>7, <1>8, <1>9, <1>10, <1>11, <1>12 DEF Next, PollStep

LEMMA TypesStart == Init => Types /\ JoinTypes
BY BoundAssumption DEF Init, Types, JoinTypes, Steps, Reading

\* Every reachable state is well typed, in every interleaving.
THEOREM IdentityTypes == Spec => []TypeOK
<1>1. Types /\ JoinTypes => TypeOK
  BY DEF Types, JoinTypes, TypeOK, Steps
<1> QED
  BY <1>1, TypesStart, TypesStep, JoinTypesStep, PTL DEF Spec

------------------------------------------------------------------------------
(* The address of a story stays with it.                                   *)

\* No statement, in any order, takes the key of its address from a story that is within the
\* window: not the claim of another poll, nor a registration, nor a sweep of retain().
LEMMA KeptStep == Types /\ [Next]_vars =>
  \A id \in Held \ Doomed : keys[story[id].url] = id => keys'[story[id].url] = id
<1> SUFFICES ASSUME Types, [Next]_vars, NEW id \in Held \ Doomed, keys[story[id].url] = id
             PROVE  keys'[story[id].url] = id
  OBVIOUS
<1>1. id \in Id /\ story[id] # NoStory /\ id # NoStory /\ story[id].url \in Key
  BY NoStoryAssumption DEF Held, Types, StoryRow, Key
<1>2. HeldAt(story[id].url)
  BY <1>1 DEF HeldAt
<1>3. ASSUME NEW p \in Poll, ClaimUrls(p) PROVE keys'[story[id].url] = id
  <2>1. \A i \in {k \in batch[p] : MayClaim(reading[p][k].url)} : reading[p][i].url # story[id].url
    BY <1>2 DEF MayClaim
  <2> QED
    BY <1>1, <1>3, <2>1 DEF ClaimUrls
<1>4. ASSUME NEW p \in Poll, RegisterKeys(p) PROVE keys'[story[id].url] = id
  BY <1>1, <1>4 DEF RegisterKeys
<1>5. ASSUME NEW p \in Poll,
             \/ LookUp(p) \/ Read(p) \/ MatchBodies(p) \/ ClaimRefused(p) \/ LookUpOwners(p)
             \/ InsertStories(p) \/ AddMembers(p) \/ Crash(p)
      PROVE  keys' = keys
  BY <1>5 DEF LookUp, Read, MatchBodies, ClaimRefused, LookUpOwners, InsertStories, AddMembers,
     Crash, tables
<1>6. CASE Retain
  <2>1. CASE StripKeys
    BY <1>1, <2>1 DEF StripKeys
  <2>2. CASE SweepKeys
    BY <1>1, <2>2 DEF SweepKeys
  <2>3. CASE DeleteStories \/ SweepMembers
    BY <2>3 DEF DeleteStories, SweepMembers
  <2> QED
    BY <1>6, <2>1, <2>2, <2>3 DEF Retain
<1>7. CASE KeeperFails \/ UNCHANGED vars
  BY <1>7 DEF KeeperFails, vars, tables
<1> QED
  BY <1>3, <1>4, <1>5, <1>6, <1>7 DEF Next, PollStep

THEOREM AddressesStayTaken == Spec => KeepsItsAddress
<1>1. Init => Types
  BY TypesStart
<1> QED
  BY <1>1, TypesStep, KeptStep, PTL DEF Spec, KeepsItsAddress

------------------------------------------------------------------------------
(* What is refused as already held is credited to a story that answers it. *)

\* Between its claim and its insert.
Writing(p) == step[p] \in {"losing", "inserting"}

\* A poll works on what its feed lists, read from the feed or from the page.
BatchInv ==
  \A p \in Poll : /\ batch[p] \subseteq Offered[p]
                   /\ \A i \in Item : reading[p][i] \in {Feed[i], Page[i]}

\* Every id is handed out once.
IdsInv ==
  \A p, q \in Poll, i, k \in Item :
    claimed[p][i] # NoStory /\ claimed[p][i] = claimed[q][k] => p = q /\ i = k

\* An id that no story is under yet is known by the address it was claimed for only.
FreshInv ==
  \A p \in Poll : Writing(p) => \A i \in Item : claimed[p][i] # NoStory =>
    /\ story[claimed[p][i]] = NoStory
    /\ \A k \in Key : keys[k] = claimed[p][i] => k = reading[p][i].url
    /\ \A q \in Poll : claimed[p][i] \notin joins[q] /\ <<claimed[p][i], q>> \notin members

\* A key leads to a story that it is a key of.
LeadsInv == \A k \in Key : keys[k] \in Held => k \in Answers(story[keys[k]])

\* The keys a poll is about to register are those of the stories it wrote.
WroteInv ==
  \A p \in Poll : step[p] = "keying" => \A i \in batch[p] :
    LET id == claimed[p][i] IN
    id \in Held => /\ story[id].item = i
                   /\ story[id].url = reading[p][i].url /\ story[id].body = reading[p][i].body

\* What a poll is about to credit, and what it has credited.
CreditInv ==
  \A id \in Held, p \in Poll : id \in joins[p] \/ <<id, p>> \in members => Carries(p, story[id])

CreditsInv == BatchInv /\ IdsInv /\ FreshInv /\ LeadsInv /\ WroteInv /\ CreditInv


\* The tables as they are, or with keys, stories or members taken away, and polls as they are.
LEMMA RemovalKeeps ==
  ASSUME Types, CreditsInv, UNCHANGED call, members' \subseteq members,
         \A k \in Key : keys'[k] = keys[k] \/ keys'[k] = NoStory,
         \A id \in Id : story'[id] = story[id] \/ story'[id] = NoStory
  PROVE  CreditsInv'
<1>1. UNCHANGED <<step, batch, reading, claimed, joins>>
  BY DEF call
<1>2. \A id \in Id : id \in Held' => id \in Held /\ story'[id] = story[id]
  BY DEF Held
<1>3. BatchInv' /\ IdsInv'
  BY <1>1 DEF CreditsInv, BatchInv, IdsInv
<1>4. FreshInv'
  <2> SUFFICES ASSUME NEW p \in Poll, Writing(p), NEW i \in Item, claimed[p][i] # NoStory
               PROVE  /\ story'[claimed[p][i]] = NoStory
                      /\ \A k \in Key : keys'[k] = claimed[p][i] => k = reading[p][i].url
                      /\ \A q \in Poll : claimed[p][i] \notin joins[q]
                                         /\ <<claimed[p][i], q>> \notin members'
    BY <1>1 DEF FreshInv, Writing
  <2>1. /\ story[claimed[p][i]] = NoStory /\ claimed[p][i] \in Id
        /\ \A k \in Key : keys[k] = claimed[p][i] => k = reading[p][i].url
        /\ \A q \in Poll : claimed[p][i] \notin joins[q] /\ <<claimed[p][i], q>> \notin members
    BY DEF CreditsInv, FreshInv, Types
  <2> QED
    BY <2>1
<1>5. LeadsInv'
  <2> SUFFICES ASSUME NEW k \in Key, keys'[k] \in Held'
               PROVE  k \in Answers(story'[keys'[k]])
    BY DEF LeadsInv, Answers
  <2>1. keys'[k] \in Id /\ keys'[k] # NoStory
    BY DEF Held
  <2> QED
    BY <1>2, <2>1 DEF CreditsInv, LeadsInv
<1>6. WroteInv'
  BY <1>1, <1>2 DEF CreditsInv, WroteInv, Held
<1>7. CreditInv'
  <2> SUFFICES ASSUME NEW id \in Held', NEW p \in Poll, id \in joins[p] \/ <<id, p>> \in members'
               PROVE  Carries(p, story'[id])
    BY <1>1 DEF CreditInv, Carries, Answers, Names
  <2>1. id \in Id /\ id \in Held /\ story'[id] = story[id]
    BY <1>2 DEF Held
  <2> QED
    BY <2>1 DEF CreditsInv, CreditInv
<1> QED
  BY <1>3, <1>4, <1>5, <1>6, <1>7 DEF CreditsInv

\* A step of p that leaves the tables and the ids, whatever it does to its batch and its joins.
LEMMA WorkKeeps ==
  ASSUME Types, CreditsInv, NEW p \in Poll, UNCHANGED tables,
         step'[p] # "keying", Writing(p)' => Writing(p) /\ claimed' = claimed /\ reading' = reading,
         claimed' = claimed \/ claimed' = [claimed EXCEPT ![p] = [i \in Item |-> NoStory]],
         batch'[p] \subseteq Offered[p], \A i \in Item : reading'[p][i] \in {Feed[i], Page[i]},
         \A id \in joins'[p] : /\ id \in Held => Carries(p, story[id])
                               /\ \A q \in Poll, i \in Item :
                                    Writing(q) /\ claimed[q][i] # NoStory => id # claimed[q][i],
         \A q \in Poll \ {p} : /\ step'[q] = step[q] /\ batch'[q] = batch[q]
                               /\ reading'[q] = reading[q] /\ joins'[q] = joins[q]
  PROVE  CreditsInv'
<1>1. \A q \in Poll, i \in Item : claimed'[q][i] = claimed[q][i] \/ claimed'[q][i] = NoStory
  BY DEF Types
<1>2. \A q \in Poll \ {p} : claimed'[q] = claimed[q]
  BY DEF Types
<1>3. UNCHANGED <<keys, story, members>> /\ Held' = Held
  BY DEF tables, Held
<1>4. BatchInv'
  BY DEF CreditsInv, BatchInv
<1>5. IdsInv'
  BY <1>1 DEF CreditsInv, IdsInv
<1>6. FreshInv'
  <2> SUFFICES ASSUME NEW q \in Poll, Writing(q)', NEW i \in Item, claimed'[q][i] # NoStory
               PROVE  /\ story[claimed'[q][i]] = NoStory
                      /\ \A k \in Key : keys[k] = claimed'[q][i] => k = reading'[q][i].url
                      /\ \A r \in Poll : claimed'[q][i] \notin joins'[r]
                                         /\ <<claimed'[q][i], r>> \notin members
    BY <1>3 DEF FreshInv
  <2>1. Writing(q) /\ claimed'[q][i] = claimed[q][i] /\ reading'[q][i] = reading[q][i]
    BY <1>2 DEF Writing
  <2>2. /\ story[claimed[q][i]] = NoStory
        /\ \A k \in Key : keys[k] = claimed[q][i] => k = reading[q][i].url
        /\ \A r \in Poll : claimed[q][i] \notin joins[r] /\ <<claimed[q][i], r>> \notin members
    BY <2>1 DEF CreditsInv, FreshInv
  <2>3. \A r \in Poll : claimed[q][i] \notin joins'[r]
    BY <2>1, <2>2
  <2> QED
    BY <2>1, <2>2, <2>3
<1>7. LeadsInv'
  BY <1>3 DEF CreditsInv, LeadsInv
<1>8. WroteInv'
  BY <1>2, <1>3 DEF CreditsInv, WroteInv
<1>9. CreditInv'
  BY <1>3 DEF CreditsInv, CreditInv
<1> QED
  BY <1>4, <1>5, <1>6, <1>7, <1>8, <1>9 DEF CreditsInv

\* What a lookup by an address or a text that the feed of p lists may add to joins[p].
Sound(p, id) ==
  /\ id \in Held => Carries(p, story[id])
  /\ \A q \in Poll, i \in Item : Writing(q) /\ claimed[q][i] # NoStory => id # claimed[q][i]

LEMMA FoundIsSound ==
  ASSUME Types, CreditsInv, NEW p \in Poll, NEW i \in Offered[p], NEW k \in Key, keys[k] # NoStory,
         k \in Names(i), HeldAt(k) \/ k \in Body
  PROVE  Sound(p, keys[k])
<1>1. keys[k] \in Held => Carries(p, story[keys[k]])
  BY DEF CreditsInv, LeadsInv, Carries
<1>2. ASSUME NEW q \in Poll, NEW j \in Item, Writing(q), claimed[q][j] # NoStory, keys[k] = claimed[q][j]
      PROVE  FALSE
  <2>1. story[keys[k]] = NoStory /\ k = reading[q][j].url
    BY <1>2 DEF CreditsInv, FreshInv
  <2>2. k \in Url
    BY <2>1, ReadingType
  <2> QED
    BY <2>1, <2>2 DEF HeldAt
<1> QED
  BY <1>1, <1>2 DEF Sound

LEMMA JoinedIsSound ==
  ASSUME Types, JoinTypes, CreditsInv, NEW p \in Poll, NEW id \in joins[p]
  PROVE  Sound(p, id)
<1>1. id \in Held => Carries(p, story[id])
  BY DEF CreditsInv, CreditInv
<1>2. ASSUME NEW q \in Poll, NEW i \in Item, Writing(q), claimed[q][i] # NoStory
      PROVE  id # claimed[q][i]
  <2>1. claimed[q][i] \notin joins[p]
    BY <1>2 DEF CreditsInv, FreshInv
  <2> QED
    BY <2>1
<1> QED
  BY <1>1, <1>2 DEF Sound

LEMMA LookUpKeeps ==
  ASSUME Types, JoinTypes, CreditsInv, NEW p \in Poll, LookUp(p)
  PROVE  CreditsInv'
<1> DEFINE known == {i \in Offered[p] : HeldAt(Feed[i].url)}
<1>1. /\ joins' = [joins EXCEPT ![p] = {keys[Feed[i].url] : i \in known}]
      /\ batch' = [batch EXCEPT ![p] = Offered[p] \ known]
      /\ step' = [step EXCEPT ![p] = "reading"]
      /\ UNCHANGED <<tables, reading, claimed>>
  BY DEF LookUp
<1>2. ASSUME NEW i \in known PROVE Sound(p, keys[Feed[i].url])
  <2>1. Feed[i].url \in Key /\ keys[Feed[i].url] # NoStory /\ Feed[i].url \in Names(i)
    BY DEF HeldAt, Key, Names
  <2> QED
    BY <2>1, FoundIsSound
<1>3. \A id \in joins'[p] : Sound(p, id)
  BY <1>1, <1>2 DEF JoinTypes
<1>4. batch'[p] \subseteq Offered[p]
  BY <1>1 DEF Types
<1>5. step'[p] # "keying" /\ ~Writing(p)'
  BY <1>1 DEF Types, Writing
<1>6. \A q \in Poll \ {p} : /\ step'[q] = step[q] /\ batch'[q] = batch[q]
                            /\ reading'[q] = reading[q] /\ joins'[q] = joins[q]
  BY <1>1 DEF Types, JoinTypes
<1> QED
  BY <1>1, <1>3, <1>4, <1>5, <1>6, WorkKeeps DEF Sound, CreditsInv, BatchInv

LEMMA ReadKeeps ==
  ASSUME Types, JoinTypes, CreditsInv, NEW p \in Poll, Read(p)
  PROVE  CreditsInv'
<1>1. PICK fetched \in SUBSET (batch[p] \cap Short) :
        LET read == [i \in Item |-> IF i \in fetched THEN Page[i] ELSE Feed[i]]
            known == {i \in fetched : read[i].url # Feed[i].url /\ HeldAt(read[i].url)}
            thin == IF p \in Lenient THEN {} ELSE (batch[p] \cap Short) \ fetched
            left == batch[p] \ (known \cup thin) IN
        /\ reading' = [reading EXCEPT ![p] = read]
        /\ joins' = [joins EXCEPT ![p] = @ \cup {keys[read[i].url] : i \in known}]
        /\ batch' = [batch EXCEPT ![p] = left]
        /\ step' = [step EXCEPT ![p] = IF left = {} THEN "joining" ELSE "matching"]
  BY DEF Read
<1> DEFINE read == [i \in Item |-> IF i \in fetched THEN Page[i] ELSE Feed[i]]
           known == {i \in fetched : read[i].url # Feed[i].url /\ HeldAt(read[i].url)}
           thin == IF p \in Lenient THEN {} ELSE (batch[p] \cap Short) \ fetched
           left == batch[p] \ (known \cup thin)
<1>2. /\ reading' = [reading EXCEPT ![p] = read]
      /\ joins' = [joins EXCEPT ![p] = @ \cup {keys[read[i].url] : i \in known}]
      /\ batch' = [batch EXCEPT ![p] = left]
      /\ step' = [step EXCEPT ![p] = IF left = {} THEN "joining" ELSE "matching"]
  BY <1>1
<1>3. UNCHANGED <<tables, claimed>>
  BY DEF Read
<1>4. batch[p] \subseteq Offered[p] /\ fetched \subseteq Item
  BY DEF CreditsInv, BatchInv, Types
<1>5. ASSUME NEW i \in known PROVE Sound(p, keys[read[i].url])
  <2>1. i \in Offered[p] /\ read[i] = Page[i] /\ HeldAt(read[i].url)
    BY <1>4
  <2>2. read[i].url \in Key /\ keys[read[i].url] # NoStory /\ read[i].url \in Names(i)
    BY <1>4, <2>1 DEF HeldAt, Key, Names
  <2> QED
    BY <2>1, <2>2, FoundIsSound
<1>6. \A i \in Item : read[i] \in {Feed[i], Page[i]}
  OBVIOUS
<1>7. left \subseteq Offered[p]
  BY <1>4
<1> HIDE DEF read, left, known
<1>8. \A id \in joins'[p] : Sound(p, id)
  BY <1>2, <1>5, JoinedIsSound DEF JoinTypes
<1>9. batch'[p] \subseteq Offered[p] /\ \A i \in Item : reading'[p][i] \in {Feed[i], Page[i]}
  BY <1>2, <1>6, <1>7 DEF Types
<1>10. step'[p] # "keying" /\ ~Writing(p)'
  BY <1>2 DEF Types, Writing
<1>11. \A q \in Poll \ {p} : /\ step'[q] = step[q] /\ batch'[q] = batch[q]
                             /\ reading'[q] = reading[q] /\ joins'[q] = joins[q]
  BY <1>2 DEF Types, JoinTypes
<1> QED
  BY <1>3, <1>8, <1>9, <1>10, <1>11, WorkKeeps DEF Sound

LEMMA MatchKeeps ==
  ASSUME Types, JoinTypes, CreditsInv, NEW p \in Poll, MatchBodies(p)
  PROVE  CreditsInv'
<1> DEFINE known == {i \in batch[p] : keys[reading[p][i].body] # NoStory}
<1>1. /\ joins' = [joins EXCEPT ![p] = @ \cup {keys[reading[p][i].body] : i \in known}]
      /\ batch' = [batch EXCEPT ![p] = @ \ known]
      /\ step' = [step EXCEPT ![p] = IF batch[p] = known THEN "joining" ELSE "claiming"]
      /\ UNCHANGED <<tables, reading, claimed>>
  BY DEF MatchBodies
<1>2. batch[p] \subseteq Offered[p] /\ \A i \in Item : reading[p][i] \in {Feed[i], Page[i]}
  BY DEF CreditsInv, BatchInv
<1>3. ASSUME NEW i \in known PROVE Sound(p, keys[reading[p][i].body])
  <2>1. i \in Offered[p] /\ i \in Item /\ keys[reading[p][i].body] # NoStory
    BY <1>2
  <2>2. reading[p][i].body \in Body
    BY <2>1, ReadingType
  <2>3. reading[p][i].body \in Key /\ reading[p][i].body \in Names(i)
    BY <1>2, <2>1, <2>2 DEF Key, Names
  <2> QED
    BY <2>1, <2>2, <2>3, FoundIsSound
<1> HIDE DEF known
<1>4. \A id \in joins'[p] : Sound(p, id)
  BY <1>1, <1>3, JoinedIsSound DEF JoinTypes
<1>5. batch'[p] \subseteq Offered[p]
  BY <1>1, <1>2 DEF Types
<1>6. step'[p] # "keying" /\ ~Writing(p)'
  BY <1>1 DEF Types, Writing
<1>7. \A q \in Poll \ {p} : /\ step'[q] = step[q] /\ batch'[q] = batch[q]
                            /\ reading'[q] = reading[q] /\ joins'[q] = joins[q]
  BY <1>1 DEF Types, JoinTypes
<1> QED
  BY <1>1, <1>2, <1>4, <1>5, <1>6, <1>7, WorkKeeps DEF Sound

LEMMA OwnersKeep ==
  ASSUME Types, JoinTypes, CreditsInv, NEW p \in Poll, LookUpOwners(p)
  PROVE  CreditsInv'
<1> DEFINE owned == {i \in batch[p] \ Won(p) : HeldAt(reading[p][i].url)}
<1>1. /\ joins' = [joins EXCEPT ![p] = @ \cup {keys[reading[p][i].url] : i \in owned}]
      /\ batch' = [batch EXCEPT ![p] = Won(p)]
      /\ step' = [step EXCEPT ![p] = IF Won(p) = {} THEN "joining" ELSE "inserting"]
      /\ UNCHANGED <<tables, reading, claimed>> /\ Writing(p)
  BY DEF LookUpOwners, Writing
<1>2. batch[p] \subseteq Offered[p] /\ \A i \in Item : reading[p][i] \in {Feed[i], Page[i]}
  BY DEF CreditsInv, BatchInv
<1>3. ASSUME NEW i \in owned PROVE Sound(p, keys[reading[p][i].url])
  <2>1. i \in Offered[p] /\ i \in Item /\ HeldAt(reading[p][i].url)
    BY <1>2
  <2>2. reading[p][i].url \in Key /\ reading[p][i].url \in Names(i)
    BY <1>2, <2>1, ReadingType DEF Key, Names
  <2> QED
    BY <2>1, <2>2, FoundIsSound DEF HeldAt
<1> HIDE DEF owned
<1>4. \A id \in joins'[p] : Sound(p, id)
  BY <1>1, <1>3, JoinedIsSound DEF JoinTypes
<1>5. batch'[p] \subseteq Offered[p]
  BY <1>1, <1>2 DEF Types, Won
<1>6. step'[p] # "keying"
  BY <1>1 DEF Types
<1>7. \A q \in Poll \ {p} : /\ step'[q] = step[q] /\ batch'[q] = batch[q]
                            /\ reading'[q] = reading[q] /\ joins'[q] = joins[q]
  BY <1>1 DEF Types, JoinTypes
<1> QED
  BY <1>1, <1>2, <1>4, <1>5, <1>6, <1>7, WorkKeeps DEF Sound

\* A call that ends without writing.
LEMMA EndKeeps ==
  ASSUME Types, JoinTypes, CreditsInv, NEW p \in Poll, Over(p), UNCHANGED tables
  PROVE  CreditsInv'
<1>1. /\ step'[p] = "idle" /\ batch'[p] = {} /\ reading'[p] = Feed /\ joins'[p] = {}
      /\ claimed' = [claimed EXCEPT ![p] = [i \in Item |-> NoStory]]
  BY DEF Over, Types, JoinTypes
<1>2. \A q \in Poll \ {p} : /\ step'[q] = step[q] /\ batch'[q] = batch[q]
                            /\ reading'[q] = reading[q] /\ joins'[q] = joins[q]
  BY DEF Over, Types, JoinTypes
<1> QED
  BY <1>1, <1>2, WorkKeeps DEF Writing

\* claimUrls: fresh ids, under the addresses that nobody holds.
LEMMA ClaimKeeps ==
  ASSUME Types, JoinTypes, CreditsInv, NEW p \in Poll, ClaimUrls(p)
  PROVE  CreditsInv'
<1> DEFINE won == {i \in batch[p] : MayClaim(reading[p][i].url)}
<1>1. PICK ids \in [won -> Unused] :
        /\ IsInjective(ids)
        /\ keys' = [k \in Key |->
             IF \E i \in won : reading[p][i].url = k
               THEN ids[CHOOSE i \in won : reading[p][i].url = k] ELSE keys[k]]
        /\ claimed' = [claimed EXCEPT ![p] =
             [i \in Item |-> IF i \in won THEN ids[i] ELSE NoStory]]
        /\ step' = [step EXCEPT ![p] = IF won = batch[p] THEN "inserting" ELSE "losing"]
  BY DEF ClaimUrls
<1>2. UNCHANGED <<story, members, batch, reading, joins>> /\ ~Repeats(p)
  BY DEF ClaimUrls
<1>3. won \subseteq Item /\ won \subseteq batch[p]
  BY DEF Types
<1>4. \A i, k \in won : reading[p][i].url = reading[p][k].url => i = k
  BY <1>2, <1>3 DEF Repeats
<1>5. \A i \in won : reading[p][i].url \in Key
  BY <1>3, ReadingType DEF Key
<1>6. \A i \in won : ids[i] \in Unused /\ ids[i] \in Id /\ ids[i] # NoStory
  BY DEF Unused
<1>7. \A i, k \in won : ids[i] = ids[k] => i = k
  BY <1>1 DEF IsInjective
<1>8. \A i \in won : /\ story[ids[i]] = NoStory /\ \A k \in Key : keys[k] # ids[i]
                     /\ \A q \in Poll : ids[i] \notin joins[q] /\ <<ids[i], q>> \notin members
                     /\ \A q \in Poll, k \in Item : claimed[q][k] # ids[i]
  BY <1>6 DEF Unused
<1> HIDE DEF won
<1>9. ASSUME NEW k \in Key
      PROVE  \/ keys'[k] = keys[k] /\ \A i \in won : reading[p][i].url # k
             \/ \E i \in won : reading[p][i].url = k /\ keys'[k] = ids[i]
  <2>1. CASE \E i \in won : reading[p][i].url = k
    <3>1. PICK i \in won : reading[p][i].url = k
      BY <2>1
    <3>2. (CHOOSE j \in won : reading[p][j].url = k) = i
      BY <1>4, <3>1
    <3> QED
      BY <1>1, <3>1, <3>2
  <2> QED
    BY <1>1, <2>1
<1>10. /\ \A i \in Item : claimed'[p][i] = IF i \in won THEN ids[i] ELSE NoStory
       /\ \A q \in Poll \ {p} : claimed'[q] = claimed[q] /\ step'[q] = step[q]
       /\ step'[p] # "keying"
  BY <1>1 DEF Types
<1>11. Held' = Held
  BY <1>2 DEF Held
<1>12. BatchInv'
  BY <1>2 DEF CreditsInv, BatchInv
<1>13. IdsInv'
  <2> SUFFICES ASSUME NEW q \in Poll, NEW r \in Poll, NEW i \in Item, NEW k \in Item,
                      claimed'[q][i] # NoStory, claimed'[q][i] = claimed'[r][k]
               PROVE  q = r /\ i = k
    BY DEF IdsInv
  <2>1. CASE q = p /\ r = p
    BY <1>7, <1>10, <2>1
  <2>2. CASE q = p /\ r # p
    BY <1>8, <1>10, <2>2
  <2>3. CASE q # p /\ r = p
    BY <1>8, <1>10, <2>3
  <2>4. CASE q # p /\ r # p
    BY <1>10, <2>4 DEF CreditsInv, IdsInv
  <2> QED
    BY <2>1, <2>2, <2>3, <2>4
<1>14. FreshInv'
  <2> SUFFICES ASSUME NEW q \in Poll, Writing(q)', NEW i \in Item, claimed'[q][i] # NoStory
               PROVE  /\ story[claimed'[q][i]] = NoStory
                      /\ \A k \in Key : keys'[k] = claimed'[q][i] => k = reading[q][i].url
                      /\ \A r \in Poll : claimed'[q][i] \notin joins[r]
                                         /\ <<claimed'[q][i], r>> \notin members
    BY <1>2 DEF FreshInv
  <2>1. CASE q = p
    <3>1. i \in won /\ claimed'[q][i] = ids[i]
      BY <1>10, <2>1
    <3>2. \A k \in Key : keys'[k] = ids[i] => k = reading[p][i].url
      BY <1>7, <1>8, <1>9, <3>1
    <3> QED
      BY <1>8, <2>1, <3>1, <3>2
  <2>2. CASE q # p
    <3>1. Writing(q) /\ claimed'[q][i] = claimed[q][i]
      BY <1>10, <2>2 DEF Writing
    <3>2. /\ story[claimed[q][i]] = NoStory
          /\ \A k \in Key : keys[k] = claimed[q][i] => k = reading[q][i].url
          /\ \A r \in Poll : claimed[q][i] \notin joins[r] /\ <<claimed[q][i], r>> \notin members
      BY <3>1 DEF CreditsInv, FreshInv
    <3>3. \A k \in Key : keys'[k] = claimed[q][i] => k = reading[q][i].url
      BY <1>8, <1>9, <3>2
    <3> QED
      BY <3>1, <3>2, <3>3
  <2> QED
    BY <2>1, <2>2
<1>15. LeadsInv'
  <2> SUFFICES ASSUME NEW k \in Key, keys'[k] \in Held PROVE k \in Answers(story[keys'[k]])
    BY <1>2, <1>11 DEF LeadsInv, Answers
  <2>1. keys'[k] = keys[k]
    BY <1>8, <1>9 DEF Held
  <2> QED
    BY <2>1 DEF CreditsInv, LeadsInv
<1>16. WroteInv'
  BY <1>2, <1>10, <1>11 DEF CreditsInv, WroteInv
<1>17. CreditInv'
  BY <1>2, <1>11 DEF CreditsInv, CreditInv, Carries, Answers
<1> QED
  BY <1>12, <1>13, <1>14, <1>15, <1>16, <1>17 DEF CreditsInv

LEMMA InsertKeeps ==
  ASSUME Types, JoinTypes, CreditsInv, NEW p \in Poll, InsertStories(p)
  PROVE  CreditsInv'
<1>1. UNCHANGED <<keys, members, batch, reading, claimed, joins>> /\ step[p] = "inserting" /\ Writing(p)
  BY DEF InsertStories, Writing
<1>2. step'[p] = "keying" /\ \A q \in Poll \ {p} : step'[q] = step[q]
  BY DEF InsertStories, Types
<1>3. \A id \in Id : (\A i \in batch[p] : claimed[p][i] # id) => story'[id] = story[id]
  BY DEF InsertStories
<1>4. batch[p] \subseteq Item
  BY DEF Types
<1>5. ASSUME NEW i \in batch[p], claimed[p][i] # NoStory
      PROVE  /\ claimed[p][i] \in Id /\ i \in Item
             /\ story'[claimed[p][i]] = [item |-> i, url |-> reading[p][i].url,
                                         body |-> reading[p][i].body, source |-> p]
             /\ \A k \in Key : keys[k] = claimed[p][i] => k = reading[p][i].url
             /\ \A q \in Poll : claimed[p][i] \notin joins[q] /\ <<claimed[p][i], q>> \notin members
  <2>1. i \in Item /\ claimed[p][i] \in Id
    BY <1>4, <1>5 DEF Types
  <2>2. \A k \in batch[p] : claimed[p][k] = claimed[p][i] => k = i
    BY <1>4, <1>5, <2>1 DEF CreditsInv, IdsInv
  <2>3. (CHOOSE k \in batch[p] : claimed[p][k] = claimed[p][i]) = i
    BY <2>2
  <2>4. story'[claimed[p][i]] = [item |-> i, url |-> reading[p][i].url,
                                 body |-> reading[p][i].body, source |-> p]
    BY <2>1, <2>3 DEF InsertStories
  <2> QED
    BY <1>1, <1>5, <2>1, <2>4 DEF CreditsInv, FreshInv
<1>6. ASSUME NEW id \in Held'
      PROVE  \/ id \in Held /\ story'[id] = story[id]
             \/ \E i \in batch[p] : id = claimed[p][i] /\ claimed[p][i] # NoStory
  BY <1>3 DEF Held
<1>7. BatchInv' /\ IdsInv'
  BY <1>1 DEF CreditsInv, BatchInv, IdsInv
<1>8. FreshInv'
  <2> SUFFICES ASSUME NEW q \in Poll, Writing(q)', NEW i \in Item, claimed[q][i] # NoStory
               PROVE  /\ story'[claimed[q][i]] = NoStory
                      /\ \A k \in Key : keys[k] = claimed[q][i] => k = reading[q][i].url
                      /\ \A r \in Poll : claimed[q][i] \notin joins[r]
                                         /\ <<claimed[q][i], r>> \notin members
    BY <1>1 DEF FreshInv
  <2>1. q # p /\ Writing(q) /\ claimed[q][i] \in Id
    BY <1>2 DEF Writing, Types
  <2>2. \A k \in batch[p] : claimed[p][k] # claimed[q][i]
    BY <1>4, <2>1 DEF CreditsInv, IdsInv
  <2> QED
    BY <1>3, <2>1, <2>2 DEF CreditsInv, FreshInv
<1>9. LeadsInv'
  <2> SUFFICES ASSUME NEW k \in Key, keys[k] \in Held' PROVE k \in Answers(story'[keys[k]])
    BY <1>1 DEF LeadsInv, Answers
  <2>1. CASE keys[k] \in Held /\ story'[keys[k]] = story[keys[k]]
    BY <2>1 DEF CreditsInv, LeadsInv
  <2>2. CASE \E i \in batch[p] : keys[k] = claimed[p][i] /\ claimed[p][i] # NoStory
    <3>1. PICK i \in batch[p] : keys[k] = claimed[p][i] /\ claimed[p][i] # NoStory
      BY <2>2
    <3>2. k = reading[p][i].url
      BY <1>5, <3>1
    <3>3. story'[keys[k]] = [item |-> i, url |-> reading[p][i].url,
                             body |-> reading[p][i].body, source |-> p]
      BY <1>5, <3>1
    <3>4. story'[keys[k]].url = reading[p][i].url
      BY <3>3
    <3> QED
      BY <3>2, <3>4 DEF Answers
  <2> QED
    BY <1>6, <2>1, <2>2
<1>10. WroteInv'
  <2> SUFFICES ASSUME NEW q \in Poll, step'[q] = "keying", NEW i \in batch[q],
                      claimed[q][i] \in Held'
               PROVE  /\ story'[claimed[q][i]].item = i
                      /\ story'[claimed[q][i]].url = reading[q][i].url
                      /\ story'[claimed[q][i]].body = reading[q][i].body
    BY <1>1 DEF WroteInv
  <2>0. claimed[q][i] # NoStory /\ i \in Item
    BY NoStoryAssumption DEF Held, Types
  <2>1. CASE q = p
    <3>1. story'[claimed[p][i]] = [item |-> i, url |-> reading[p][i].url,
                                   body |-> reading[p][i].body, source |-> p]
      BY <1>5, <2>0, <2>1
    <3> QED
      BY <2>1, <3>1
  <2>2. CASE q # p
    <3>1. \A k \in batch[p] : claimed[p][k] # claimed[q][i]
      BY <1>4, <2>0, <2>2 DEF CreditsInv, IdsInv
    <3>2. claimed[q][i] \in Held /\ story'[claimed[q][i]] = story[claimed[q][i]]
      BY <1>6, <3>1
    <3> QED
      BY <1>2, <2>2, <3>2 DEF CreditsInv, WroteInv
  <2> QED
    BY <2>1, <2>2
<1>11. CreditInv'
  <2> SUFFICES ASSUME NEW id \in Held', NEW q \in Poll, id \in joins[q] \/ <<id, q>> \in members
               PROVE  Carries(q, story'[id])
    BY <1>1 DEF CreditInv, Carries, Answers
  <2>1. id \in Held /\ story'[id] = story[id]
    <3>1. CASE \E i \in batch[p] : id = claimed[p][i] /\ claimed[p][i] # NoStory
      <4>1. PICK i \in batch[p] : id = claimed[p][i] /\ claimed[p][i] # NoStory
        BY <3>1
      <4>2. id \notin joins[q] /\ <<id, q>> \notin members
        BY <1>5, <4>1
      <4> QED
        BY <4>2
    <3> QED
      BY <1>6, <3>1
  <2> QED
    BY <2>1 DEF CreditsInv, CreditInv
<1> QED
  BY <1>7, <1>8, <1>9, <1>10, <1>11 DEF CreditsInv

\* registerKeysBatch: the keys of the stories just written, where nobody has them.
LEMMA RegisterKeeps ==
  ASSUME Types, JoinTypes, CreditsInv, NEW p \in Poll, RegisterKeys(p)
  PROVE  CreditsInv'
<1>1. UNCHANGED <<story, members, batch, reading, claimed, joins>> /\ step[p] = "keying"
  BY DEF RegisterKeys
<1>2. step'[p] = "joining" /\ \A q \in Poll \ {p} : step'[q] = step[q]
  BY DEF RegisterKeys, Types
<1>3. ASSUME NEW k \in Key, keys'[k] # keys[k]
      PROVE  \E i \in batch[p] : k \in Addresses(p, i) /\ keys'[k] = claimed[p][i]
  <2>1. /\ \E i \in batch[p] : k \in Addresses(p, i)
        /\ keys'[k] = claimed[p][ItemOf(p, k)]
    BY <1>3 DEF RegisterKeys
  <2>2. ItemOf(p, k) \in batch[p] /\ k \in Addresses(p, ItemOf(p, k))
    BY <2>1 DEF ItemOf
  <2> QED
    BY <2>1, <2>2
<1>4. batch[p] \subseteq Item /\ Held' = Held
  BY <1>1 DEF Types, Held
<1>5. BatchInv' /\ IdsInv'
  BY <1>1 DEF CreditsInv, BatchInv, IdsInv
<1>6. FreshInv'
  <2> SUFFICES ASSUME NEW q \in Poll, Writing(q)', NEW i \in Item, claimed[q][i] # NoStory,
                      NEW k \in Key, keys'[k] = claimed[q][i]
               PROVE  k = reading[q][i].url
    BY <1>1, <1>2 DEF CreditsInv, FreshInv, Writing
  <2>1. q # p /\ Writing(q)
    BY <1>2 DEF Writing
  <2>2. \A j \in batch[p] : claimed[p][j] # claimed[q][i]
    BY <1>4, <2>1 DEF CreditsInv, IdsInv
  <2>3. keys[k] = claimed[q][i]
    BY <1>3, <2>2
  <2> QED
    BY <2>1, <2>3 DEF CreditsInv, FreshInv
<1>7. LeadsInv'
  <2> SUFFICES ASSUME NEW k \in Key, keys'[k] \in Held PROVE k \in Answers(story[keys'[k]])
    BY <1>1, <1>4 DEF LeadsInv, Answers
  <2>1. CASE keys'[k] = keys[k]
    BY <2>1 DEF CreditsInv, LeadsInv
  <2>2. CASE keys'[k] # keys[k]
    <3>1. PICK i \in batch[p] : k \in Addresses(p, i) /\ keys'[k] = claimed[p][i]
      BY <1>3, <2>2
    <3>2. /\ story[keys'[k]].item = i /\ story[keys'[k]].url = reading[p][i].url
          /\ story[keys'[k]].body = reading[p][i].body
      BY <1>1, <3>1 DEF CreditsInv, WroteInv
    <3>3. k \in {reading[p][i].url, Feed[i].url, reading[p][i].body}
      BY <3>1 DEF Addresses
    <3> QED
      BY <3>2, <3>3 DEF Answers
  <2> QED
    BY <2>1, <2>2
<1>8. WroteInv'
  BY <1>1, <1>2, <1>4 DEF CreditsInv, WroteInv
<1>9. CreditInv'
  BY <1>1, <1>4 DEF CreditsInv, CreditInv, Carries, Answers
<1> QED
  BY <1>5, <1>6, <1>7, <1>8, <1>9 DEF CreditsInv

LEMMA AddKeeps ==
  ASSUME Types, JoinTypes, CreditsInv, NEW p \in Poll, AddMembers(p)
  PROVE  CreditsInv'
<1>1. /\ UNCHANGED <<keys, story>> /\ members' = members \cup (joins[p] \X {p})
      /\ step'[p] = "idle" /\ batch'[p] = {} /\ reading'[p] = Feed /\ joins'[p] = {}
      /\ claimed' = [claimed EXCEPT ![p] = [i \in Item |-> NoStory]]
  BY DEF AddMembers, Over, Types, JoinTypes
<1>2. \A q \in Poll \ {p} : /\ step'[q] = step[q] /\ batch'[q] = batch[q]
                            /\ reading'[q] = reading[q] /\ joins'[q] = joins[q]
  BY DEF AddMembers, Over, Types, JoinTypes
<1>3. \A q \in Poll, i \in Item : claimed'[q][i] = claimed[q][i] \/ claimed'[q][i] = NoStory
  BY <1>1 DEF Types
<1>4. \A q \in Poll \ {p} : claimed'[q] = claimed[q]
  BY <1>1 DEF Types
<1>5. Held' = Held
  BY <1>1 DEF Held
<1>6. \A id \in Id, q \in Poll : <<id, q>> \in members' => <<id, q>> \in members \/ (q = p /\ id \in joins[p])
  BY <1>1
<1>7. BatchInv'
  BY <1>1, <1>2 DEF CreditsInv, BatchInv
<1>8. IdsInv'
  BY <1>3 DEF CreditsInv, IdsInv
<1>9. FreshInv'
  <2> SUFFICES ASSUME NEW q \in Poll, Writing(q)', NEW i \in Item, claimed'[q][i] # NoStory
               PROVE  /\ story[claimed'[q][i]] = NoStory
                      /\ \A k \in Key : keys[k] = claimed'[q][i] => k = reading'[q][i].url
                      /\ \A r \in Poll : claimed'[q][i] \notin joins'[r]
                                         /\ <<claimed'[q][i], r>> \notin members'
    BY <1>1 DEF FreshInv
  <2>1. q # p
    BY <1>1 DEF Writing
  <2>2. Writing(q) /\ claimed'[q][i] = claimed[q][i] /\ reading'[q] = reading[q] /\ claimed[q][i] \in Id
    BY <1>2, <1>4, <2>1 DEF Writing, Types
  <2>3. /\ story[claimed[q][i]] = NoStory
        /\ \A k \in Key : keys[k] = claimed[q][i] => k = reading[q][i].url
        /\ \A r \in Poll : claimed[q][i] \notin joins[r] /\ <<claimed[q][i], r>> \notin members
    BY <2>2 DEF CreditsInv, FreshInv
  <2>4. \A r \in Poll : claimed[q][i] \notin joins'[r]
    BY <1>1, <1>2, <2>3
  <2>5. \A r \in Poll : <<claimed[q][i], r>> \notin members'
    BY <1>6, <2>2, <2>3
  <2> QED
    BY <2>2, <2>3, <2>4, <2>5
<1>10. LeadsInv'
  BY <1>1, <1>5 DEF CreditsInv, LeadsInv, Answers
<1>11. WroteInv'
  BY <1>1, <1>2, <1>4, <1>5 DEF CreditsInv, WroteInv
<1>12. CreditInv'
  <2> SUFFICES ASSUME NEW id \in Held, NEW q \in Poll, id \in joins'[q] \/ <<id, q>> \in members'
               PROVE  Carries(q, story[id])
    BY <1>1, <1>5 DEF CreditInv, Carries, Answers
  <2>1. id \in Id /\ (id \in joins[q] \/ <<id, q>> \in members)
    BY <1>1, <1>2, <1>6 DEF Held
  <2> QED
    BY <2>1 DEF CreditsInv, CreditInv
<1> QED
  BY <1>7, <1>8, <1>9, <1>10, <1>11, <1>12 DEF CreditsInv

LEMMA CreditsStep == Types /\ JoinTypes /\ CreditsInv /\ [Next]_vars => CreditsInv'
<1> SUFFICES ASSUME Types, JoinTypes, CreditsInv, [Next]_vars PROVE CreditsInv'
  OBVIOUS
<1>1. ASSUME NEW p \in Poll, PollStep(p) PROVE CreditsInv'
  <2>1. CASE ClaimRefused(p)
    BY <2>1, EndKeeps DEF ClaimRefused
  <2> QED
    BY <1>1, <2>1, LookUpKeeps, ReadKeeps, MatchKeeps, ClaimKeeps, OwnersKeep, InsertKeeps,
       RegisterKeeps, AddKeeps DEF PollStep
<1>2. ASSUME NEW p \in Poll, Crash(p) PROVE CreditsInv'
  BY <1>2, EndKeeps DEF Crash
<1>3. CASE Retain
  <2>1. UNCHANGED call /\ members' \subseteq members
    BY <1>3 DEF Retain, StripKeys, DeleteStories, SweepKeys, SweepMembers
  <2>2. \A k \in Key : keys'[k] = keys[k] \/ keys'[k] = NoStory
    BY <1>3 DEF Retain, StripKeys, DeleteStories, SweepKeys, SweepMembers
  <2>3. \A id \in Id : story'[id] = story[id] \/ story'[id] = NoStory
    BY <1>3 DEF Retain, StripKeys, DeleteStories, SweepKeys, SweepMembers
  <2> QED
    BY <2>1, <2>2, <2>3, RemovalKeeps
<1>4. CASE KeeperFails \/ UNCHANGED vars
  <2>1. UNCHANGED call /\ UNCHANGED tables
    BY <1>4 DEF KeeperFails, vars
  <2> QED
    BY <2>1, RemovalKeeps DEF tables
<1> QED
  BY <1>1, <1>2, <1>3, <1>4 DEF Next

LEMMA CreditsStart == Init => CreditsInv
<1> SUFFICES ASSUME Init PROVE CreditsInv
  OBVIOUS
<1>1. BatchInv /\ IdsInv /\ FreshInv /\ WroteInv
  BY DEF Init, BatchInv, IdsInv, FreshInv, WroteInv, Writing
<1>2. LeadsInv /\ CreditInv
  BY DEF Init, LeadsInv, CreditInv, Held
<1> QED
  BY <1>1, <1>2 DEF CreditsInv

\* For any polls, items and ids, and whatever claims are taken over, left behind or swept:
\* an item refused as already held is credited to a story that has its address or its text.
THEOREM CreditsAreDeserved == Spec => []CreditsAreTrue
<1>1. CreditsInv => CreditsAreTrue
  BY DEF CreditsInv, CreditInv, CreditsAreTrue
<1> QED
  BY <1>1, TypesStart, TypesStep, JoinTypesStep, CreditsStart, CreditsStep, PTL DEF Spec

=============================================================================
