---------------------------- MODULE StoryIdentity ----------------------------
(***************************************************************************)
(* How a poll of src/collect/ingest.ts turns the items of a feed into      *)
(* stories, and how story_keys keeps one story to one address.             *)
(*                                                                         *)
(* ingestItems is a sequence of statements over the whole batch, each of   *)
(* them atomic and none in a transaction, so each is one step here.  Polls *)
(* of different sources interleave with each other and with the statements *)
(* of retain(), which deletes old stories and their keys.                  *)
(*                                                                         *)
(* An item is what the gates of step 1 let through.  A hash is its         *)
(* preimage: an address or a text.                                         *)
(***************************************************************************)
EXTENDS Integers, FiniteSets, Functions

CONSTANTS
  Poll,         \* one per source; a source is polled again and again
  Item,         \* what publishers write
  Url, Body,    \* addresses and texts, the key_hash values
  Id,           \* story ids, randomUUID()
  NoStory,      \* no id, or no row
  Offered,      \* Offered[p]: the items that the feed of p lists
  Feed,         \* Feed[i]: the item's address and text as the feed has them
  Page,         \* Page[i]: the same as the page behind it declares them
  Old,          \* items that turn out older than the months that are kept: their
                \* date is on the page, or the archive keeps them for ever
  Short,        \* items whose text in the feed is below the length bar
  Lenient,      \* the polls that keep a short item as it is: those with a lower bar, and
                \* those of a first-party source whose page is refused
  Backfill,     \* the polls with collectionMode 'backfill'
  KeepForever,  \* RETENTION_KEEP_MONTHS = 0
  MaxCrashes    \* bound: statements that fail and processes that die

ASSUME NoStoryAssumption == NoStory \notin Id
ASSUME KeyAssumption == Url \cap Body = {}
ASSUME ItemAssumption ==
  /\ Offered \in [Poll -> SUBSET Item] /\ Old \subseteq Item /\ Short \subseteq Item
  /\ Backfill \subseteq Poll /\ Lenient \subseteq Poll
  /\ Feed \in [Item -> [url : Url, body : Body]] /\ Page \in [Item -> [url : Url, body : Body]]
ASSUME BoundAssumption == MaxCrashes \in Nat /\ KeepForever \in BOOLEAN

VARIABLES
  \* The tables.
  keys,         \* story_keys: the story_id under each hash
  story,        \* stories
  members,      \* story_members: which source also carries which story
  \* One call of ingestItems per poll.
  step,         \* the statement it sends next
  batch,        \* the items it takes for new
  reading,      \* what it has read of each item
  claimed,      \* the id under which it may write the item
  joins,        \* the stories whose member it will add
  \* One call of retain().
  keeper,       \* the statement it sends next
  crashes       \* how many there have been

tables == <<keys, story, members>>
call   == <<step, batch, reading, claimed, joins>>
vars   == <<tables, call, keeper, crashes>>

Key == Url \cup Body
Reading == [url : Url, body : Body]
StoryRow == [item : Item, url : Url, body : Body, source : Poll]

Held == {id \in Id : story[id] # NoStory}

\* The stories past the retention window, favourites apart.
Doomed == {id \in Held : story[id].item \in Old}

\* The lookup of findManyByUrl: a claim without a story is not a claim.
AnyClaim(u) == keys[u] # NoStory                                     \* a mutant
NotHeldAt(u) == keys[u] = NoStory \/ story[keys[u]] = NoStory           \* a mutant
HeldAt(u) == keys[u] # NoStory /\ story[keys[u]] # NoStory

\* ON CONFLICT DO UPDATE ... WHERE NOT EXISTS: a claim without a story is taken over.
MayClaim(u) == ~HeldAt(u)

\* Fresh ids: nothing refers to them.
Unused ==
  {id \in Id : /\ story[id] = NoStory
               /\ \A k \in Key : keys[k] # id
               /\ \A p \in Poll : id \notin joins[p] /\ <<id, p>> \notin members
               /\ \A p \in Poll, i \in Item : claimed[p][i] # id}

\* The hashes that p registers for an item: its address, the address it came by,
\* and its text, which a backfill leaves out.
Addresses(p, i) ==
  {reading[p][i].url, Feed[i].url} \cup (IF p \in Backfill THEN {} ELSE {reading[p][i].body})

Won(p) == {i \in batch[p] : claimed[p][i] # NoStory}

\* The call returns, or it threw and collectSource's caller logged it.
Over(p) ==
  /\ step' = [step EXCEPT ![p] = "idle"]
  /\ batch' = [batch EXCEPT ![p] = {}]
  /\ reading' = [reading EXCEPT ![p] = Feed]
  /\ claimed' = [claimed EXCEPT ![p] = [i \in Item |-> NoStory]]
  /\ joins' = [joins EXCEPT ![p] = {}]

------------------------------------------------------------------------------
Init ==
  /\ keys = [k \in Key |-> NoStory]
  /\ story = [id \in Id |-> NoStory]
  /\ members = {}
  /\ step = [p \in Poll |-> "idle"]
  /\ batch = [p \in Poll |-> {}]
  /\ reading = [p \in Poll |-> Feed]
  /\ claimed = [p \in Poll |-> [i \in Item |-> NoStory]]
  /\ joins = [p \in Poll |-> {}]
  /\ keeper = "idle"
  /\ crashes = 0

\* Which of the addresses are already known.
LookUp(p) ==
  /\ step[p] = "idle" /\ Offered[p] # {}
  /\ LET known == {i \in Offered[p] : HeldAt(Feed[i].url)} IN
     /\ joins' = [joins EXCEPT ![p] = {keys[Feed[i].url] : i \in known}]
     /\ batch' = [batch EXCEPT ![p] = Offered[p] \ known]
  /\ step' = [step EXCEPT ![p] = "reading"]
  /\ UNCHANGED <<tables, reading, claimed, keeper, crashes>>

\* Fetch the pages of some of the short ones; a page may be refused, and the budget or
\* the deadline may leave it out.  Ask again about the addresses that a page has
\* rewritten, and drop what is still too short.
Read(p) ==
  /\ step[p] = "reading"
  /\ \E fetched \in SUBSET (batch[p] \cap Short) :
       LET read == [i \in Item |-> IF i \in fetched THEN Page[i] ELSE Feed[i]]
           known == {i \in fetched : read[i].url # Feed[i].url /\ HeldAt(read[i].url)}
           thin == IF p \in Lenient THEN {} ELSE (batch[p] \cap Short) \ fetched
           left == batch[p] \ (known \cup thin) IN
       /\ reading' = [reading EXCEPT ![p] = read]
       /\ joins' = [joins EXCEPT ![p] = @ \cup {keys[read[i].url] : i \in known}]
       /\ batch' = [batch EXCEPT ![p] = left]
       /\ step' = [step EXCEPT ![p] = IF left = {} THEN "joining" ELSE "matching"]
  /\ UNCHANGED <<tables, claimed, keeper, crashes>>

\* Which of the texts are already known.  This lookup does not ask for the story.
MatchBodies(p) ==
  /\ step[p] = "matching"
  /\ LET known == {i \in batch[p] : keys[reading[p][i].body] # NoStory} IN
     /\ joins' = [joins EXCEPT ![p] = @ \cup {keys[reading[p][i].body] : i \in known}]
     /\ batch' = [batch EXCEPT ![p] = @ \ known]
     /\ step' = [step EXCEPT ![p] = IF batch[p] = known THEN "joining" ELSE "claiming"]
  /\ UNCHANGED <<tables, reading, claimed, keeper, crashes>>

\* Two rows of the statement write one row of the table.
Repeats(p) ==
  \E i, k \in batch[p] :
    i # k /\ reading[p][i].url = reading[p][k].url /\ MayClaim(reading[p][i].url)

\* claimUrls: one INSERT, with a fresh id per row.
ClaimUrls(p) ==
  /\ step[p] = "claiming" /\ ~Repeats(p)
  /\ LET won == {i \in batch[p] : MayClaim(reading[p][i].url)} IN
     \E ids \in [won -> Unused] :
       /\ IsInjective(ids)
       /\ keys' = [k \in Key |->
            IF \E i \in won : reading[p][i].url = k
              THEN ids[CHOOSE i \in won : reading[p][i].url = k] ELSE keys[k]]
       /\ claimed' = [claimed EXCEPT ![p] =
            [i \in Item |-> IF i \in won THEN ids[i] ELSE NoStory]]
       /\ step' = [step EXCEPT ![p] = IF won = batch[p] THEN "inserting" ELSE "losing"]
  /\ UNCHANGED <<story, members, batch, reading, joins, keeper, crashes>>

\* Postgres refuses to let ON CONFLICT DO UPDATE touch one row twice.
ClaimRefused(p) ==
  /\ step[p] = "claiming" /\ Repeats(p)
  /\ Over(p)
  /\ UNCHANGED <<tables, keeper, crashes>>

\* Look up who holds the addresses that were lost; one nobody holds is dropped.
LookUpOwners(p) ==
  /\ step[p] = "losing"
  /\ LET owned == {i \in batch[p] \ Won(p) : HeldAt(reading[p][i].url)} IN
     joins' = [joins EXCEPT ![p] = @ \cup {keys[reading[p][i].url] : i \in owned}]
  /\ batch' = [batch EXCEPT ![p] = Won(p)]
  /\ step' = [step EXCEPT ![p] = IF Won(p) = {} THEN "joining" ELSE "inserting"]
  /\ UNCHANGED <<tables, reading, claimed, keeper, crashes>>

InsertStories(p) ==
  /\ step[p] = "inserting"
  /\ story' = [id \in Id |->
       IF \E i \in batch[p] : claimed[p][i] = id
         THEN LET i == CHOOSE i \in batch[p] : claimed[p][i] = id IN
              [item |-> i, url |-> reading[p][i].url, body |-> reading[p][i].body, source |-> p]
         ELSE story[id]]
  /\ step' = [step EXCEPT ![p] = "keying"]
  /\ UNCHANGED <<keys, members, batch, reading, claimed, joins, keeper, crashes>>

\* The item whose story gets the key: of two, the first row of the statement.
FirstOfBatch(p, k) == CHOOSE i \in batch[p] : TRUE                      \* a mutant
ItemOf(p, k) == CHOOSE i \in batch[p] : k \in Addresses(p, i)

\* registerKeysBatch: ON CONFLICT DO NOTHING.
RegisterKeys(p) ==
  /\ step[p] = "keying"
  /\ keys' = [k \in Key |->
       IF keys[k] = NoStory /\ \E i \in batch[p] : k \in Addresses(p, i)
         THEN claimed[p][ItemOf(p, k)] ELSE keys[k]]
  /\ step' = [step EXCEPT ![p] = "joining"]
  /\ UNCHANGED <<story, members, batch, reading, claimed, joins, keeper, crashes>>

\* addMembersBatch.
AddMembers(p) ==
  /\ step[p] = "joining"
  /\ members' = members \cup (joins[p] \X {p})
  /\ Over(p)
  /\ UNCHANGED <<keys, story, keeper, crashes>>

\* A statement throws, or the process dies.
Crash(p) ==
  /\ step[p] # "idle" /\ crashes < MaxCrashes
  /\ crashes' = crashes + 1
  /\ Over(p)
  /\ UNCHANGED <<tables, keeper>>

------------------------------------------------------------------------------
(* retain(): keys first, then the stories, then what has no story.         *)

\* A mutant: without the retention predicate.
StripAllKeys ==
  /\ keeper = "idle" /\ Doomed # {}
  /\ keys' = [k \in Key |-> NoStory]
  /\ keeper' = "deleting"
  /\ UNCHANGED <<story, members, call, crashes>>

StripKeys ==
  /\ keeper = "idle" /\ Doomed # {}
  /\ keys' = [k \in Key |-> IF keys[k] \in Doomed THEN NoStory ELSE keys[k]]
  /\ keeper' = "deleting"
  /\ UNCHANGED <<story, members, call, crashes>>

DeleteStories ==
  /\ keeper = "deleting"
  /\ story' = [id \in Id |-> IF id \in Doomed /\ ~KeepForever THEN NoStory ELSE story[id]]
  /\ keeper' = "sweeping"
  /\ UNCHANGED <<keys, members, call, crashes>>

\* The claims without a story, however young: those of a poll that is about to insert too.
SweepKeys ==
  /\ keeper = "sweeping"
  /\ keys' = [k \in Key |-> IF keys[k] \in Held THEN keys[k] ELSE NoStory]
  /\ keeper' = "sweeping members"
  /\ UNCHANGED <<story, members, call, crashes>>

SweepMembers ==
  /\ keeper = "sweeping members"
  /\ members' = {m \in members : m[1] \in Held}
  /\ keeper' = "idle"
  /\ UNCHANGED <<keys, story, call, crashes>>

KeeperFails ==
  /\ keeper # "idle" /\ crashes < MaxCrashes
  /\ crashes' = crashes + 1
  /\ keeper' = "idle"
  /\ UNCHANGED <<tables, call>>

PollStep(p) ==
  \/ LookUp(p) \/ Read(p) \/ MatchBodies(p) \/ ClaimUrls(p) \/ ClaimRefused(p)
  \/ LookUpOwners(p) \/ InsertStories(p) \/ RegisterKeys(p) \/ AddMembers(p)

Retain == StripKeys \/ DeleteStories \/ SweepKeys \/ SweepMembers

Next ==
  \/ \E p \in Poll : PollStep(p) \/ Crash(p)
  \/ Retain
  \/ KeeperFails

Spec == Init /\ [][Next]_vars

\* Polls go on, each to its end.
FairSpec == Spec /\ (\A p \in Poll : WF_vars(PollStep(p))) /\ WF_vars(Retain)

------------------------------------------------------------------------------
(* Properties.                                                             *)

TypeOK ==
  /\ keys \in [Key -> Id \cup {NoStory}]
  /\ story \in [Id -> StoryRow \cup {NoStory}]
  /\ members \subseteq Id \X Poll
  /\ step \in [Poll -> {"idle", "reading", "matching", "claiming", "losing", "inserting",
                        "keying", "joining"}]
  /\ batch \in [Poll -> SUBSET Item]
  /\ reading \in [Poll -> [Item -> Reading]]
  /\ claimed \in [Poll -> [Item -> Id \cup {NoStory}]]
  /\ joins \in [Poll -> SUBSET Id]
  /\ keeper \in {"idle", "deleting", "sweeping", "sweeping members"}
  /\ crashes \in 0 .. MaxCrashes

\* The stories that retain() is about to delete.
Leaving == IF KeepForever THEN {} ELSE Doomed

\* stories.ts:430, "two polls on one URL still produce one story": of the stories that
\* are to stay, no two have one address.
OneStoryPerUrl ==
  \A a, b \in Held \ Leaving : story[a].url = story[b].url => a = b

\* claimUrls, registerKeysBatch and retain(), in any order: once the key of its address
\* leads to a story, no claim, registration or sweep takes it from the story, until the
\* story itself is past the window.
KeepsItsAddress ==
  [][\A id \in Held \ Doomed : keys[story[id].url] = id => keys'[story[id].url] = id]_vars

\* ingest.ts:402-408, 484-490, 519-526 and 577-586: an item that is refused as already
\* held is credited to a story that has its address or its text, whatever was claimed,
\* deleted or taken over between the lookup and the member row.
Answers(row) == {row.url, Feed[row.item].url, row.body}
Names(i) == {Feed[i].url, Page[i].url, Feed[i].body, Page[i].body}
Carries(p, row) == \E i \in Offered[p] : Names(i) \cap Answers(row) # {}
CreditsAreTrue ==
  \A id \in Held, p \in Poll : <<id, p>> \in members => Carries(p, story[id])

\* An item that a source keeps offering, and that is not too short for it, is in the end
\* held, by its address or by its text, and credited to that source: no claim left behind
\* by a poll that died, by a lost race or by retain() refuses it forever.
Credited(p, i) ==
  \E id \in Held :
    /\ \/ story[id].url \in {Feed[i].url, Page[i].url}
       \/ story[id].body \in {Feed[i].body, Page[i].body}
    /\ story[id].source = p \/ <<id, p>> \in members
EventuallyCredited ==
  \A p \in Poll : \A i \in Offered[p] : p \in Lenient \/ i \notin Short => []<>Credited(p, i)

=============================================================================
