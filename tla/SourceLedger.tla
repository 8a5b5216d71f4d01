---------------------------- MODULE SourceLedger -----------------------------
(***************************************************************************)
(* The sources job of src/maintain/sources.ts, which adds sources by       *)
(* itself.  One channel auditions the domains that stories point at, the   *)
(* other the home pages of the vocabulary; source_candidates is the ledger *)
(* of both, and an audition (src/collect/audition.ts) is a fact about a    *)
(* host.  Polls and scripts add sources beside it.                         *)
(*                                                                         *)
(* Each statement that writes is a step; the requests of an audition are   *)
(* part of the step before.                                                *)
(***************************************************************************)
EXTENDS Integers, FiniteSets

CONSTANTS
  Site,           \* the addresses of pages and feeds
  Host,           \* the host names, each of them also the address of its front page
  HostOf,         \* HostOf[x]: the host of an address
  Bare, Tail,     \* of a host: without its "www.", and its registrable tail
  Entry, Home,    \* vocabulary entries; Home[e]: the address of its home page
  FeedAt,         \* FeedAt[x]: the feed that is found from x, or NoSite
  Linkblog, Thin, \* what an audition of an address finds out
  OffTopic,       \* the off-topic hosts
  FirstParty,     \* hosts that the vocabulary knows as somebody's
  NoSite,
  Others,         \* sources that polls or scripts may add
  MinReferrers,   \* 3
  Few,            \* bound: the batch, 8 in the code
  MaxAborts       \* bound: jobs that die

NoFeedAt(x) == FeedAt[x] = NoSite

\* The domain under which the ledger has the home page of an entry.
KeyOf(x) == Bare[HostOf[x]]

ASSUME LedgerAssumption ==
  /\ NoSite \notin Site /\ Host \subseteq Site
  /\ HostOf \in [Site -> Host] /\ \A h \in Host : HostOf[h] = h
  /\ Bare \in [Host -> Host] /\ Tail \in [Host -> Host]
  /\ Home \in [Entry -> Site] /\ FeedAt \in [Site -> Site \cup {NoSite}]
  /\ Others \subseteq [site : Site, feed : Site]
  /\ MinReferrers \in Nat \ {0} /\ Few \in Nat \ {0} /\ MaxAborts \in Nat

VARIABLES
  held,           \* sources: url and feed_url
  refs,           \* the length of referring_sources
  listed,         \* the domains that have a row in source_candidates
  verdict,        \* verdict, "none" while evaluated_at IS NULL
  channel,        \* what the job is at: "idle", "candidates" or "tracked"
  rows,           \* the rows of its batch that are left
  subject,        \* the address it has decided to promote, or NoSite
  act,            \* and what is left to be done to it
  aborts

ledger == <<listed, verdict>>
job    == <<channel, rows, subject, act>>
ledgerVars == <<held, refs, ledger, job, aborts>>

Sites == {s.site : s \in held}
HeldFeeds == {s.feed : s \in held}
HeldTails == {Tail[HostOf[s.feed]] : s \in held}

\* WHERE evaluated_at IS NULL AND array_length(referring_sources) >= 3.
Candidates == {h \in listed : verdict[h] = "none" /\ refs[h] >= MinReferrers}

\* The vocabulary, without the domains that are polled or settled.
Untried == {e \in Entry : LET d == Tail[HostOf[Home[e]]] IN d \notin HeldTails /\ verdict[d] = "none"}

Batches(S) == {B \in SUBSET S : Cardinality(B) = IF Cardinality(S) < Few THEN Cardinality(S) ELSE Few}

\* The job returns, throws or is killed.
Finish == channel' = "idle" /\ rows' = {} /\ subject' = NoSite /\ act' = "none"

LedgerInit ==
  /\ held = {} /\ refs = [h \in Host |-> 0] /\ listed = {}
  /\ verdict = [h \in Host |-> "none"]
  /\ channel = "idle" /\ rows = {} /\ subject = NoSite /\ act = "none"
  /\ aborts = 0

\* recordCandidateDomains: one more source points at a domain nobody holds.
Refer(h) ==
  /\ Tail[h] = h /\ refs[h] < MinReferrers
  /\ \A s \in held : h \notin {HostOf[s.site], HostOf[s.feed]}
  /\ refs' = [refs EXCEPT ![h] = @ + 1]
  /\ listed' = listed \cup {h}
  /\ UNCHANGED <<held, verdict, job, aborts>>

\* A poll or a script adds a source.
AddOther(s) ==
  /\ s.site \notin Sites /\ s.feed \notin HeldFeeds
  /\ held' = held \cup {s}
  /\ UNCHANGED <<refs, ledger, job, aborts>>

------------------------------------------------------------------------------
StartJob ==
  /\ channel = "idle"
  /\ rows' \in Batches(Candidates)
  /\ channel' = "candidates"
  /\ UNCHANGED <<held, refs, ledger, subject, act, aborts>>

Settle(h, v) == verdict' = [verdict EXCEPT ![h] = v]

\* The domain of what is about to be promoted.
Domain == IF channel = "candidates" THEN subject ELSE KeyOf(subject)

Rejected(d, x) == d \in OffTopic \/ x \in Linkblog \cup Thin \/ NoFeedAt(x)

\* One domain of auditionCandidates, up to its verdict or to the INSERT.
JudgeCandidate(h) ==
  /\ channel = "candidates" /\ act = "none" /\ h \in rows
  /\ IF ~Rejected(h, h) /\ h \in FirstParty
       THEN subject' = h /\ act' = "insert" /\ UNCHANGED <<rows, verdict>>
       ELSE /\ rows' = rows \ {h}
            /\ Settle(h, IF Rejected(h, h) THEN "rejected" ELSE "deferred")
            /\ UNCHANGED <<subject, act>>
  /\ UNCHANGED <<held, refs, listed, channel, aborts>>

\* auditionCandidates is done and auditionTracked reads its batch.
Continue ==
  /\ channel = "candidates" /\ rows = {} /\ act = "none"
  /\ rows' \in Batches(Untried)
  /\ channel' = "tracked"
  /\ UNCHANGED <<held, refs, ledger, subject, act, aborts>>

\* One entry of auditionTracked: the ledger gets a row, and the audition a verdict,
\* which asks whether the feed is polled already.
JudgeTracked(e) ==
  LET x == Home[e] IN
  /\ channel = "tracked" /\ act = "none" /\ e \in rows
  /\ listed' = listed \cup {KeyOf(x)}
  /\ IF ~Rejected(KeyOf(x), x) /\ FeedAt[x] \notin HeldFeeds
       THEN subject' = x /\ act' = "insert" /\ UNCHANGED verdict
       ELSE Settle(KeyOf(x), "rejected") /\ UNCHANGED <<subject, act>>
  /\ rows' = rows \ {e}
  /\ UNCHANGED <<held, refs, channel, aborts>>

\* A mutant: the verdict is written before the source is.
PromoteFirst ==
  /\ act = "insert"
  /\ Settle(Domain, IF subject \in Sites THEN "rejected" ELSE "promoted")
  /\ act' = "none" /\ subject' = NoSite /\ rows' = rows \ {subject}
  /\ held' = IF FeedAt[subject] \in HeldFeeds THEN held
             ELSE held \cup {[site |-> subject, feed |-> FeedAt[subject]]}
  /\ UNCHANGED <<refs, listed, channel, aborts>>

\* INSERT ... ON CONFLICT (url) DO NOTHING.  The index on feed_url is another one:
\* a feed that is held under another url makes the statement, and the job, throw.
Insert ==
  /\ act = "insert"
  /\ \/ /\ subject \in Sites
        /\ Settle(Domain, "rejected")
        /\ rows' = rows \ {subject} /\ subject' = NoSite /\ act' = "none"
        /\ UNCHANGED <<held, channel>>
     \/ /\ subject \notin Sites /\ FeedAt[subject] \in HeldFeeds
        /\ Finish
        /\ UNCHANGED <<held, verdict>>
     \/ /\ subject \notin Sites /\ FeedAt[subject] \notin HeldFeeds
        /\ held' = held \cup {[site |-> subject, feed |-> FeedAt[subject]]}
        /\ act' = "settle"
        /\ UNCHANGED <<verdict, rows, subject, channel>>
  /\ UNCHANGED <<refs, listed, aborts>>

SettlePromoted ==
  /\ act = "settle"
  /\ Settle(Domain, "promoted")
  /\ rows' = rows \ {subject} /\ subject' = NoSite /\ act' = "none"
  /\ UNCHANGED <<held, refs, listed, channel, aborts>>

EndJob ==
  /\ channel = "tracked" /\ rows = {} /\ act = "none"
  /\ Finish
  /\ UNCHANGED <<held, refs, ledger, aborts>>

Abort ==
  /\ channel # "idle" /\ aborts < MaxAborts
  /\ aborts' = aborts + 1
  /\ Finish
  /\ UNCHANGED <<held, refs, ledger>>

SourcesJob ==
  \/ StartJob \/ Continue \/ Insert \/ SettlePromoted \/ EndJob
  \/ \E h \in Host : JudgeCandidate(h)
  \/ \E e \in Entry : JudgeTracked(e)

LedgerNext ==
  \/ SourcesJob
  \/ Abort
  \/ \E h \in Host : Refer(h)
  \/ \E s \in Others : AddOther(s)

LedgerSpec == LedgerInit /\ [][LedgerNext]_ledgerVars

------------------------------------------------------------------------------
(* Properties.                                                             *)

LedgerTypeOK ==
  /\ held \subseteq [site : Site, feed : Site]
  /\ refs \in [Host -> 0 .. MinReferrers] /\ listed \subseteq Host
  /\ verdict \in [Host -> {"none", "promoted", "rejected", "deferred"}]
  /\ channel \in {"idle", "candidates", "tracked"} /\ rows \subseteq Host \cup Entry
  /\ subject \in Site \cup {NoSite} /\ act \in {"none", "insert", "settle"}
  /\ act = "none" <=> subject = NoSite
  /\ aborts \in 0 .. MaxAborts

\* A domain that two entries share, or whose entry is looked up under another name.
Ambiguous(h) ==
  \E e \in Entry : KeyOf(Home[e]) = h /\
    \/ Tail[HostOf[Home[e]]] # h
    \/ \E f \in Entry \ {e} : KeyOf(Home[f]) = h

\* sources.ts:310, "a domain settled here is not offered again by either channel": it is
\* for the domain of one entry, under its registrable name.
VerdictsStand ==
  \A h \in Host : verdict[h] # "none" /\ ~Ambiguous(h) => verdict'[h] = verdict[h]

\* What the ledger calls promoted is polled, wherever the job died.
PromotedIsPolled ==
  \A h \in Host : verdict[h] = "promoted" => \E x \in Sites : h \in {HostOf[x], KeyOf(x)}

\* sources.ts:229-235, 310: the ledger is right about the sources, and what it says of a
\* domain of one entry stays as it is.
LedgerKeepsItsWord == [][PromotedIsPolled' /\ VerdictsStand]_ledgerVars

=============================================================================
