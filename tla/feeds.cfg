SPECIFICATION FairSpec
CONSTANTS
  sa = sa
  sb = sb
  fa = fa
  NoFeed = NoFeed
  Source <- TwoSources
  Feed <- OneFeed
  Known <- Unknown
  Advertised <- Twins
  Tracked <- JustA
  DegradedAt = 1
  FailingAt = 2
  DeadAt = 3
  MaxEvents = 1
  ha = ha
  hb = hb
  hc = hc
  pc = pc
  ea = ea
  eb = eb
  ec = ec
  ta = ta
  tb = tb
  ua = ua
  NoSite = NoSite
  Site <- Addresses
  Host <- Hosts
  HostOf <- OnItsHost
  Bare <- Itself
  Tail <- UnderA
  Entry <- ThreeEntries
  Home <- HomePages
  FeedAt <- OwnFeeds
  OffTopic <- None
  Linkblog <- None
  Thin <- None
  FirstParty <- FirstOne
  Others <- Elsewhere
  MinReferrers = 2
  Few = 2
  MaxAborts = 1
  Walker = {w1, w2}
  Depth = 4
  Stamp <- EveryOther
  PageSize = 2
  Until = 3
  Newcomers = 1
  Failures = 1
  Term = {ta, tb}
  Released = {ta}
  Text = {ua}
  NamedIn <- NamesOne
  PerPass = 1
  Modes = {"alone", "deciding"}
  MaxEnds = 1
INVARIANTS FeedsTypeOK  PastIsWhole VocabIsSound
PROPERTIES LedgerKeepsItsWord SourcesAreSettled PastIsReached VocabIsApplied
CHECK_DEADLOCK FALSE
