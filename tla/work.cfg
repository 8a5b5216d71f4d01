SPECIFICATION FairSpec
CONSTANTS
  xa = xa
  xb = xb
  free = free
  claude = claude
  na = na
  nb = nb
  qa = qa
  qb = qb
  Oldest <- TwoByAge
  Technical = {xb}
  Big = {xb}
  Provider = {free, claude}
  ChainOf <- Chains
  Shared = {claude}
  NoStory = NoStory
  PerRun = 2
  PerCall = 2
  MaxPartial = 1
  MaxDeaths = 1
  Articles = 2
  Name = {na, nb}
  Mentions <- OneInBoth
  Paper = {qa, qb}
  PaperOf <- OnePaper
  Carriers <- AlsoIn
  Speakers = {qb}
  BatchSize = 1
  Corroboration = 2
  Thorough = TRUE
  MaxFalls = 1
  Tale = {t1}
  Offsets = 3
  Rows = 2
  Camera = {c1, c2}
  MaxLost = 1
  Key = {"number", "text", "list"}
  Numeric = {"number"}
  Emptied = {"list"}
  Value = {0, 1, 2, 3}
  Least <- OneOrMore
  Most <- UpToTwo
  Env <- Environment
  Admin = {u1}
  Daemon = {r1}
  Blank = Blank
  MaxEdits = 2
  Subject = {1, 2, 3, 4}
  Foremost = {2}
  Broken = {1, 3}
  Undescribed = {2}
  Slice = 2
  StaleAfter = 3
  MaxWaits = 2
  MaxLapses = 1
INVARIANTS WorkTypesOK ClaudeMeansClaude NamesAreEarned
PROPERTIES EachIsScored NamesAreTracked OffsetsAreTaken AllComeRound SettingsAreKept
CHECK_DEADLOCK FALSE
