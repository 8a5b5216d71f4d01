SPECIFICATION EachFairSpec
CONSTANTS
  s1 = s1
  s2 = s2
  a1 = a1
  pa = pa
  pb = pb
  ia = ia
  ib = ib
  ua = ua
  ub = ub
  ba = ba
  bb = bb
  da = da
  db = db
  dc = dc
  dd = dd
  NoId = NoId
  Story <- TwoStories
  Account <- OneAccount
  MonthOf <- SameMonth
  Late <- TheSecond
  Backfilled <- None
  LastMonth = 1
  KeepForever = FALSE
  Modes = {"retain", "lapsed"}
  Batch = 1
  MaxCrashes = 0
PROPERTIES FavouritesAreSpared KeptAreCounted ItemsAreCredited
CHECK_DEADLOCK FALSE
