SPECIFICATION Spec
CONSTANTS
  oa = oa
  ob = ob
  da = da
  ra = ra
  rb = rb
  fi = fi
  fj = fj
  sa = sa
  sb = sb
  sc = sc
  pa = pa
  pb = pb
  ka = ka
  kb = kb
  kc = kc
  kd = kd
  ke = ke
  Copies = 3
  Outlet <- ThreeOfTwo
  Flagged = {1}
  Weight <- Standing
  Close <- OneTwo
  Doubtful <- OneThree
  Alike <- OneThree
  Titled <- Titles
  Day <- SameDay
  Pass = {d1, d2}
  MaxPairs = 2
  MaxStops = 2
  Tty = TRUE
  MaxFaults = 3
  Fed <- ThreeFed
  Slots = 1
  Hot = 1
  Warm = 2
  Least = 1
  MaxDoublings = 2
  Longest = 4
  RetryAfters = {0, 4}
  Unfit = 2
  MaxThrown = 1
  Story = {ra, rb}
  Field = {fi, fj}
  FieldOf <- OneEach
  Delayed = {rb}
  MinCorpus = 1
  DayLength = 2
  FirstRun = 1
  MaxCatchup = 3
  MaxTime = 4
  MaxCuts = 1
  Poll = {pa, pb}
  Interval <- Gaps
  Width = 2
  LastMoment = 4
  Invocation = {e1, e2, e3}
  NoPool = NoPool
  Site <- ThreeSites
  Adapter <- TheLast
  Requests <- OneRequest
  Allowance = 4
  Reserve = 1
  PerSource = 1
  Concurrency = 2
SYMMETRY AnyInvocation
INVARIANTS RecordsTypeOK MergesAreSound DaysAreWhole ServedInTime OwnGapIsKept LoneOnesAreServed
PROPERTIES StartsAreSafe
CHECK_DEADLOCK FALSE
