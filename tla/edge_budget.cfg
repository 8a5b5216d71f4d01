SPECIFICATION EdgeSpec
CONSTANTS
  ka = ka
  kb = kb
  kc = kc
  kd = kd
  ke = ke
  Invocation = {e1}
  NoPool = NoPool
  Site <- FiveSites
  Adapter = {}
  Requests <- OrDiscovery
  Allowance = 50
  Reserve = 5
  PerSource = 4
  Concurrency = 4
SYMMETRY AnySite
INVARIANT StaysWithinAllowance
CHECK_DEADLOCK FALSE
