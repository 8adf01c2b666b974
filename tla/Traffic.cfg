SPECIFICATION MCSpec
CONSTANTS
  Publishers = {p1, p2}
  RingCapacity = 2
  Capacity = 2
  MaxSeq = 4
  MaxReconnects = 2
  MaxRestarts = 1
  Keys = {k1}
  Reqs = {r1, r2}
  RateLimit = 1
  DailyLimit = 2
  MaxTokens = 1
  MinutesPerDay = 2
  MaxClock = 2
  MaxRestart = 1
  Handoffs = {h1, h2}
  Work = w
  States = {p, q}
  Chunks = 2
  MayChange = TRUE
  MaxTrouble = 1
SYMMETRY Symmetry
INVARIANTS BusInv NoSilentGap GatewayInv HandoffInv
CHECK_DEADLOCK FALSE
