SPECIFICATION MCSpec
CONSTANTS
  Launchers = {l1, l2}
  Sessions = {s1, s2}
  MaxMgr = 2
  MaxLaunch = 3
  LateWatchdog = FALSE
  MaxDaemon = 4
  MaxStarts = 3
  IdleChecks = 2
  Overlap = FALSE
  MaxCrash = 1
  Latest = 3
  MaxHelpers = 2
  MayKill = TRUE
  MayReopen = FALSE
  MayRepeat = FALSE
  Viewed = {"s1", "s2"}
  Pulls <- MCPulls
  MaxBatch = 1
  MaxNews = 1
  MaxMoves = 2
  MaxAttempts = 3
  Slow = FALSE
  HasProbe = TRUE
  MayAnswer = FALSE
  ReadsWorking = FALSE
INVARIANTS HostedOnce OneEngine UpdateInv MonitorInv PromptInv
PROPERTIES AppServed HelpersFinish
CHECK_DEADLOCK FALSE
