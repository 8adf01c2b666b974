SPECIFICATION MCSpec
CONSTANTS
  MaxInc = 2
  MaxOut = 2
  MaxDown = 2
  MaxCrash = 1
  Budget = 4
  ResumeAtOnce = FALSE
  TornWrites = FALSE
  Capacity = 4
  MaxChunk = 2
  MaxAppend = 2
  MaxTail = 14
  MayOutrun = FALSE
  HasWatcher = TRUE
  EarlyRotation = FALSE
  Sizes = {z1, z2}
  Estimate = z0
  MaxInputs = 3
  MaxResizes = 2
  SlowHolder = FALSE
  Sessions = {s1}
  IdleThreshold = 1
  MinIdle = 0
  HardMemory = 2
  MemoryBudget = 1
  Footprints = {0, 2, 3}
  MaxPokes = 1
  MaxCrashes = 1
  MaxFails = 1
INVARIANTS GovernorInv LaunchInv HeldInv NothingLost
PROPERTIES GovernorSettles TerminateReturns ExitNoticed ReaderCatchesUp
CHECK_DEADLOCK FALSE
