SPECIFICATION Spec
CONSTANTS
  MaxBridge = 2
  MaxOut = 2
  MaxAsks = 2
  MaxEvents = 4
  MaxLoss = 1
  MaxRestart = 1
  Outbound = 3
  ReplayBudget = 1
  PersistEvery = 2
  Early = FALSE
  Floods = FALSE
INVARIANT RemoteInv
PROPERTY EndLearned
CHECK_DEADLOCK FALSE
