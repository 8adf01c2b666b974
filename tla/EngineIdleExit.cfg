SPECIFICATION Spec
CONSTANTS
  MaxDaemon = 2
  MaxStarts = 2
  MaxCrash = 0
  IdleChecks = 2
  Overlap = TRUE
PROPERTY IdleExitHarmless
CHECK_DEADLOCK FALSE
