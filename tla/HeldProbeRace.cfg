SPECIFICATION Spec
CONSTANTS
  MaxInc = 1
  MaxOut = 0
  MaxDown = 0
  MaxCrash = 0
  Budget = 9
  ResumeAtOnce = FALSE
  TornWrites = FALSE
INVARIANT UnknownOnlyAfterCrash
CHECK_DEADLOCK FALSE
