SPECIFICATION Spec
CONSTANTS
  Sessions = {s1}
  IdleThreshold = 2
  MinIdle = 1
  HardMemory = 2
  Budget = 1
  Footprints = {0, 2, 3}
  MaxPokes = 0
  MaxCrashes = 0
  MaxFails = 0
PROPERTY OnlySustainedIdle
CHECK_DEADLOCK FALSE
