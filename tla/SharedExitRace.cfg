SPECIFICATION Spec
CONSTANTS
  Control = {c1}
  Details = {d1}
  Seeds <- FreshOnly
  MaxSignals = 2
  MaxRenames = 0
PROPERTY ExitedIsAbsorbing
CHECK_DEADLOCK FALSE
