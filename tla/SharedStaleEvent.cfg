SPECIFICATION Spec
CONSTANTS
  Control = {c1}
  Details = {d1}
  Seeds <- FreshOnly
  MaxSignals = 1
  MaxRenames = 1
INVARIANT LastEventIsCurrent
CHECK_DEADLOCK FALSE
