SPECIFICATION Spec
CONSTANTS
  Control = {c1}
  Details = {d1, d2}
  Seeds <- FreshOrWaiting
  MaxSignals = 2
  MaxRenames = 1
INVARIANT PublishedIsCurrent
PROPERTY ClientsCatchUp
CHECK_DEADLOCK FALSE
