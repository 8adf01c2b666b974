SPECIFICATION MCSpec
CONSTANTS
  Sizes = {z1, z2}
  Overlaps = FALSE
  MaxSelects = 2
  MaxTrouble = 1
  MaxEvents = 3
  Height = 2
  HistoryCap = 2
  CacheCap = 6
  Start = 3
  Steps = {1, 3}
  Queries = {0}
  Repeats = FALSE
  MaxLines = 5
  MaxMoves = 2
  MaxQueries = 1
INVARIANTS PaneInv ScrollInv
CHECK_DEADLOCK FALSE
