SPECIFICATION Spec
CONSTANTS
  Height = 2
  HistoryCap = 6
  CacheCap = 6
  Start = 7
  Steps = {1, 3}
  Queries = {0}
  Repeats = FALSE
  MaxLines = 10
  MaxMoves = 3
  MaxQueries = 0
  MaxTrouble = 1
INVARIANT NoJump
CHECK_DEADLOCK FALSE
