SPECIFICATION MCSpec
CONSTANTS
  Rows = {r1}
  Contents = {a, b}
  Blank = a
  Clients = {c1, c2}
  MaxWrites = 2
  MaxAttaches = 1
  MaxReplacements = 1
  Callers = {q1}
  MaxTrouble = 2
  SlowRuntime = FALSE
  EventsAnytime = FALSE
INVARIANTS HubInv EventsFlow
PROPERTIES LoneSinkCatchesUp RequestsReturn
CHECK_DEADLOCK FALSE
