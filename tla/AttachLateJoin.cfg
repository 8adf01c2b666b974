SPECIFICATION Spec
CONSTANTS
  Rows = {r1}
  Contents = {a, b}
  Blank = a
  Clients = {c1, c2}
  MaxWrites = 1
  MaxAttaches = 1
  MaxReplacements = 0
INVARIANT SinksCaughtUp
CHECK_DEADLOCK FALSE
