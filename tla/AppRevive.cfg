SPECIFICATION Spec
CONSTANTS
  Ids = {a, s}
  Shells = {s}
  Newcomers = {s}
  Remembered = {a, "no_id"}
  MaxClicks = 2
  MaxChanges = 0
  MaxCuts = 0
  MaxLost = 0
  MaxTotal = 2
  LateConfirm = FALSE
INVARIANT ArchivedIsEnded
CHECK_DEADLOCK FALSE
