SPECIFICATION Spec
CONSTANTS
  Ids = {a, s}
  Shells = {s}
  Newcomers = {s}
  Remembered = {a}
  MaxClicks = 2
  MaxChanges = 1
  MaxCuts = 1
  MaxLost = 1
  MaxTotal = 3
  LateConfirm = FALSE
INVARIANT AppInv
CHECK_DEADLOCK FALSE
