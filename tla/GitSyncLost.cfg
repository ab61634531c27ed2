SPECIFICATION Spec
CONSTANTS
  c1 = c1
  c2 = c2
  a = a
  b = b
  Clones = {c1, c2}
  Issues = {a}
  Synced = {a}
  Commands <- AllSync
  Hooked = {c1, c2}
  Edits = {"title", "close", "delete"}
  Beside = FALSE
  MaxTime = 6
  MayFail = FALSE
  Timer = FALSE
  CrashAt = {}
CHECK_DEADLOCK FALSE
PROPERTY MostRecentTitleWins
