SPECIFICATION Spec
CONSTANTS
  c1 = c1
  c2 = c2
  a = a
  b = b
  Clones = {c1, c2}
  Issues = {a}
  Synced = {a}
  Commands <- PullThenPush
  Hooked = {c1}
  Edits = {"title", "close"}
  Beside = TRUE
  MaxTime = 3
  MayFail = FALSE
  Timer = TRUE
  CrashAt = {"import"}
CHECK_DEADLOCK FALSE
INVARIANTS
  TypeOK
  

  
