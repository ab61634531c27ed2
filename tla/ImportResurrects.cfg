SPECIFICATION Spec
CONSTANTS
  a = a
  b = b
  r = r
  t1 = t1
  t2 = t2
  Clones = {a, b}
  Ids = {1, 2}
  Refs = {r}
  Titles = {t1, t2}
  MaxTime = 5
  MaxClock = 8
CHECK_DEADLOCK FALSE
INVARIANTS
  NeverResurrects
