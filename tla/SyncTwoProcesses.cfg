SPECIFICATION Spec
CONSTANTS
  p = p
  q = q
  a = a
  b = b
  Procs <- TwoProcesses
  Issues <- OneIssue
  Synced <- JustA
  Commands = {"edit", "status", "delete"}
  MaxTime = 3
  PullAnytime = TRUE
  TimerFires = TRUE
  MaySkipImport = TRUE
  MayFail = FALSE
  MayCrash = TRUE
CHECK_DEADLOCK FALSE
SYMMETRY SameProcesses
PROPERTIES OnlyLateCommitsRegress ImportNeverResurrects
