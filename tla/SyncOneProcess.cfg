SPECIFICATION FairSpec
CONSTANTS
  p = p
  q = q
  a = a
  b = b
  Procs <- OneProcess
  Issues <- TwoIssues
  Synced <- JustA
  Commands = {"create", "edit", "status", "none"}
  MaxTime = 4
  PullAnytime = FALSE
  TimerFires = FALSE
  MaySkipImport = FALSE
  MayFail = TRUE
  MayCrash = TRUE
CHECK_DEADLOCK FALSE
INVARIANTS TypeOK UnexportedIsDirty HashIsHonest
PROPERTIES ImplementsReplica CommitsReachTheFile
