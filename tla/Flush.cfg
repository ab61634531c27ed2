SPECIFICATION FairSpec
CONSTANTS
  main = main
  worker = worker
  Main = main
  Clients <- TwoClients
  MarkCap = 1
  MaxWrites = 2
  MayFail = TRUE
  Modes = {TRUE, FALSE}
CHECK_DEADLOCK FALSE
INVARIANTS
  TypeOK
  NoReceivedMarkLost
  DirtyHasWakeup
  NothingAfterExit
  RequestsAccountedFor
PROPERTIES
  ShutdownReturns
  MarkDirtyReturns
  ImplementsAutoFlush
