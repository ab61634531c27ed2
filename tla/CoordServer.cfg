SPECIFICATION FairSpec
CONSTANTS
  c1 = c1
  c2 = c2
  me = me
  x = x
  dir = dir
  file = file
  Clients = {c1, c2}
  Names = {x}
  Local = me
  Patterns = {dir, file}
  Matches <- DirAndFile
  MaxTokens = 3
  MaxReservations = 2
CHECK_DEADLOCK FALSE
INVARIANTS
  TypeOK
  NoConflictUnlessRaced
  TokenWorksUnlessRaced
PROPERTY
  SilentGoesOffline
