SPECIFICATION Spec
CONSTANTS
  Issues = {i1, i2, convoy}
  Processes = {alice, bob}
  Epics = {}
  Convoy = convoy
  Types = {"blocks", "conditional-blocks", "waits-for", "waits-for-any", "parent-child", "relates-to", "tracks"}
  NewTypes = {"blocks", "parent-child", "relates-to"}
  Live = {"open", "in_progress"}
  Depth = 2
  Reasons = {"done", "failed"}
  InitialDeps <- Pairs
  MaxCommands = 2
  i1 = i1
  i2 = i2
  convoy = convoy
  alice = alice
  bob = bob
SYMMETRY Symmetry
CHECK_DEADLOCK FALSE
INVARIANTS
  TypeOK
  CacheExact
  Acyclic
  SomethingReady
  EdgesJoinIssues
  ChangedLineIsDirty
  ClaimExclusive
  NoReasonWhileOpen
