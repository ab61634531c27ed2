SPECIFICATION FairSpec
CONSTANTS
  alice = alice
  bob = bob
  laptop = laptop
  desktop = desktop
  p1 = p1
  p2 = p2
  Clients = {laptop, desktop}
  Agents = {alice, bob}
  AgentOf <- MCAgentOf
  Posters = {p1}
  BufferSize = 1
  Targets = {"everyone"}
  MaxPosts <- OnlyTwo
CHECK_DEADLOCK FALSE
PROPERTIES
  BroadcastReturns
  StuckPeerDropped
  WriterEnds
