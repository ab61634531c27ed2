SPECIFICATION Spec
CONSTANTS
  alice = alice
  bob = bob
  laptop = laptop
  desktop = desktop
  p1 = p1
  p2 = p2
  Clients = {laptop, desktop}
  Agents = {alice, bob}
  AgentOf <- MCAgentOf
  Posters = {p1, p2}
  BufferSize = 2
  Targets = {"everyone", alice}
  MaxPosts <- TwoAndOne
CHECK_DEADLOCK FALSE
INVARIANTS
  TypeOK
  NoSendOnClosed
  EventsInOrder
  AudienceServed
