\* Both builds.  Datagrams: two clients that may die, one of them behind a
\* network that loses datagrams, and one slot.  Streams: one client that may
\* die, and a server that is stopped at any time; two clients and one slot.
SPECIFICATION Spec
CONSTANTS
  Clients = {c1, c2}
  Nobody = nobody
  Name <- OwnNames
  Via <- TwoSockets
  INACTIVITY_MAX = 0
  Setups <- BothBuilds
  SocketBuffer = 2
  MaxDescriptors = 2
  MaxRequests = 1
PROPERTIES SilentClientsDropped RequestsSettled ClientsEndWithServer
CHECK_DEADLOCK FALSE
