\* Streams: two clients of one name register through different sockets.
SPECIFICATION Spec
CONSTANTS
  Clients = {c1, c2}
  Nobody = nobody
  Name <- SameNames
  Via <- TwoSockets
  INACTIVITY_MAX = 1
  Setups <- Register
  SocketBuffer = 2
  MaxDescriptors = 2
  MaxRequests = 0
INVARIANTS NamesUnique
CHECK_DEADLOCK FALSE
