\* Streams, a slot timed out after a single ping.  Three clients, two of one
\* name, for two slots, the first of which may leave at any time; two clients,
\* of one name or not, through two sockets; or two clients and two requests.
SPECIFICATION Spec
CONSTANTS
  Clients = {c1, c2, c3, c4}
  Nobody = nobody
  Name <- SameNames
  Via <- LastLocal
  INACTIVITY_MAX = 0
  Setups <- Streams
  SocketBuffer = 2
  MaxDescriptors = 2
  MaxRequests = 2
INVARIANTS ActiveSlotsOpen NobodyPassedOver
CHECK_DEADLOCK FALSE
