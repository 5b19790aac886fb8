SPECIFICATION FairSpec
CONSTANTS
  Clients = {c1, c2}
  Barber = barber
  Nobody = nobody
  Capacity = 1
  Haircuts = 2
  MaxKills = 0
PROPERTY AwaitedClientComes
CHECK_DEADLOCK FALSE
