\* Both builds.  POSIX: one batch, as many clients as seats, each back for a
\* second haircut.  System V: one client more than seats, and a signal.
SPECIFICATION BuildsSpec
CONSTANTS
  Clients = {c1, c2, c3}
  Barber = barber
  Nobody = nobody
  Capacity = 3
  Haircuts = 2
  MaxKills = 0
  SysVSeats = 2
  SysVHaircuts = 1
  SysVKills = 1
INVARIANTS PosixNobodyTurnedAway SysVSetsInUse
PROPERTIES PosixEveryClientServed PosixCalledClientComes
           SysVClientsEndWithBarber
CHECK_DEADLOCK FALSE
