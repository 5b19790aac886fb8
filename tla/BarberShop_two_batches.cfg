\* The listener was asked for a second batch (key 's'): more clients than
\* seats, and signals at any time.
SPECIFICATION Spec
CONSTANTS
  Clients = {c1, c2, c3, c4}
  Barber = barber
  Nobody = nobody
  Capacity = 2
  Haircuts = 2
  MaxKills = 1
SYMMETRY ClientSymmetry
INVARIANTS OneClientServed NoSleepOverWaiting Inv
PROPERTY ServiceImplemented
CHECK_DEADLOCK FALSE
