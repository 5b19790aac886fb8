\* Two lines per producer through a buffer of two cells, threads cancelled at
\* any time and logging on: the channel and the wakeups.
SPECIFICATION Spec
CONSTANTS
  Producers = {p1, p2}
  Consumers = {c1, c2}
  File <- ThreeLines
  BufferSize = 2
  Cmp = "GT"
  LineLength = 0
  TimeLimit = TRUE
  Verbose = TRUE
  Sleep = FALSE
  OpenOutcomes = {TRUE, FALSE}
  NoThread = none
  MaxSpurious = 1
SYMMETRY ThreadSymmetry
INVARIANTS NoWakeupLost ChannelInv
PROPERTY ChannelImplemented
CHECK_DEADLOCK FALSE
