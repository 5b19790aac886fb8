\* Two lines per producer through a buffer of two cells, threads cancelled at
\* any time and logging on: the channel and the tokens.
SPECIFICATION Spec
CONSTANTS
  Producers = {p1, p2}
  Consumers = {c1, c2}
  File <- ThreeLines
  BufferSize = 2
  Cmp = "GT"
  LineLength = 1
  TimeLimit = TRUE
  Verbose = TRUE
  Sleep = FALSE
  OpenOutcomes = {TRUE, FALSE}
SYMMETRY ThreadSymmetry
INVARIANTS TokensAccounted TakenLinesPrinted ChannelInv
PROPERTY ChannelImplemented
CHECK_DEADLOCK FALSE
