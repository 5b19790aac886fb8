\* time-limit = 0: the producers finish, the consumers are cancelled when
\* they run out of lines, and everything the filter selects is printed.
SPECIFICATION FairSpec
CONSTANTS
  Producers = {p1, p2}
  Consumers = {c1, c2}
  File <- ThreeLines
  BufferSize = 2
  Cmp = "LT"
  LineLength = 3
  TimeLimit = FALSE
  Verbose = TRUE
  Sleep = FALSE
  OpenOutcomes = {TRUE}
  NoThread = none
  MaxSpurious = 1
INVARIANT LinesLeftOnlyByDismissal
PROPERTY Termination
CHECK_DEADLOCK FALSE
