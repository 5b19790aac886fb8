\* The programs of cw01 to cw05 and cw08, one in each behaviour.
SPECIFICATION ProgSpec
CONSTANTS
  \* Permissions: three children.
  N = 3
  \* Signals: up to three, enough to lose one of two in mode 1 and for a stale
  \* usr1_received to be used twice.
  MaxSignals = 3
  \* Pipelines: two lines, pipes of one line.
  Lines <- ShellLines
  MaxLines = 2
  PipeSize = 1
  Failures = TRUE
  \* The FIFO: two slaves whose lines do not fit into it together.
  Slaves = {s1, s2}
  MaxCount = 1
  FifoSize = 2
  \* The filter.
  Arguments <- Images
  Patience = 5
  \* Records.
  Files <- Sorted
  SomeFiles <- Copied
  Bytes = {1, 2}
  MaxRecords = 4
  \* Block tables of up to three blocks, four operations.
  MaxBlocks = 3
  Sums <- BlockSums
  MaxOps = 4
  \* Batch files of two lines.
  BUFFER_SIZE = 8
  Texts <- LineTexts
  MaxTexts = 2
INVARIANTS PermissionsKept CountsAgree PipesHeld LinesKept ImageComplete
  RecordsKept TableConsistent RunAsWritten
PROPERTIES EndsUnlessLost SignallingEnds PipelinesEnd MasterAndSlavesEnd
CHECK_DEADLOCK FALSE
