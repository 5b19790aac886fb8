\* Both builds.  POSIX: requests, end and unknown commands, followed by a space,
\* the newline or the end of the file, and SIGINT in the middle of a session; the
\* constants of the System V build are in MCMsgServer.
SPECIFICATION BuildsSpec
CONSTANTS
  Clients = {c1, c2}
  Nobody = nobody
  POSIXQ = TRUE
  CLIENT_MAX = 2
  QueueMax = 2
  MaxLines = 1
  Words = {"mirror", "end", "help"}
  Separators = {"space", "newline", "eof"}
  InterruptAt <- MidSession
  ServerSignals = FALSE
INVARIANTS SlotsOwned AnswersMatch
PROPERTIES EverythingAnswered EndStopsServer SysVInterruptedClientsEnd
CHECK_DEADLOCK FALSE
