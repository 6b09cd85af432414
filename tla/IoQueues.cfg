CONSTANTS
  SQ_SIZE = 3
  CQ_SIZE = 3
  NR_WORKERS = 2
  NR_CMDS = 6
  NR_SESSIONS = 2
  NULL = NULL
SPECIFICATION IoSpec
INVARIANTS CompletionOwn InFlightExact RingReadable
 
CHECK_DEADLOCK FALSE
