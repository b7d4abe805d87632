CONSTANTS
  File <- MCFile
  EofMark <- MCEofMark
  MSS = 2
  WINDOW_SIZE = 4
  RECEIVE_WINDOW = 2
  DUP_ACK_THRESHOLD = 2
  FastRecovery = TRUE
  SLOW_START_LIMIT = 1
  FIRST_MAX_WINDOW = 2
SPECIFICATION CubicSpec
INVARIANTS
  CubicTypeOK
  OutputIsPrefix
  AcksNameWrittenBytes
  LackingIsRetained
PROPERTY
  DeliversFile
\* Both programs end, or the server has crashed.
CHECK_DEADLOCK FALSE
