SPECIFICATION FairSpec
CONSTANTS
  File <- MCFile
  EofMark <- MCEofMark
  MSS = 2
  WINDOW_SIZE = 3
  RECEIVE_WINDOW = 3
  DUP_ACK_THRESHOLD = 2
  FastRecovery = TRUE
INVARIANTS
  TypeOK
  OutputIsPrefix
  AcksNameWrittenBytes
  LackingIsRetained
  NothingBeyondTheWindow
  WindowNeverFull
  ServerDoneMeansWritten
  ClientDoneMeansWritten
PROPERTIES
  DeliversFile
  TransferCompletes
\* Both programs end.
CHECK_DEADLOCK FALSE
