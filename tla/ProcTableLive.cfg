SPECIFICATION FairSpec
CONSTANTS
  None = None
  Console = Console
  Disk = Disk
  InodeLock = InodeLock
  NPROC = 4
  CPUs = {c1}
  Signals = {"SIGINT"}
  CustomFork = FALSE
  ExecTimes = {TRUE}
  Kill = TRUE
  Files = FALSE
PROPERTIES
  OrphansAreReaped
  KilledEnds
CHECK_DEADLOCK FALSE
