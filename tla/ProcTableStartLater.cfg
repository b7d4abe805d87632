SPECIFICATION Spec
CONSTANTS
  None = None
  Console = Console
  Disk = Disk
  InodeLock = InodeLock
  NPROC = 3
  CPUs = {c1}
  Signals = {}
  CustomFork = TRUE
  ExecTimes = {TRUE}
  Kill = FALSE
  Files = FALSE
INVARIANT
  StartLaterWaits
CHECK_DEADLOCK FALSE
