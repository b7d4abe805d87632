SPECIFICATION Spec
CONSTANTS
  None = None
  Console = Console
  Disk = Disk
  InodeLock = InodeLock
  NPROC = 4
  CPUs = {c1}
  Signals = {}
  CustomFork = TRUE
  ExecTimes = {TRUE}
  Kill = FALSE
  Files = FALSE
INVARIANTS
  ParentsAlive
  DelayedCanStart
CHECK_DEADLOCK FALSE
