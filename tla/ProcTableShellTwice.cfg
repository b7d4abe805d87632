SPECIFICATION Spec
CONSTANTS
  None = None
  Console = Console
  Disk = Disk
  InodeLock = InodeLock
  NPROC = 3
  CPUs = {c1, c2}
  Signals = {"SIGINT"}
  CustomFork = FALSE
  ExecTimes = {TRUE}
  Kill = FALSE
  Files = FALSE
INVARIANT
  OneCpuEach
CHECK_DEADLOCK FALSE
