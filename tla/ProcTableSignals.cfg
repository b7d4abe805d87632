SPECIFICATION Spec
CONSTANTS
  None = None
  Console = Console
  Disk = Disk
  InodeLock = InodeLock
  NPROC = 4
  CPUs = {c1}
  Signals = {"SIGINT", "SIGBG", "SIGFG"}
  CustomFork = FALSE
  ExecTimes = {TRUE}
  Kill = FALSE
  Files = FALSE
INVARIANTS
  ParentsAlive
  DeadStaysDead
CHECK_DEADLOCK FALSE
