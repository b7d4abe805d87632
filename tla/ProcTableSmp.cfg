SPECIFICATION Spec
CONSTANTS
  None = None
  Console = Console
  Disk = Disk
  InodeLock = InodeLock
  NPROC = 4
  CPUs = {c1, c2}
  Signals = {}
  CustomFork = FALSE
  ExecTimes = {TRUE}
  Kill = TRUE
  Files = TRUE
INVARIANTS
  TypeOK
  RunningOnOneCpu
  ParentsAlive
  DeadStaysDead
  NoLostWakeup
CHECK_DEADLOCK FALSE
