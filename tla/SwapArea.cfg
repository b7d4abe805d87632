SPECIFICATION Spec
CONSTANTS
  NPROC = 2
  Frames = {f1, f2, f3, f4, f5, f6}
  NSWAPSLOTS = 2
  MaxPages = 2
  ProgramPages = 1
  TH = 2
  NPG = 2
  LIMIT = 3
  ALPHA = 100
  BETA = 50
  Values = {0, 1}
INVARIANTS
  TypeOK
  PagesKeepTheirContents
  FramesArePartitioned
  SlotsHaveOneOwner
  RssNeverTooHigh
  CounterNeverTooHigh
\* A panic is the end.
CHECK_DEADLOCK FALSE
