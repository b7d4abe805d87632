SPECIFICATION Spec
CONSTANTS
  NPROC = 2
  Frames = {f1, f2, f3, f4, f5, f6, f7}
  NSWAPSLOTS = 3
  MaxPages = 2
  ProgramPages = 1
  TH = 3
  NPG = 1
  LIMIT = 2
  ALPHA = 100
  BETA = 50
  Values = {0, 1}
PROPERTY
  ForkCopies
CHECK_DEADLOCK FALSE
