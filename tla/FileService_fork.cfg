CONSTANTS
  Threads = {t1, t2}
  NoThread = NoThread
  Files = {f1, f2}
  MaxFd = 1
  MAX_LEN = 2
  ReadSizes = {1}
  Offsets = {}
  OpenMayFail = TRUE
  ForkMayFail = TRUE
  MaxOpens = 2
  MaxWrites = 1
  MaxPos = 1
SPECIFICATION ServiceSpec
PROPERTY AcceptedWriteHasAProcess
CHECK_DEADLOCK FALSE
