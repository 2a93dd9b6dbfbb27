CONSTANTS
  Threads = {t1, t2}
  NoThread = NoThread
  Files = {f1, f2}
  MaxFd = 1
  MAX_LEN = 1
  ReadSizes = {1}
  Offsets = {1}
  OpenMayFail = TRUE
  ForkMayFail = TRUE
  MaxOpens = 2
  MaxWrites = 2
  MaxPos = 1
SYMMETRY Symmetry
SPECIFICATION PoliteSpec
INVARIANTS DescriptorIsOwn ContentIsWritten
