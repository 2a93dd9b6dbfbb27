CONSTANTS
  Threads = {t1, t2, t3}
  NoThread = NoThread
  Names = {f1, f2}
  Numbers = {0, 1}
SPECIFICATION Spec
INVARIANT WaitersWaitForRunners
PROPERTY SetFileDescriptorWedges
CHECK_DEADLOCK FALSE
