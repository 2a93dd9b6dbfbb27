CONSTANTS
  Threads = {t1, t2, t3}
  NoThread = NoThread
  MaxNest = 2
  MaxRequests = 2
  MaxSpurious = 1
SPECIFICATION WorkSpec
INVARIANTS TypeOK WriterIsAlone CountIsExact NoLostWakeup
PROPERTIES ImplementsRWLock WriterGetsIn
CHECK_DEADLOCK FALSE
