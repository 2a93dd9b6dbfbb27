CONSTANTS
  Threads = {t1, t2}
  Ops = {"write", "read"}
  NumPeers = 3
  Near = {0, 1}
  MaxProcs = 4
  MaxCalls = 3
SPECIFICATION FairSpec
INVARIANTS ToldOnce NothingIsDoneSilently
PROPERTIES AnsweredWithoutPeers ServerRunsOutOfProcesses
CHECK_DEADLOCK FALSE
