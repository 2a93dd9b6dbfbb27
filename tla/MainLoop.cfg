CONSTANTS
  Clients = {c1, c2}
  Backlogs = {0, 20}
  MaxUsed = 4
  MaxOptions = 2
SPECIFICATION FairSpec
PROPERTIES EveryClientIsTaken RunsOutOfDescriptors
CHECK_DEADLOCK FALSE
