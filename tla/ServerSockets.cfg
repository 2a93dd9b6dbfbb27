CONSTANTS
  Servers = {s1, s2}
  CodeDigits = {1}
  DataLengths = {0, 3}
  SendSpace = 10
  MaxRequests = 1
  Ports = {9001, 9002}
  MaxFd = 3
SPECIFICATION FairSpec
INVARIANTS StatusArrivesWhole HoldsItsOwn PortServesOneClient
PROPERTIES StartReturns OnlyAcceptLoses
CHECK_DEADLOCK FALSE
