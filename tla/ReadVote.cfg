CONSTANTS
  NoThread = NoThread
  Threads = {r, w}
  Readers = {r}
  Writers = {w}
  NumReplies = 2
  MaxByte = 2
  bytes = 2
  MaxReply = 2
  MaxReads = 2
SPECIFICATION Spec
INVARIANTS AnswerIsThePlurality AgreedReadIsAnswered
PROPERTY FailedReadEndsWriting
CHECK_DEADLOCK FALSE
