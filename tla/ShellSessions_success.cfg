CONSTANTS
  Sessions = {s1}
  Outputs = {"text", "complaint", "nothing"}
  Statuses = {0, 1}
  Lines = {"run", "", "CPRINT", "closed"}
  ForkMayFail = TRUE
  MaxLines = 2
SPECIFICATION Spec
INVARIANT SuccessIsReported
CHECK_DEADLOCK FALSE
