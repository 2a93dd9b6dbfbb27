CONSTANTS
  Sessions = {s1, s2}
  Outputs = {"text", "complaint", "nothing"}
  Statuses = {0}
  Lines = {"run", "CPRINT"}
  ForkMayFail = TRUE
  MaxLines = 2
SPECIFICATION FairSpec
INVARIANTS OneChildPerWait AnswersAfterItsProgram
PROPERTIES HalfLinesRunOnlyAfterReset EveryCommandIsAnswered ResetTakesTheServerDown SilentProgramTakesTheServerDown
CHECK_DEADLOCK FALSE
