SPECIFICATION Spec
CONSTANTS
  MaxJobs = 1
  MinAnswers = 1
  MaxAnswers = 2
  MayFail = FALSE
INVARIANTS WithdrawalIsRecorded
CHECK_DEADLOCK FALSE
