SPECIFICATION FairSpec
CONSTANTS
  MaxJobs = 1
  MinAnswers = 1
  MaxAnswers = 2
  MayFail = TRUE
INVARIANTS WithdrawnIsNotScored
PROPERTIES AbruptIsRecorded WithdrawalEndsInterview
CHECK_DEADLOCK FALSE
