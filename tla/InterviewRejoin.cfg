SPECIFICATION Spec
CONSTANTS
  MaxJobs = 2
  MinAnswers = 1
  MaxAnswers = 1
  MayFail = FALSE
INVARIANTS ScoredSessionHasTranscript
PROPERTIES FirstRecordWins
CHECK_DEADLOCK FALSE
