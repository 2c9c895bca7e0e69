SPECIFICATION FairSpec
CONSTANTS
  Worker = {w1}
  NumEmails = 1
  MaxAttempts = 2
  BatchSize = 1
  MayCrash = TRUE
PROPERTIES EveryEmailSettles
CHECK_DEADLOCK FALSE
