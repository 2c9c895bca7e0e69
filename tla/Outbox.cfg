SPECIFICATION FairSpec
CONSTANTS
  Worker = {w1, w2}
  NumEmails = 2
  MaxAttempts = 2
  BatchSize = 2
  MayCrash = TRUE
INVARIANTS CopiesWithinAttempts BodyOutlivesDelivery GivenUpOnlyWhenExhausted
PROPERTIES StuckIsReclaimed KeepsPromise
CHECK_DEADLOCK FALSE
