SPECIFICATION FairSpec
CONSTANTS
  Request = {r1, r2, r3}
  Link = {l1}
  MaxAttempts = 1
  None = None
  AllowRetake = TRUE
  Advances = TRUE
  RedisReliable = TRUE
INVARIANTS GradingIsExclusive
PROPERTIES ClaimsAreReleased
CHECK_DEADLOCK FALSE
