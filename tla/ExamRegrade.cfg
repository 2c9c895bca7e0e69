SPECIFICATION Spec
CONSTANTS
  Request = {r1, r2}
  Link = {l1}
  MaxAttempts = 1
  None = None
  AllowRetake = FALSE
  Advances = TRUE
  RedisReliable = TRUE
PROPERTIES ResultIsFinal
CHECK_DEADLOCK FALSE
