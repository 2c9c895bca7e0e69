SPECIFICATION Spec
CONSTANTS
  Request = {r1, r2}
  Link = {l1, l2}
  MaxAttempts = 2
  None = None
  AllowRetake = FALSE
  Advances = TRUE
  RedisReliable = FALSE
SYMMETRY Symmetry
INVARIANTS TypeOK OneLiveAttempt CompletedLinkHasResult InvitesAreDistinct
PROPERTIES GradedStaysGraded
CHECK_DEADLOCK FALSE
