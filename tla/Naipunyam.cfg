SPECIFICATION NaipunyamSpec
CONSTANTS
  Callback = {r1, r2, r3}
  Uid = {u1, u2}
  FailureThreshold = 2
  HalfOpenMaxCalls = 2
CONSTRAINT FewFailures
INVARIANTS NaipunyamTypeOK CountersAgree SignedInHasRow
PROPERTIES FollowsDiagram ShieldsTheService
CHECK_DEADLOCK FALSE
