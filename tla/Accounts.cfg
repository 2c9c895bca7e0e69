SPECIFICATION Spec
CONSTANTS
  Request = {r1, r2}
  Email = {e1, e2}
  NoEmail = NoEmail
  VerificationRequired = TRUE
  MaxUsers = 2
  MaxLinks = 2
  MaxRequests = 4
INVARIANTS SessionsFollowAccount UnverifiedHoldNothing OneAdminPerCompany GoogleIsForCandidates
CHECK_DEADLOCK FALSE
