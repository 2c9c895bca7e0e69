SPECIFICATION Spec
CONSTANTS
  Request = {r1, r2}
  MaxTokens = 2
  MaxClock = 4
  MaxLost = 1
  LogoutAll = {c1, c2}
  AccessTtl = 3
  EpochTtl = 4
  RedisFails = TRUE
  EpochReadFails = FALSE
SYMMETRY Symmetry
VIEW View
INVARIANTS SealedSessionsStayOut AccessTokensStayRevoked RotationKeepsSession
CHECK_DEADLOCK FALSE
