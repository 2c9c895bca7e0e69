SPECIFICATION Spec
CONSTANTS
  Request = {r1, r2}
  MaxTokens = 2
  MaxClock = 4
  MaxLost = 1
  LogoutAll = {c1}
  AccessTtl = 3
  EpochTtl = 4
  RedisFails = FALSE
  EpochReadFails = FALSE
SYMMETRY Symmetry
INVARIANTS LogoutAllClosesTheWindow
CHECK_DEADLOCK FALSE
