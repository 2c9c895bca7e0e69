SPECIFICATION Spec
CONSTANTS
  Request = {r1, r2}
  MaxInvites = 2
  MaxNotices = 1
SYMMETRY Symmetry
INVARIANTS OneOpenInvitePerJob
PROPERTIES DeadLinksStayDead GuestKeepsSession
CHECK_DEADLOCK FALSE
