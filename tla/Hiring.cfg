SPECIFICATION HiringSpec
CONSTANTS
    HrRequest = {r1, r2}
    MaxRequests = 5
INVARIANTS LastMailStands ApplicantHasFile
CHECK_DEADLOCK FALSE
