SPECIFICATION Spec
CONSTANTS
    Request = {r1, r2}
    Executor = {x1, x2}
    MaxKeys = 3
    MaxErasures = 1
    MaxFaults = 1
INVARIANTS VersionsHaveFiles ErasedOnce
PROPERTIES StampedOnlyWhenGone DueIsCompleted
CHECK_DEADLOCK FALSE
