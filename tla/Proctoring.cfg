SPECIFICATION ProctoringSpec
CONSTANTS
  Event = {"e1", "e2", "e3"}
  Post = {r1, r2, r3}
  TypeOf <- Types
  Seconds <- Durations
  PerSecondPenalty <- PerSecond
  PerEventPenalty <- PerEvent
  MaxEventSeconds = 900
INVARIANTS ScoreIsOfStored BatchesAreWhole
CHECK_DEADLOCK FALSE
