SPECIFICATION Spec
CONSTANTS
  Request = {r1, r2}
  ExamKind = "coding"
  MaxRounds = 2
  MaxSections = 2
  MaxQuestions = 3
  MaxRequests = 6
SYMMETRY Symmetry
INVARIANTS OrderIsStrict
PROPERTIES AttemptsFreezeThePaper
CHECK_DEADLOCK FALSE
