SPECIFICATION CodeSpec
CONSTANTS
  Call = {"a", "b"}
  Grading = {"a", "b"}
  Test = {"t1", "t2"}
  Selected <- AllTests
  Language = {"python"}
  LanguageOf <- OneLanguage
  Allowed = {"a", "b"}
  Provider = "piston"
  Concurrency = 1
  MaxAttempts = 2
  Weight <- Heavier
  Points = 1
INVARIANTS CodeTypeOK PermitsAreExact OneLoader ScoresAreFinal
CHECK_DEADLOCK FALSE
