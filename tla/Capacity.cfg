SPECIFICATION CapacitySpec
CONSTANTS
  Interview = {"j1", "j2", "j3"}
  Process = {"main", "p1", "p2", "p3"}
  Main = "main"
  ExecutorOf <- OnePerProcess
  Cap = 2
  JobMemory = 150
  MemoryLimit = 1800
  NoValue = NoValue
INVARIANTS CapacityTypeOK CounterIsExact PublishedIsOneProcess NoDeadRoom NobodyIsTurnedAway
CHECK_DEADLOCK FALSE
