SPECIFICATION RunnerFairSpec
CONSTANTS
  Repeat = 3
  Chunks = 2
INVARIANTS
  OnlyCrashesLeaveMona
  ExitZeroIsComplete
  EveryMissFlagged
PROPERTIES
  TimeoutMeansRunning
  Returns
CHECK_DEADLOCK FALSE
