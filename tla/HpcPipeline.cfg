SPECIFICATION Spec
CONSTANTS
  Commits = {"c1", "c2"}
  NTasks = 2
  MaxJobs = 2
  MaxCommands = 3
INVARIANTS
  ReportIsOneSweep
  RunReportsItsCommit
PROPERTY RunEnds
CHECK_DEADLOCK FALSE
