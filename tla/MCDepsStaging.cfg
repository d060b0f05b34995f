SPECIFICATION CommitSpec
CONSTANTS
  none = none
  Xdeps = {none, x, xy}
  MaxRuns = 2
INVARIANTS
  NoStagingFileSurvives
CHECK_DEADLOCK FALSE
