SPECIFICATION CommitSpec
CONSTANTS
  none = none
  Xdeps = {none, x, xy}
  MaxRuns = 2
INVARIANTS
  LoneTransducerIsInert
CHECK_DEADLOCK FALSE
