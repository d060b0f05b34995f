SPECIFICATION CommitSpec
CONSTANTS
  none = none
  Xdeps = {none, x, xy}
  MaxRuns = 3
INVARIANTS
  TargetsWhole
  PartIsCovered
  SuccessIsConsistent
CHECK_DEADLOCK FALSE
