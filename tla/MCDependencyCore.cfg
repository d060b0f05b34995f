SPECIFICATION Spec
CONSTANTS
  Calls <- MCCalls
INVARIANTS
  LiveIsExtendable
  DependentIsDetermined
  DependentIsMaximal
  TransducerCommits
  RealizabilityPreserved
CHECK_DEADLOCK FALSE
