SPECIFICATION Spec
CONSTANTS
  FamilyRegistry <- MCFamilies
  SubjectRegistry <- MCSubjects
  Floor <- MCFloor
  Tier <- MCTier
  Calls <- MCCalls
INVARIANTS
  MeasurementsNotLost
CHECK_DEADLOCK FALSE
