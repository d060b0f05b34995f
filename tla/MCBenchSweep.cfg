SPECIFICATION Spec
CONSTANTS
  FamilyRegistry <- MCFamilies
  SubjectRegistry <- MCSubjects
  Floor <- MCFloor
  Tier <- MCTier
  Calls <- MCCalls
INVARIANTS
  PartialIsBroad
  RaceHasItsSubjects
  SummaryIsOfOneN
  RaceUncensored
CHECK_DEADLOCK FALSE
