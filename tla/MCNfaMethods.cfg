SPECIFICATION CaseSpec
CONSTANTS
  i0 = i0  i1 = i1  o0 = o0  o1 = o1  k0 = k0  k1 = k1
  f = f  g = g  h = h
  IFree = {i0, i1}
  OFree = {o0, o1}
  Known = {k0, k1}
  MaxTaus = 4
  MaxNfa = 3
  MaxWord = 4
  Reserved = {"_ekpos0"}
  Names <- MCNames
  Region <- MCRegion
  Goals <- MCGoals
  Formulas <- MCFormulas
  Depth <- MCDepth
  MonaAutomaton <- MCAutomaton
  Problems <- MCProblems
INVARIANTS
  GoalLanguage
  OnlyKillsLeaveFiles
  AgreeingLettersKept
  KeysAreReachable
PROPERTIES
  ImplementsContract
  MtnfaImplementsContract
CHECK_DEADLOCK FALSE
