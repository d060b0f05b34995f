SPECIFICATION ToolSpec
CONSTANTS
  i0 = i0  i1 = i1  o0 = o0  o1 = o1  k0 = k0  k1 = k1
  f = f  g = g  h = h
  IFree = {i0, i1}
  OFree = {o0, o1}
  Known = {k0, k1}
  MaxTaus = 4
  MaxWord = 2
  Problems <- MCProblems
  ModelChecked <- MCModelChecked
  Controllers <- MCControllers
INVARIANTS
  NodesAreReachable
  ConsEmerges
  SelfCheckIsSafe
  VerdictCorrect
PROPERTIES
  ImplementsContract
  MtdfaImplementsContract
CHECK_DEADLOCK FALSE
