SPECIFICATION Spec
CONSTANTS
  s1 = s1
  s2 = s2
  p1 = p1
  p2 = p2
  n1 = n1
  n2 = n2
  Account = {s1, s2}
  Node = {n1, n2}
  Person = {p1, p2}
  Holder <- MCHolder
  None = None
  MaxEvents = 6
INVARIANTS
  ActivityOfShown
  SpinnersHaveACause
  ShownFromNodeInForce
  ClaimSheetOfShown
SYMMETRY Symmetry
CHECK_DEADLOCK FALSE
