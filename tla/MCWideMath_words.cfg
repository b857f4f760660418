SPECIFICATION Spec
CONSTANTS
  Width = 4
  Two <- MCTwo
INVARIANTS
  TypeOK
  ProductExact
  RoundsExact
  QuotientsExact
CHECK_DEADLOCK FALSE
