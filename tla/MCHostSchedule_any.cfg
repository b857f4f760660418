SPECIFICATION Spec
CONSTANTS
  OfferedTimed <- MCOfferedTimed
  OfferedTranches <- MCOfferedTranches
  MAX_MILESTONES = 3
  AmountMax = 8
  TimeMax = 7
  NoTime = NoTime
  NoSplit = NoSplit
INVARIANTS
  NeverPaidAhead
  CancelIsFinal
PROPERTIES
  OrderedSplitSums
CHECK_DEADLOCK FALSE
