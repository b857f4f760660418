SPECIFICATION PoolSpec
CONSTANTS
  AmountMax = 60
  RateOne = 100
  Cap = 1
  OfferedCurves <- MCOfferedCurves
  TradeMax = 30
INVARIANTS
  PoolTypeOK
  HoldersCanLeave
  QuoteIsLeast
  BooksBalance
CHECK_DEADLOCK FALSE
