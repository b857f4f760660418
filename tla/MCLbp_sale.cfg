SPECIFICATION Spec
CONSTANTS
  creator = creator
  buyer = buyer
  protocol = protocol
  p1 = p1
  Account = {creator, buyer, protocol}
  Buyer = {buyer}
  Id = {p1}
  OfferedTerms <- MCTerms
  PaymentMax = 3
  TimeMax = 5
  InitialBalance <- MCBalance
  NoPool = NoPool
  AmountMax = 40
  One = 8
  RateOne = 10
  Cap = 2
INVARIANTS
  MoneyConserved
PROPERTIES
  WeightOnlyAdvances
  RoundingCostsLittle
CHECK_DEADLOCK FALSE
