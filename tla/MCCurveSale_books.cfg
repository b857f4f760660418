SPECIFICATION FairSpec
CONSTANTS
  creator = creator
  buyer = buyer
  protocol = protocol
  s1 = s1
  s2 = s2
  Account = {creator, buyer, protocol}
  Buyer = {buyer}
  Id = {s1, s2}
  OfferedTerms <- MCTerms
  PaymentMax = 7
  GiftMax = 1
  InitialBalance <- MCBalance
  NoSale = NoSale
  AmountMax = 40
  RateOne = 10
  Cap = 2
INVARIANTS
  TypeOK
  HoldingBacksSale
PROPERTIES
  ProductNeverFalls
  RevenueKept
  ClosedSalePaysOut
CHECK_DEADLOCK FALSE
