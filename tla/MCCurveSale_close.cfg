SPECIFICATION Spec
CONSTANTS
  creator = creator
  buyer = buyer
  protocol = protocol
  s1 = s1
  s2 = s2
  Account = {creator, buyer, protocol}
  Buyer = {buyer}
  Id = {s1}
  OfferedTerms <- CheapToken
  PaymentMax = 6
  GiftMax = 1
  InitialBalance <- MCBalance
  NoSale = NoSale
  AmountMax = 200
  RateOne = 10
  Cap = 2
INVARIANTS
  ReserveCanBeBought
CHECK_DEADLOCK FALSE
