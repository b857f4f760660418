SPECIFICATION Spec
CONSTANTS
  alice = alice
  bob = bob
  native = native
  token = token
  b = b
  m0 = m0
  m1 = m1
  Account = {alice, bob}
  NoAccount = NoAccount
  Asset = {native, token}
  Id = {b, m0, m1}
  SingleId = {b}
  BatchId = {b}
  MaxBatch = 1
  BatchScheduleId <- MCBatchScheduleId
  Funder = {alice}
  Payee = {bob}
  OfferedTerms <- SharedOffers
  Destination <- IntoAnEscrow
  Gifts <- GiftToBatch
  AmountMax = 2
  TimeMax = 4
  Genesis = 2
  CancelWindow = 2
  MaxTranches = 2
  InitialBalance <- ForTwoAndOne
  NoSchedule = NoSchedule
INVARIANTS
  EscrowSolvent
PROPERTIES
  FrozenStays
  KeepsPromise
CHECK_DEADLOCK FALSE
