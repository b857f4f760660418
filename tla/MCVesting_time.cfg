SPECIFICATION FairSpec
CONSTANTS
  alice = alice
  bob = bob
  native = native
  token = token
  b = b
  m0 = m0
  m1 = m1
  Account = {alice, bob}
  NoAccount = NoAccount
  Asset = {native}
  Id = {b, m0, m1}
  SingleId = {m1}
  BatchId = {b}
  MaxBatch = 2
  BatchScheduleId <- MCBatchScheduleId
  Funder = {alice}
  Payee = {bob}
  OfferedTerms <- TimeOffers
  Destination = {bob}
  Gifts = {}
  AmountMax = 6
  TimeMax = 8
  Genesis = 3
  CancelWindow = 2
  MaxTranches = 2
  InitialBalance <- ForTwoOfThree
  NoSchedule = NoSchedule
INVARIANTS
  TypeOK
  NeverAheadOfSchedule
  Inductive
PROPERTIES
  AccrualFloor
  WaiverHolds
  EventuallySettled
CHECK_DEADLOCK FALSE
