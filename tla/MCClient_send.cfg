SPECIFICATION ClientSpec
CONSTANTS
  alice = alice
  bob = bob
  carol = carol
  native = native
  b = b
  m0 = m0
  Account = {alice, bob, carol}
  NoAccount = NoAccount
  Asset = {native}
  Id = {b, m0}
  SingleId = {m0}
  BatchId = {b}
  MaxBatch = 1
  BatchScheduleId <- MCBatchScheduleId
  Funder = {alice}
  Payee = {bob, carol}
  OfferedTerms <- NoTerms
  Destination = {bob}
  Gifts = {}
  AmountMax = 3
  TimeMax = 4
  Genesis = 3
  CancelWindow = 2
  MaxTranches = 2
  InitialBalance <- AliceHasThree
  NoSchedule = NoSchedule
  Offered <- MCOffered
  MaxLog = 3
  MaxRefused = 1
  Commands <- MCCommands
  Default = Default
  Attempts = 3
  Existing <- MCExisting
  PollsMayFail = TRUE
  MaxElsewhere = 1
  None = None
INVARIANTS
  AppliesOnce
PROPERTIES
  RevertedIsTrue
  AppliedAsIntended
  RefusedHasCause
  Reported
CHECK_DEADLOCK FALSE
