SPECIFICATION Spec
CONSTANTS
  Requests <- Two
  Accounts <- OneAccount
  AccountOf <- AllFromImage
  Cost <- CostOne
  InitialBalance <- StartWithOne
  MaxGrants = 1
  Workers = {w1, w2}
  Recoverer = recoverer
  MaxAttempts <- OnceOrTwice
  Faults <- AllFaults
  NoJob = NoJob
INVARIANTS
  TypeOK
  RefundsAreFailures
  OkIsDelivered
  OneFinalizer
  OneRunner
PROPERTIES
  NothingRevived
  SettledOnce
