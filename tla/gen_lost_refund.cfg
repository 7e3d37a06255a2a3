SPECIFICATION FairSpec
CONSTANTS
  Requests <- One
  Accounts <- OneAccount
  AccountOf <- AllFromImage
  Cost <- CostOne
  InitialBalance <- StartWithOne
  MaxGrants = 0
  Workers = {w1}
  Recoverer = recoverer
  MaxAttempts <- Once
  Faults <- OnlyStop
  NoJob = NoJob
PROPERTIES
  FailureRefunded
