SPECIFICATION FairSpec
CONSTANTS
  Requests <- Two
  Accounts <- OneAccount
  AccountOf <- AllFromImage
  Cost <- CostOne
  InitialBalance <- StartWithOne
  MaxGrants = 1
  Workers = {w1, w2}
  Recoverer = recoverer
  MaxAttempts <- Once
  Faults <- SlowAndSend
  NoJob = NoJob
INVARIANTS
  OwedIsSeenTo
PROPERTIES
  SettledInTheEnd
