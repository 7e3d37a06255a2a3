SPECIFICATION Spec
CONSTANTS
  Requests <- One
  Accounts <- OneAccount
  AccountOf <- AllFromImage
  Cost <- CostOne
  InitialBalance <- StartWithOne
  MaxGrants = 0
  Workers = {w1}
  Recoverer = recoverer
  MaxAttempts <- Once
  Faults <- OnlyReplay
  NoJob = NoJob
INVARIANTS
  ChargedNotRefused
