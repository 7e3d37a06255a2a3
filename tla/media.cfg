SPECIFICATION MediaFairSpec
CONSTANTS
  Requests <- One
  Accounts <- OneAccount
  AccountOf <- AllFromImage
  Cost <- CostOne
  InitialBalance <- StartWithOne
  MaxGrants = 0
  Workers = {w1, w2}
  Recoverer = recoverer
  MaxAttempts <- Twice
  Faults <- NoReplayNotSlow
  NoJob = NoJob
  Calls <- EveryCall
  Asks <- OneOfEach
  NetFaults <- EveryNetFault
INVARIANTS
  MediaTypeOK
  ServedWasMade
  OneCaller
PROPERTIES
  FinishedIsDelivered
  AnsweredNotResent
  LateSendsNothing
  CallsAnswered
  SettledOnce
  JobsEnd
