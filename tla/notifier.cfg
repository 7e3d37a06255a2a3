SPECIFICATION FairSpec
CONSTANTS
  Users <- Two
  Campaigns <- One
  Kinds = 2
  Recurring <- Second
  MayBeDue <- NewThenOld
  MaxActivity <- NewThenBusy
  LifecycleBatch = 1
  BroadcastBatch = 2
  Faults <- FaultKinds
  Nobody = Nobody
  NoCampaign = NoCampaign
INVARIANTS
  TypeOK
  ToldOnce
  NobodySkipped
  SavedNotRepeated
PROPERTIES
  CampaignEnds
