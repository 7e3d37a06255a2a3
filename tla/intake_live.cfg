SPECIFICATION FairSpec
CONSTANTS
  message = message
  photo = photo
  preCheckout = preCheckout
  NoUpdate = NoUpdate
  Updates <- QueuedAndSync
  Sync <- OneSync
  Servers = {s1, s2}
  Workers = {w1}
  QueueSize = 1
  Faults <- Shutdowns
INVARIANTS
  ServedOnce
  NothingStuck
PROPERTIES
  AnsweredIsHad
  RetriedWhenTold
