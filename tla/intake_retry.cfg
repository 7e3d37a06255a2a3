\* The system rests when every update was answered.
CHECK_DEADLOCK FALSE
SPECIFICATION FairSpec
CONSTANTS
  message = message
  photo = photo
  preCheckout = preCheckout
  NoUpdate = NoUpdate
  Updates <- TwoQueued
  Sync <- Nothing
  Servers = {s1}
  Workers = {w1}
  QueueSize = 1
  Faults <- OnlyDb
PROPERTIES
  RetriedWhenTold
