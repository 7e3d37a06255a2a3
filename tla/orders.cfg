SPECIFICATION FairSpec
CONSTANTS
  u1 = u1
  sbpOrder = sbpOrder
  boostOrder = boostOrder
  otherBoost = otherBoost
  NoOrder = NoOrder
  Orders <- SbpAndBoost
  Sbp <- OneSbp
  Boosts <- OneBoost
  Users = {u1}
  UserOf <- ByOneUser
  PackageCredits <- CreditsOne
  InitialCredits = 0
  InitialLastPaid = "base"
  Handlers = {h1, h2}
  Faults <- AllFaults
INVARIANTS
  TypeOK
  ConsentRecorded
  SbpMoneyNotLost
PROPERTIES
  PurchaseKept
  SbpSettled
