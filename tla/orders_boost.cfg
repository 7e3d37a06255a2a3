\* Two paid orders leave nothing to do.
CHECK_DEADLOCK FALSE
SPECIFICATION Spec
CONSTANTS
  u1 = u1
  sbpOrder = sbpOrder
  boostOrder = boostOrder
  otherBoost = otherBoost
  NoOrder = NoOrder
  Orders <- TwoBoosts
  Sbp <- Nothing
  Boosts <- TwoBoosts
  Users = {u1}
  UserOf <- ByOneUser
  PackageCredits <- CreditsOne
  InitialCredits = 0
  InitialLastPaid = "base"
  Handlers = {h1}
  Faults <- NoFaults
PROPERTIES
  BoostNeedsBase
