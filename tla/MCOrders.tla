------------------------------ MODULE MCOrders ------------------------------
(***************************************************************************)
(* Small instances of Orders for TLC: one user, one or two orders.         *)
(***************************************************************************)
EXTENDS Orders

CONSTANTS u1, sbpOrder, boostOrder, otherBoost

OneSbp == {sbpOrder}
SbpAndBoost == {sbpOrder, boostOrder}
TwoBoosts == {boostOrder, otherBoost}
OneBoost == {boostOrder}
Nothing == {}

ByOneUser == [o \in Orders |-> u1]
CreditsOne == [o \in Orders |-> 1]

AllFaults == FaultKinds
NoFaults == {}
=============================================================================
