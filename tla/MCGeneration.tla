---------------------------- MODULE MCGeneration ----------------------------
(***************************************************************************)
(* Small instances of Generation for TLC.  One account pays for every      *)
(* request; the starting balance covers the first, and a grant or a refund *)
(* the second.                                                             *)
(***************************************************************************)
EXTENDS Generation

One == {1}
Two == {1, 2}
OneAccount == {"image"}
AllFromImage == [r \in Requests |-> "image"]
CostOne == [r \in Requests |-> 1]
Once == [r \in Requests |-> 1]
OnceOrTwice == [r \in Requests |-> r]
StartWithOne == [a \in Accounts |-> 1]

AllFaults == FaultKinds
SlowAndSend == {"slow", "send"}
OnlyStop == {"stop"}
OnlyReplay == {"replay"}
=============================================================================
