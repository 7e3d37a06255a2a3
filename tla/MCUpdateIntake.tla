--------------------------- MODULE MCUpdateIntake ---------------------------
(***************************************************************************)
(* Small instances of UpdateIntake for TLC: a queue of one, so that the    *)
(* second update that waits is turned away, and one update that is handled *)
(* before it is answered.                                                  *)
(***************************************************************************)
EXTENDS UpdateIntake

CONSTANTS message, photo, preCheckout

TwoQueued == {message, photo}
QueuedAndSync == {message, photo, preCheckout}
OneSync == {preCheckout}
Nothing == {}

NotSlow == FaultKinds \ {"slow"}
Shutdowns == {"lost", "stop", "error"}
OnlyDb == {"db"}
=============================================================================
