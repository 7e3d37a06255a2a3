----------------------------- MODULE MCNotifier -----------------------------
(***************************************************************************)
(* Small instances of Notifier for TLC: users and campaigns are numbered,  *)
(* reminder 1 comes once and reminder 2 after every silence.               *)
(***************************************************************************)
EXTENDS Notifier

One == {1}
Two == {1, 2}
Second == {2}
NewThenBusy == <<0, 2>>
NewThenOld == {<<1, 1>>, <<2, 2>>}
=============================================================================
