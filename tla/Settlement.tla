----------------------------- MODULE Settlement -----------------------------
(***************************************************************************)
(* What the bot promises about the credits of a generation, stated without *)
(* jobs, workers, retries or failures.  A request is either refused, and   *)
(* costs nothing, or charged once; a charged request is then served or     *)
(* refunded, never both, and the balance moves with exactly those steps.   *)
(* Generation implements this specification.                               *)
(***************************************************************************)
EXTENDS Integers

CONSTANTS
  Requests,        \* the generation requests of all users
  Accounts,        \* one per user and kind of credit (image_balance, video_balance)
  AccountOf,       \* the account each request is paid from
  Cost,            \* what each request costs
  InitialBalance   \* what each account starts with

VARIABLES
  outcome,         \* how far the settlement of each request has come
  balance          \* credits of each account

vars == <<outcome, balance>>

Outcomes == {"new", "refused", "owed", "served", "refunded"}

Init ==
  /\ outcome = [r \in Requests |-> "new"]
  /\ balance = InitialBalance

(* Credits come in from outside: a purchase, a bonus, a grant by an admin. *)
Grant ==
  /\ \E a \in Accounts :
       /\ balance'[a] > balance[a]
       /\ balance' = [balance EXCEPT ![a] = balance'[a]]
  /\ UNCHANGED outcome

Charge(r) ==
  /\ outcome[r] = "new"
  /\ balance[AccountOf[r]] >= Cost[r]
  /\ outcome' = [outcome EXCEPT ![r] = "owed"]
  /\ balance' = [balance EXCEPT ![AccountOf[r]] = @ - Cost[r]]

(* Too few credits, or the charge could not be written. *)
Refuse(r) ==
  /\ outcome[r] = "new"
  /\ outcome' = [outcome EXCEPT ![r] = "refused"]
  /\ UNCHANGED balance

Serve(r) ==
  /\ outcome[r] = "owed"
  /\ outcome' = [outcome EXCEPT ![r] = "served"]
  /\ UNCHANGED balance

Refund(r) ==
  /\ outcome[r] = "owed"
  /\ outcome' = [outcome EXCEPT ![r] = "refunded"]
  /\ balance' = [balance EXCEPT ![AccountOf[r]] = @ + Cost[r]]

Settle(r) == Serve(r) \/ Refund(r)

Next == Grant \/ \E r \in Requests : Charge(r) \/ Refuse(r) \/ Settle(r)

Spec == Init /\ [][Next]_vars

(* Every charged request is settled in the end. *)
FairSpec == Spec /\ \A r \in Requests : WF_vars(Settle(r))
=============================================================================
