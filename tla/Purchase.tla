------------------------------ MODULE Purchase ------------------------------
(***************************************************************************)
(* What a user may rely on when buying a package, without handlers,        *)
(* notifications or failures: an order is open until it is credited,       *)
(* refused or put aside for a person to look at, it is credited only if    *)
(* its money was taken, and credits move exactly once, with that step.     *)
(* Orders implements this specification.                                   *)
(***************************************************************************)
EXTENDS Integers

CONSTANTS
  Orders,          \* all orders ever placed
  Users,
  UserOf,          \* who placed the order
  PackageCredits,  \* what the ordered package is worth
  InitialCredits   \* what each user starts with

VARIABLES
  outcome,         \* how each order ended, or "open"
  taken,           \* orders the provider has taken money for
  credits          \* credits of each user

vars == <<outcome, taken, credits>>

Init ==
  /\ outcome = [o \in Orders |-> "open"]
  /\ taken = {}
  /\ credits = [u \in Users |-> InitialCredits]

TakeMoney(o) ==
  /\ o \notin taken
  /\ taken' = taken \cup {o}
  /\ UNCHANGED <<outcome, credits>>

Credit(o) ==
  /\ outcome[o] = "open"
  /\ o \in taken
  /\ outcome' = [outcome EXCEPT ![o] = "credited"]
  /\ credits' = [credits EXCEPT ![UserOf[o]] = @ + PackageCredits[o]]
  /\ UNCHANGED taken

Review(o) ==
  /\ outcome[o] = "open"
  /\ o \in taken
  /\ outcome' = [outcome EXCEPT ![o] = "review"]
  /\ UNCHANGED <<taken, credits>>

Refuse(o) ==
  /\ outcome[o] = "open"
  /\ outcome' = [outcome EXCEPT ![o] = "refused"]
  /\ UNCHANGED <<taken, credits>>

Next == \E o \in Orders : TakeMoney(o) \/ Credit(o) \/ Review(o) \/ Refuse(o)

Spec == Init /\ [][Next]_vars
=============================================================================
