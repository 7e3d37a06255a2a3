---------------------------- MODULE ProviderCall ----------------------------
(***************************************************************************)
(* What provider.ModelProvider promises to the generation workers, without *)
(* requests, retries, tasks or polling: a call is answered once, and it is *)
(* answered with an output only if the provider made one for that call.    *)
(* Comet implements this specification.                                    *)
(***************************************************************************)
EXTENDS Naturals

CONSTANT Calls      \* the calls of Generate

VARIABLES
  answer,           \* "none" before the call, then "open", then how it ended
  outputs           \* the calls the provider made an output for

vars == <<answer, outputs>>

Init ==
  /\ answer = [c \in Calls |-> "none"]
  /\ outputs = {}

Ask(c) ==
  /\ answer[c] = "none"
  /\ answer' = [answer EXCEPT ![c] = "open"]
  /\ UNCHANGED outputs

(* A request that nothing serves is turned down at once. *)
TurnDown(c) ==
  /\ answer[c] = "none"
  /\ answer' = [answer EXCEPT ![c] = "error"]
  /\ UNCHANGED outputs

Make(c) ==
  /\ answer[c] = "open"
  /\ outputs' = outputs \cup {c}
  /\ UNCHANGED answer

Deliver(c) ==
  /\ answer[c] = "open"
  /\ c \in outputs
  /\ answer' = [answer EXCEPT ![c] = "output"]
  /\ UNCHANGED outputs

(* What was made for the call is lost. *)
GiveUp(c) ==
  /\ answer[c] = "open"
  /\ answer' = [answer EXCEPT ![c] = "error"]
  /\ outputs' = outputs \ {c}

(* The process ends and takes every open call with it. *)
GiveUpAll ==
  /\ answer' = [c \in Calls |-> IF answer[c] = "open" THEN "error" ELSE answer[c]]
  /\ outputs' = {c \in outputs : answer[c] # "open"}

Next ==
  \/ \E c \in Calls : Ask(c) \/ TurnDown(c) \/ Make(c) \/ Deliver(c) \/ GiveUp(c)
  \/ GiveUpAll

Spec == Init /\ [][Next]_vars

(* No call stays open for ever. *)
FairSpec == Spec /\ \A c \in Calls : WF_vars(Deliver(c) \/ GiveUp(c))
=============================================================================
