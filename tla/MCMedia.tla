------------------------------ MODULE MCMedia ------------------------------
(***************************************************************************)
(* A small instance of Media for TLC: one request with two attempts on two *)
(* workers, and every protocol of the provider client.                     *)
(***************************************************************************)
EXTENDS Media

One == {1}
OneAccount == {"image"}
AllFromImage == [r \in Requests |-> "image"]
CostOne == [r \in Requests |-> 1]
StartWithOne == [a \in Accounts |-> 1]

(* One request for every protocol but "images", which Comet treats like    *)
(* "gemini", and one that nothing serves.                                  *)
Image(model, refs) == [kind |-> "image", model |-> model, refs |-> refs]
Video(model) == [kind |-> "video", model |-> model, refs |-> "none"]

OneOfEach ==
  {Image("gemini-image", "data"), Image("gpt-image", "data"), Image("kling image", "none"),
   Image("other", "link"), Video("task video"), Video("kling video"), Video("other")}

Twice == [r \in Requests |-> 2]
EveryCall == Requests \X (1..2)
EveryNetFault == NetFaultKinds
NoReplayNotSlow == {"db", "crash", "stop", "panic"}
=============================================================================
