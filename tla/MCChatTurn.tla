-------------------------------- MODULE MCChatTurn --------------------------------
(* Instance of ChatTurn for TLC: a request that the operator's graph answers with a    *)
(* canned text, with or without an image to describe, races one that is answered by    *)
(* the model, and both race the shutdown.                                              *)
EXTENDS ChatTurn

CONSTANTS r1, r2

MCRequests == {r1, r2}
MCQuestions ==
  r1 :> {[persona |-> "operator", image |-> i, topic |-> "add_knowledge"] : i \in BOOLEAN} @@
  r2 :> {[persona |-> "user", image |-> FALSE, topic |-> "other"]}
=============================================================================
