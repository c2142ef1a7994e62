---------------------------- MODULE MCChatGateway ----------------------------
(* Instances of ChatGateway for TLC. *)
EXTENDS ChatGateway, TLC

\* The requests are interchangeable.
RequestSymmetry == Permutations(Requests)
=============================================================================
