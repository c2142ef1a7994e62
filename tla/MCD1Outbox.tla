----------------------------- MODULE MCD1Outbox -----------------------------
(* Instances of D1Outbox for TLC. *)
EXTENDS D1Outbox, TLC

\* The processes over one local file are interchangeable.
ClientSymmetry == Permutations(Clients)
=============================================================================
