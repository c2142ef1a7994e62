-------------------------- MODULE MCTurnOwnership --------------------------
(* Instances of TurnOwnership for TLC. *)
EXTENDS TurnOwnership
=============================================================================
