--------------------------- MODULE MCJobAutopilot ---------------------------
(* Instances of JobAutopilot for TLC. *)
EXTENDS JobAutopilot, TLC

\* The managers over one store are interchangeable.
ManagerSymmetry == Permutations(Managers)
=============================================================================
