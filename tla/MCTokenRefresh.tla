--------------------------- MODULE MCTokenRefresh ---------------------------
(* Instances of TokenRefresh for TLC. *)
EXTENDS TokenRefresh

CONSTANTS r1, c1

\* One caller wants either connection, the others the first one.
MCUses == [r \in Callers |-> IF r = r1 THEN Connections ELSE {c1}]
=============================================================================
