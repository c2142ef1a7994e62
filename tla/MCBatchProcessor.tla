-------------------------- MODULE MCBatchProcessor --------------------------
(* Instances of BatchProcessor for TLC. *)
EXTENDS BatchProcessor, TLC

\* The first batch has no line or two, the second none or one.
MCSizes == 1 :> {0, 2} @@ 2 :> {0, 1}
=============================================================================
