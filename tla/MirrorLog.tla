----------------------------- MODULE MirrorLog -----------------------------
(***************************************************************************)
(* What the background sync promises: the remote database is always the    *)
(* result of some prefix of the local writes, each executed once and in    *)
(* the order in which they were committed.                                 *)
(***************************************************************************)
EXTENDS D1Tables, Sequences

CONSTANT ForeignKeys

VARIABLES log,    \* the committed writes, in order
          done,   \* how many of them the remote database holds
          copy    \* the remote database

logVars == <<log, done, copy>>

LogInit == log = <<>> /\ done = 0 /\ copy = NoRows

Commit(w) == /\ log' = Append(log, w)
             /\ UNCHANGED <<done, copy>>

Deliver == /\ done < Len(log)
           /\ copy' = Effect(copy, log[done + 1], done + 1, ForeignKeys)
           /\ done' = done + 1
           /\ UNCHANGED log

LogNext == Deliver \/ \E w \in Statements : Commit(w)

LogSpec == LogInit /\ [][LogNext]_logVars
=============================================================================
