----------------------------- MODULE BatchLedger -----------------------------
(***************************************************************************)
(* What the batch processor promises the owner of a batch, whatever its    *)
(* process goes through.  The request of a line is sent in one life of the *)
(* process at most; in that life it may be sent again, until there is an   *)
(* outcome, and from then on no recovery or restart revises the outcome.   *)
(* A batch is completed only with an outcome for each of its lines, and    *)
(* its files are those outcomes; at most one more line is sent once the    *)
(* owner has cancelled it.                                                 *)
(***************************************************************************)
EXTENDS Naturals

CONSTANTS Batches, MaxLines,
          Lives     \* the lives of the process, from one restart to the next

VARIABLES phase,   \* where each batch is in its life
          size,    \* lines of its input file
          fate,    \* of each line: not sent, sent, or its outcome
          lives,   \* in which lives of the process each line was sent
          result,  \* the lines in its output and in its error file
          late     \* a line was sent after the batch was cancelled

ledgerVars == <<phase, size, fate, lives, result, late>>

Ended == {"ok", "bad", "errored"}

LedgerInit == /\ phase = [b \in Batches |-> "new"]
              /\ size = [b \in Batches |-> 0]
              /\ fate = [b \in Batches |-> [i \in 1..MaxLines |-> "unsent"]]
              /\ lives = [b \in Batches |-> [i \in 1..MaxLines |-> {}]]
              /\ result = [b \in Batches |-> [output |-> {}, error |-> {}]]
              /\ late = [b \in Batches |-> FALSE]

Open(b) == /\ phase[b] = "new"
           /\ phase' = [phase EXCEPT ![b] = "open"]
           /\ \E n \in 0..MaxLines : size' = [size EXCEPT ![b] = n]
           /\ UNCHANGED <<fate, lives, result, late>>

Revoke(b) == /\ phase[b] = "open"
             /\ phase' = [phase EXCEPT ![b] = "cancelled"]
             /\ UNCHANGED <<size, fate, lives, result, late>>

\* The provider gets the request of a line: in this life of the process and in no
\* other, and of one line at most in a batch its owner has given up.  (That it may
\* get it again in this life changes nothing here.)
Send(b, i) == /\ fate[b][i] = "unsent" /\ i \in 1..size[b]
              /\ phase[b] = "open" \/ (phase[b] \in {"cancelled", "gone"} /\ ~late[b])
              /\ fate' = [fate EXCEPT ![b][i] = "sent"]
              /\ \E l \in Lives : lives' = [lives EXCEPT ![b][i] = {l}]
              /\ late' = [late EXCEPT ![b] = @ \/ phase[b] # "open"]
              /\ UNCHANGED <<phase, size, result>>

\* The outcome of a line that was sent: the provider's answer, or that there
\* was none.
Conclude(b, i) == /\ phase[b] \in {"open", "cancelled"}
                  /\ fate[b][i] = "sent"
                  /\ \E outcome \in Ended : fate' = [fate EXCEPT ![b][i] = outcome]
                  /\ UNCHANGED <<phase, size, lives, result, late>>

Complete(b) ==
  /\ phase[b] = "open"
  /\ \A i \in 1..size[b] : fate[b][i] \in Ended
  /\ phase' = [phase EXCEPT ![b] = "completed"]
  /\ result' = [result EXCEPT ![b] =
       [output |-> {i \in 1..size[b] : fate[b][i] = "ok"},
        error |-> {i \in 1..size[b] : fate[b][i] # "ok"}]]
  /\ UNCHANGED <<size, fate, lives, late>>

\* Batches that cannot be finished: refused, expired, not recoverable, or
\* given up when the store failed their loop.
Fail(S) == /\ S # {}
           /\ \A b \in S : phase[b] = "open"
           /\ phase' = [b \in Batches |-> IF b \in S THEN "failed" ELSE phase[b]]
           /\ UNCHANGED <<size, fate, lives, result, late>>

\* The loop of a cancelled batch fails in its turn.
FailLate(b) == /\ phase[b] = "cancelled"
               /\ phase' = [phase EXCEPT ![b] = "failed"]
               /\ UNCHANGED <<size, fate, lives, result, late>>

\* The outcomes are forgotten, not that the lines were sent.
Forget(b) == fate' = [fate EXCEPT ![b] =
               [i \in 1..MaxLines |-> IF fate[b][i] = "unsent" THEN "unsent" ELSE "sent"]]

\* The owner deletes a batch that has ended.
Drop(b) == /\ phase[b] \in {"cancelled", "completed", "failed"}
           /\ phase' = [phase EXCEPT ![b] = "gone"]
           /\ result' = [result EXCEPT ![b] = [output |-> {}, error |-> {}]]
           /\ Forget(b)
           /\ UNCHANGED <<size, lives, late>>

\* The process dies over it: what is left are the phase and some of the files.
DropPart(b) ==
  /\ phase[b] \in {"cancelled", "completed", "failed"}
  /\ \E output \in {result[b].output, {}}, error \in {result[b].error, {}} :
       result' = [result EXCEPT ![b] = [output |-> output, error |-> error]]
  /\ Forget(b)
  /\ UNCHANGED <<phase, size, lives, late>>

LedgerNext ==
  \/ \E b \in Batches : Open(b) \/ Revoke(b) \/ Complete(b) \/ FailLate(b)
                       \/ Drop(b) \/ DropPart(b)
  \/ \E b \in Batches, i \in 1..MaxLines : Send(b, i) \/ Conclude(b, i)
  \/ \E S \in SUBSET Batches : Fail(S)

LedgerSpec == LedgerInit /\ [][LedgerNext]_ledgerVars
=============================================================================
