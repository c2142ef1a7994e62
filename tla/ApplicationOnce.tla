--------------------------- MODULE ApplicationOnce ---------------------------
(***************************************************************************)
(* What the job autopilot promises the applicant (docs/JOBS.md, "Receipts  *)
(* and duplicate prevention"): the employer's Submit button is pressed at  *)
(* most once for a job, and a job whose button was pressed is never        *)
(* offered for another attempt.                                            *)
(*                                                                         *)
(* A job is "open" (it may be attempted), "trying" (one attempt is under   *)
(* way) or "closed" (submitted, or possibly submitted: never attempted     *)
(* again).  `sent` is the employer's side: how often Submit was pressed.   *)
(***************************************************************************)
EXTENDS Naturals

CONSTANT Jobs

VARIABLES ledger,   \* what the store remembers of each job
          sent      \* Submit clicks the employer received

onceVars == <<ledger, sent>>

OnceInit == /\ ledger = [j \in Jobs |-> "open"]
            /\ sent = [j \in Jobs |-> 0]

Begin(j) == /\ ledger[j] = "open"
            /\ ledger' = [ledger EXCEPT ![j] = "trying"]
            /\ UNCHANGED sent

\* The only step that reaches the employer.
Send(j) == /\ ledger[j] = "trying"
           /\ sent[j] = 0
           /\ sent' = [sent EXCEPT ![j] = 1]
           /\ UNCHANGED ledger

\* An attempt may be given up, and the job offered again, only before Send.
GiveUp(j) == /\ ledger[j] = "trying"
             /\ sent[j] = 0
             /\ ledger' = [ledger EXCEPT ![j] = "open"]
             /\ UNCHANGED sent

\* A restart closes every attempt that was under way.
Close(S) == /\ S # {}
            /\ \A j \in S : ledger[j] = "trying"
            /\ ledger' = [j \in Jobs |-> IF j \in S THEN "closed" ELSE ledger[j]]
            /\ UNCHANGED sent

OnceNext == \/ \E j \in Jobs : Begin(j) \/ Send(j) \/ GiveUp(j)
            \/ \E S \in SUBSET Jobs : Close(S)

OnceSpec == OnceInit /\ [][OnceNext]_onceVars
=============================================================================
