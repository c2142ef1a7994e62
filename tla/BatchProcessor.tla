--------------------------- MODULE BatchProcessor ---------------------------
(***************************************************************************)
(* The bundled gateway's batch processor                                   *)
(* (open-sse/services/batchProcessor.ts) over its tables `batches` and     *)
(* `batch_item_checkpoints` (src/lib/db/batches.ts), with the routes that  *)
(* create, cancel and delete batches.                                      *)
(*                                                                         *)
(* JavaScript runs one handler at a time: a handler is interrupted by      *)
(* another only where it awaits something that is not already settled, so  *)
(* a tick of the poll loop, a route and the part of an item loop between   *)
(* two awaits are one action each.  A crash may fall between any two       *)
(* writes.  It shows in two places, the end of a batch and its deletion:   *)
(* CrashInFinalize and CrashInDelete.                                      *)
(***************************************************************************)
EXTENDS Naturals, FiniteSets

CONSTANTS Batches,        \* batch ids, numbered in the order of creation
          MaxLines,       \* bound: lines of an input file
          Sizes,          \* bound: how many lines the input file of each batch may have
          MaxConcurrent,  \* BATCH_MAX_CONCURRENT
          MaxAttempts,    \* bound of the retry loop (200 in the code)
          MaxLives        \* bound: lives of the server process

ASSUME BatchesAssumption == Batches \subseteq Nat
ASSUME BoundsAssumption == /\ MaxLines \in Nat
                           /\ Sizes \in [Batches -> SUBSET (0..MaxLines)]
                           /\ MaxConcurrent \in Nat \ {0}
                           /\ MaxAttempts \in Nat \ {0}
                           /\ MaxLives \in Nat \ {0}

VARIABLES
  \* The database.
  status,   \* status of the batch row; "new" before, "gone" after it exists
  input,    \* its input file: well formed, malformed, or deleted
  lines,    \* how many requests the input file holds
  counts,   \* requestCountsTotal, -Completed and -Failed of the row
  ck,       \* the checkpoint of each line
  files,    \* lines in the output and in the error file the row names
  \* The process.
  active,   \* activeBatches
  pc,       \* where the item loop of a batch stands
  pos,      \* the line it is at
  got,      \* its results and errors so far
  tries,    \* attempt of the request under way
  \* History.
  life,     \* which life of the process this is
  sentIn,   \* lives in which a line's request was sent
  lateSent, \* lines first sent after the cancellation of their batch
  torn      \* batches whose deletion a crash cut short

rows == <<status, input, lines, counts, ck, files>>
process == <<active, pc, pos, got, tries>>
history == <<life, sentIn, lateSent, torn>>
vars == <<rows, process, history>>

Line == 1..MaxLines
LinesOf(b) == 1..lines[b]

TERMINAL == {"completed", "failed", "cancelled", "expired"}
Status == TERMINAL \cup {"new", "validating", "in_progress", "finalizing", "cancelling", "gone"}

\* What an item can end as: answered below 400, answered 400 or above (both are
\* 'completed' checkpoints), or not answered ('errored').
Outcome == {"ok", "bad", "errored"}
Checkpoint == {"none", "pending", "processing"} \cup Outcome

NoFiles == [output |-> {}, error |-> {}]
NoCounts == [total |-> 0, completed |-> 0, failed |-> 0]
Nothing == [i \in Line |-> "none"]

Succeeded(g) == {i \in Line : g[i] = "ok"}
Failed(g) == {i \in Line : g[i] \in {"bad", "errored"}}

\* What is written to the row: the counts of the results so far.
CountsOf(total, g) == [total |-> total, completed |-> Cardinality(Succeeded(g)),
                       failed |-> Cardinality(Failed(g))]

TypeOK ==
  /\ status \in [Batches -> Status]
  /\ input \in [Batches -> {"good", "malformed", "deleted"}]
  /\ lines \in [Batches -> 0..MaxLines]
  /\ counts \in [Batches -> [total : Nat, completed : Nat, failed : Nat]]
  /\ ck \in [Batches -> [Line -> Checkpoint]]
  /\ files \in [Batches -> [output : SUBSET Line, error : SUBSET Line]]
  /\ active \subseteq Batches
  /\ pc \in [Batches -> {"idle", "next", "throttle", "sent"}]
  /\ pos \in [Batches -> Nat \ {0}]
  /\ got \in [Batches -> [Line -> Outcome \cup {"none"}]]
  /\ tries \in [Batches -> 0..MaxAttempts]
  /\ life \in 1..MaxLives
  /\ sentIn \in [Batches -> [Line -> SUBSET (1..MaxLives)]]
  /\ lateSent \in [Batches -> SUBSET Line]
  /\ torn \subseteq Batches

-----------------------------------------------------------------------------
(* The routes. *)

\* POST /v1/batches: a row in 'validating' for an input file that exists.
Create(b) ==
  /\ status[b] = "new"
  /\ \A c \in Batches : c < b => status[c] # "new"
  /\ \E n \in Sizes[b], f \in {"good", "malformed"} :
       /\ lines' = [lines EXCEPT ![b] = n]
       /\ input' = [input EXCEPT ![b] = f]
  /\ status' = [status EXCEPT ![b] = "validating"]
  /\ UNCHANGED <<counts, ck, files, process, history>>

\* POST /v1/batches/{id}/cancel.
Cancel(b) ==
  /\ status[b] \in {"validating", "in_progress", "finalizing"}
  /\ status' = [status EXCEPT ![b] = "cancelling"]
  /\ UNCHANGED <<input, lines, counts, ck, files, process, history>>

\* DELETE /v1/batches/{id}, terminal batches only: the checkpoints, the files
\* and the row.  A loop of a cancelled batch may still be running.
Delete(b) ==
  /\ status[b] \in TERMINAL
  /\ status' = [status EXCEPT ![b] = "gone"]
  /\ ck' = [ck EXCEPT ![b] = Nothing]
  /\ files' = [files EXCEPT ![b] = NoFiles]
  /\ input' = [input EXCEPT ![b] = "deleted"]
  /\ counts' = [counts EXCEPT ![b] = NoCounts]
  /\ UNCHANGED <<lines, process, history>>

\* The input file is deleted by its owner, or with another batch that used it
\* (of no consequence once the batch has ended).
DeleteInput(b) ==
  /\ status[b] \notin TERMINAL \cup {"new", "gone"}
  /\ input[b] # "deleted"
  /\ input' = [input EXCEPT ![b] = "deleted"]
  /\ UNCHANGED <<status, lines, counts, ck, files, process, history>>

-----------------------------------------------------------------------------
(* One tick of the poll loop: recovery, then starts and cancellations, then  *)
(* expiry.                                                                   *)

\* Mutants: any row that is at work is taken for stale, or only half of them.
Stale_running(b) == status[b] \in {"in_progress", "finalizing"}
Stale_unfinished(b) == status[b] = "in_progress" /\ b \notin active

\* Rows that say a loop is at work when this process has none for them.
Stale(b) == status[b] \in {"in_progress", "finalizing"} /\ b \notin active

\* Without checkpoints nothing says which requests were already sent.
Unrecoverable(b) ==
  /\ \A i \in Line : ck[b][i] = "none"
  /\ \/ counts[b].total > 0 \/ counts[b].completed > 0 \/ counts[b].failed > 0
     \/ status[b] = "finalizing"

Recovered(b) == IF ~Stale(b) THEN status[b]
                ELSE IF Unrecoverable(b) THEN "failed" ELSE "validating"

Waiting == {b \in Batches : Recovered(b) = "validating"}

\* The oldest waiting batches, as many as there is room for.
Admitted(S) ==
  LET room == MaxConcurrent - Cardinality(active) IN
  /\ S \subseteq Waiting
  /\ \A b \in S, c \in Waiting \ S : b < c
  /\ Cardinality(S) = IF Cardinality(active) >= MaxConcurrent THEN 0
                      ELSE IF Cardinality(Waiting) < room THEN Cardinality(Waiting) ELSE room

\* startBatch: a missing or malformed input file fails the batch.
Started(S) == {b \in S : input[b] = "good"}

\* The counts are reset by a recovery that found no checkpoint, and set by
\* startBatch.
PolledCounts(b, S) ==
  LET reset == Stale(b) /\ ~Unrecoverable(b) /\ (\A i \in Line : ck[b][i] = "none")
      refused == b \in S /\ input[b] = "malformed"
  IN  [total |-> IF b \in Started(S) \/ refused THEN lines[b] ELSE counts[b].total,
       completed |-> IF reset THEN 0 ELSE counts[b].completed,
       failed |-> IF refused THEN lines[b] ELSE IF reset THEN 0 ELSE counts[b].failed]

\* Any waiting batch that was not admitted may be past its completion window.
Poll ==
  \E S \in SUBSET Batches, late \in SUBSET Waiting :
    /\ Admitted(S)
    /\ late \cap S = {}
    /\ status' = [b \in Batches |->
         IF b \in S THEN IF input[b] = "good" THEN "in_progress" ELSE "failed"
         ELSE IF b \in late THEN "expired"
         ELSE IF status[b] = "cancelling" THEN "cancelled"
         ELSE Recovered(b)]
    /\ counts' = [b \in Batches |-> PolledCounts(b, S)]
    /\ files' = [b \in Batches |-> IF Stale(b) /\ ~Unrecoverable(b) THEN NoFiles ELSE files[b]]
    \* INSERT OR IGNORE: a checkpoint that exists stays as it is.
    /\ ck' = [b \in Batches |-> IF b \notin Started(S) THEN ck[b]
                ELSE [i \in Line |-> IF i \in LinesOf(b) /\ ck[b][i] = "none" THEN "pending"
                                     ELSE ck[b][i]]]
    /\ active' = active \cup Started(S)
    /\ pc' = [b \in Batches |-> IF b \in Started(S) THEN "next" ELSE pc[b]]
    /\ pos' = [b \in Batches |-> IF b \in Started(S) THEN 1 ELSE pos[b]]
    /\ got' = [b \in Batches |-> IF b \in Started(S) THEN Nothing ELSE got[b]]
    /\ UNCHANGED <<input, lines, tries, history>>

-----------------------------------------------------------------------------
(* processBatchItems, the loop of one batch. *)

\* Mutant: the loop waits for the poll loop to confirm the cancellation.
IsBatchCancelled_confirmed(b) == status[b] \in {"cancelled", "gone"}

IsBatchCancelled(b) == status[b] \in {"cancelling", "cancelled", "gone"}

\* An UPDATE of a row that was deleted changes nothing.
Mark(b, value) == ck' = IF status[b] = "gone" THEN ck ELSE [ck EXCEPT ![b][pos[b]] = value]

Settle(b, outcome) ==
  /\ got' = [got EXCEPT ![b][pos[b]] = outcome]
  /\ counts' = IF status[b] = "gone" THEN counts
               ELSE [counts EXCEPT ![b] = CountsOf(counts[b].total, got'[b])]
  /\ pos' = [pos EXCEPT ![b] = @ + 1]
  /\ pc' = [pc EXCEPT ![b] = "next"]

\* At the top of the loop: a line is left, and the batch is not cancelled.
AtItem(b) == pc[b] = "next" /\ pos[b] <= lines[b] /\ ~IsBatchCancelled(b)

\* Mutant: whatever the interrupted life left behind counts as interrupted.
Recover_interrupts(b) ==
  /\ AtItem(b)
  /\ ck[b][pos[b]] \in Outcome \cup {"processing"}
  /\ Mark(b, "errored") /\ Settle(b, "errored")
  /\ UNCHANGED <<status, input, lines, files, active, tries, history>>

\* Mutant: a recovered line is passed over and not reported.
Recover_silent(b) ==
  /\ AtItem(b)
  /\ ck[b][pos[b]] \in Outcome \cup {"processing"}
  /\ Mark(b, IF ck[b][pos[b]] = "processing" THEN "errored" ELSE ck[b][pos[b]])
  /\ pos' = [pos EXCEPT ![b] = @ + 1]
  /\ UNCHANGED <<status, input, lines, counts, files, active, pc, got, tries, history>>

\* applyRecoveredCheckpoint: an earlier life of the process has dealt with this
\* line.  (The code compares with a map it read when the loop began; no one
\* else writes the checkpoints of lines the loop has not reached.)
Recover(b) ==
  /\ AtItem(b)
  /\ ck[b][pos[b]] \in Outcome \cup {"processing"}
  /\ LET outcome == IF ck[b][pos[b]] = "processing" THEN "errored" ELSE ck[b][pos[b]]
     IN  Mark(b, outcome) /\ Settle(b, outcome)
  /\ UNCHANGED <<status, input, lines, files, active, tries, history>>

\* The headers of the last answer ask for a pause before a new request.
Throttle(b) ==
  /\ AtItem(b)
  /\ ck[b][pos[b]] \in {"none", "pending"}
  /\ pc' = [pc EXCEPT ![b] = "throttle"]
  /\ UNCHANGED <<rows, active, pos, got, tries, history>>

\* Mutant: an interrupted line is sent again.
Dispatch_replays(b) ==
  /\ \/ AtItem(b) /\ ck[b][pos[b]] \in {"none", "pending", "processing"}
     \/ pc[b] = "throttle"
  /\ Mark(b, "processing")
  /\ pc' = [pc EXCEPT ![b] = "sent"]
  /\ tries' = [tries EXCEPT ![b] = 1]
  /\ sentIn' = [sentIn EXCEPT ![b][pos[b]] = @ \cup {life}]
  /\ UNCHANGED <<status, input, lines, counts, files, active, pos, got, life, lateSent, torn>>

\* Mark the line and send its request, at once or when the pause is over.
Dispatch(b) ==
  /\ \/ AtItem(b) /\ ck[b][pos[b]] \in {"none", "pending"}
     \/ pc[b] = "throttle"
  /\ Mark(b, "processing")
  /\ pc' = [pc EXCEPT ![b] = "sent"]
  /\ tries' = [tries EXCEPT ![b] = 1]
  /\ sentIn' = [sentIn EXCEPT ![b][pos[b]] = @ \cup {life}]
  /\ lateSent' = [lateSent EXCEPT ![b] = IF status[b] # "in_progress" THEN @ \cup {pos[b]} ELSE @]
  /\ UNCHANGED <<status, input, lines, counts, files, active, pos, got, life, torn>>

\* Mutant: one attempt too many.
Retry_once_more(b) ==
  /\ pc[b] = "sent"
  /\ tries[b] <= MaxAttempts
  /\ tries' = [tries EXCEPT ![b] = @ + 1]
  /\ sentIn' = [sentIn EXCEPT ![b][pos[b]] = @ \cup {life}]
  /\ UNCHANGED <<rows, active, pc, pos, got, life, lateSent, torn>>

\* 429, 502 or 504: the request is sent again after a pause; nothing here asks
\* whether the batch was cancelled.
Retry(b) ==
  /\ pc[b] = "sent"
  /\ tries[b] < MaxAttempts
  /\ tries' = [tries EXCEPT ![b] = @ + 1]
  /\ sentIn' = [sentIn EXCEPT ![b][pos[b]] = @ \cup {life}]
  /\ UNCHANGED <<rows, active, pc, pos, got, life, lateSent, torn>>

\* The answer, or after two minutes the timeout ("errored"); the request that
\* timed out goes on without anyone who waits for it.
Answer(b) ==
  /\ pc[b] = "sent"
  /\ \E outcome \in Outcome : Mark(b, outcome) /\ Settle(b, outcome)
  /\ tries' = [tries EXCEPT ![b] = 0]
  /\ UNCHANGED <<status, input, lines, files, active, history>>

\* The loop and its local variables are gone.
LoopEnds(b) ==
  /\ active' = active \ {b}
  /\ pc' = [pc EXCEPT ![b] = "idle"]
  /\ pos' = [pos EXCEPT ![b] = 1]
  /\ got' = [got EXCEPT ![b] = Nothing]
  /\ tries' = [tries EXCEPT ![b] = 0]

LoopDone(b) == pc[b] = "next" /\ (pos[b] > lines[b] \/ IsBatchCancelled(b))

\* Mutant: a batch that the poll loop has closed by now is completed.
Finalize_closed(b) ==
  /\ LoopDone(b)
  /\ status' = [status EXCEPT ![b] = IF @ = "cancelling" THEN "cancelled"
                                     ELSE IF @ = "gone" THEN @ ELSE "completed"]
  /\ LoopEnds(b)
  /\ UNCHANGED <<input, lines, counts, ck, files, history>>

\* finalizeBatch: a cancelled batch is closed as it is, any other is completed.
Finalize(b) ==
  /\ LoopDone(b)
  /\ \/ /\ IsBatchCancelled(b)
        /\ status' = [status EXCEPT ![b] = IF @ = "cancelling" THEN "cancelled" ELSE @]
        /\ UNCHANGED <<counts, files>>
     \/ /\ ~IsBatchCancelled(b)
        /\ status' = [status EXCEPT ![b] = "completed"]
        /\ files' = [files EXCEPT ![b] = [output |-> Succeeded(got[b]), error |-> Failed(got[b])]]
        /\ counts' = [counts EXCEPT ![b] = CountsOf(counts[b].total, got[b])]
  /\ LoopEnds(b)
  /\ UNCHANGED <<input, lines, ck, history>>

\* A write of the loop throws: failBatch, whatever the status is by now.
LoopFails(b) ==
  /\ pc[b] # "idle"
  /\ status' = [status EXCEPT ![b] = IF @ = "gone" THEN @ ELSE "failed"]
  /\ LoopEnds(b)
  /\ UNCHANGED <<input, lines, counts, ck, files, history>>

-----------------------------------------------------------------------------
(* The process ends and another one begins. *)

Restart == /\ life < MaxLives
           /\ life' = life + 1
           /\ active' = {}
           /\ pc' = [b \in Batches |-> "idle"]
           /\ pos' = [b \in Batches |-> 1]
           /\ got' = [b \in Batches |-> Nothing]
           /\ tries' = [b \in Batches |-> 0]
           /\ UNCHANGED <<sentIn, lateSent>>

Crash == Restart /\ UNCHANGED <<rows, torn>>

\* Between markFinalizing and completeBatch.  The files written so far stay
\* behind without a batch that names them.
CrashInFinalize(b) ==
  /\ LoopDone(b) /\ ~IsBatchCancelled(b)
  /\ status' = [status EXCEPT ![b] = "finalizing"]
  /\ Restart
  /\ UNCHANGED <<input, lines, counts, ck, files, torn>>

\* Between deleteBatch's writes, which are a transaction each: the checkpoints
\* first, then the input file, the output file and the error file, and the row at
\* last.  The row that stays says what it said.
CrashInDelete(b) ==
  /\ status[b] \in TERMINAL
  /\ ck' = [ck EXCEPT ![b] = Nothing]
  /\ \E n \in 0..3 :
       /\ input' = [input EXCEPT ![b] = IF n >= 1 THEN "deleted" ELSE @]
       /\ files' = [files EXCEPT ![b] = [output |-> IF n >= 2 THEN {} ELSE @.output,
                                         error |-> IF n = 3 THEN {} ELSE @.error]]
  /\ torn' = torn \cup {b}
  /\ Restart
  /\ UNCHANGED <<status, lines, counts>>

-----------------------------------------------------------------------------
Init ==
  /\ status = [b \in Batches |-> "new"]
  /\ input = [b \in Batches |-> "good"]
  /\ lines = [b \in Batches |-> 0]
  /\ counts = [b \in Batches |-> NoCounts]
  /\ ck = [b \in Batches |-> Nothing]
  /\ files = [b \in Batches |-> NoFiles]
  /\ active = {}
  /\ pc = [b \in Batches |-> "idle"]
  /\ pos = [b \in Batches |-> 1]
  /\ got = [b \in Batches |-> Nothing]
  /\ tries = [b \in Batches |-> 0]
  /\ life = 1
  /\ sentIn = [b \in Batches |-> [i \in Line |-> {}]]
  /\ lateSent = [b \in Batches |-> {}]
  /\ torn = {}

Routes(b) == Create(b) \/ Cancel(b) \/ Delete(b) \/ DeleteInput(b)
Loop(b) == Recover(b) \/ Throttle(b) \/ Dispatch(b) \/ Retry(b) \/ Answer(b) \/ Finalize(b)

Next == \/ Poll \/ Crash
        \/ \E b \in Batches : Routes(b) \/ Loop(b) \/ LoopFails(b)
                            \/ CrashInFinalize(b) \/ CrashInDelete(b)

Spec == Init /\ [][Next]_vars

\* The interval timer keeps polling, and every await of a loop settles: a pause
\* ends, an attempt is answered or times out.
FairSpec == Spec /\ WF_vars(Poll) /\ \A b \in Batches : WF_vars(Loop(b))

-----------------------------------------------------------------------------
(* Properties. *)

\* A request that may have reached the provider in one life of the process is
\* not sent again in another, wherever the process died (recoverStaleBatch,
\* applyRecoveredCheckpoint: "not replayed to avoid duplicate provider work").
NoReplay ==
  \A b \in Batches, i \in Line : \A l, m \in sentIn[b][i] : l = m

\* After a cancellation at most one line more is sent: the one whose loop had
\* passed the check and was pausing.
CancelSendsAtMostOne ==
  \A b \in Batches : \A i, j \in lateSent[b] : i = j

\* A completed batch accounts for every line of its input exactly once, over
\* crashes and recoveries: the files are disjoint and complete, agree with the
\* checkpoints, and are what the counts say.  (A completed row whose deletion a
\* crash cut short has lost its checkpoints, and perhaps files.)
CompletedAccounts ==
  \A b \in Batches \ torn : status[b] = "completed" =>
    /\ files[b].output \cup files[b].error = LinesOf(b)
    /\ files[b].output = {i \in Line : ck[b][i] = "ok"}
    /\ files[b].error = {i \in Line : ck[b][i] \in {"bad", "errored"}}
    /\ counts[b] = [total |-> lines[b], completed |-> Cardinality(files[b].output),
                    failed |-> Cardinality(files[b].error)]

\* The poll loop never takes a batch whose loop still runs for a stale or a
\* waiting one: the row and activeBatches tell the same story.
LoopOwnsBatch ==
  \A b \in Batches :
    /\ b \in active <=> pc[b] # "idle"
    /\ pc[b] # "idle" => status[b] \in {"in_progress", "cancelling", "cancelled", "gone"}

\* A batch that reached an end keeps it, except that a loop whose batch was
\* cancelled under it and that then fails makes it 'failed'.
EndIsFinal ==
  [][\A b \in Batches : status[b] \in TERMINAL =>
       status'[b] \in {status[b], "gone"}
         \cup (IF status[b] = "cancelled" /\ pc[b] # "idle" THEN {"failed"} ELSE {})]_vars

\* Every batch ends: crashes, a full processor, a cancellation or a provider
\* that only answers 429 do not leave one behind.
BatchEnds ==
  \A b \in Batches : status[b] = "validating" ~> status[b] \in TERMINAL \cup {"gone"}

-----------------------------------------------------------------------------
(* The abstract specification BatchLedger, and how it is read here.         *)

PhaseOf(b) ==
  CASE status[b] \in {"validating", "in_progress", "finalizing"} -> "open"
    [] status[b] \in {"cancelling", "cancelled"} -> "cancelled"
    [] status[b] \in {"failed", "expired"} -> "failed"
    [] OTHER -> status[b]

\* What is known of a line: that it was sent, and its outcome as long as the row
\* and its checkpoints exist.
FateOf(b, i) == IF sentIn[b][i] = {} THEN "unsent"
                ELSE IF status[b] # "gone" /\ ck[b][i] \in Outcome THEN ck[b][i]
                ELSE "sent"

Phases == [b \in Batches |-> PhaseOf(b)]
Fates == [b \in Batches |-> [i \in Line |-> FateOf(b, i)]]
Lates == [b \in Batches |-> lateSent[b] # {}]

Ledger == INSTANCE BatchLedger
            WITH Lives <- 1..MaxLives, phase <- Phases, size <- lines, fate <- Fates,
                 lives <- sentIn, result <- files, late <- Lates

\* Recovery, throttling, cancellation, deletion and crashes keep the promise to the
\* owner of a batch: every line is sent in at most one life of the process, where
\* only an answer of 429, 502 or 504 makes the loop send it again
\* (processSingleItemWithRetry), and keeps the outcome it got; and a completed batch
\* hands out exactly these outcomes (processBatchItems, applyRecoveredCheckpoint,
\* finalizeBatch).
ImplementsLedger == Ledger!LedgerSpec
=============================================================================
