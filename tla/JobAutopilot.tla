---------------------------- MODULE JobAutopilot ----------------------------
(***************************************************************************)
(* The job autopilot: JobManager (jobs/manager.py), JobStore               *)
(* (jobs/store.py) and ApplicationBrowser.apply (jobs/browser.py).         *)
(*                                                                         *)
(* The store is one SQLite file.  Each manager is a process (or a manager  *)
(* object that get_manager created after the previous one was closed) with *)
(* a command thread, which runs JobManager.command under the manager's     *)
(* lock, and one worker thread, which takes the lock only to start and to  *)
(* end a run.  Several managers may share the file.                        *)
(*                                                                         *)
(* Every store call is one transaction and one step.  A command is one     *)
(* step unless another thread can see it half done: stop, skip and         *)
(* confirm_submitted are two steps, with the lock held in between.         *)
(*                                                                         *)
(* Data: a job's listing is only whether the current profile selects it    *)
(* (eligible, supported, above min_score).  "unsent" stands for the five   *)
(* outcomes before the Submit click that the control treats alike: failed, *)
(* blocked, needs_login, needs_input and unsupported.                      *)
(***************************************************************************)
EXTENDS Naturals, FiniteSets

CONSTANTS Jobs,       \* job records, by fingerprint
          Managers,   \* JobManager objects over one store
          Limits,     \* the daily_limit values the applicant uses
          Commands,   \* the commands the applicant uses
          NoJob

ASSUME LimitsAssumption == Limits # {} /\ Limits \subseteq Nat \ {0}
ASSUME NoJobAssumption  == NoJob \notin Jobs

VARIABLES
  (* the store *)
  status,      \* jobs.status, "absent" before the first upsert
  match,       \* the jobs the current profile and preferences select
  enabled,     \* preferences.enabled
  limit,       \* preferences.daily_limit
  ready,       \* the applicant profile and resume are complete
  attempts,    \* rows of attempts started today
  (* the employer, and what happened so far *)
  clicks,      \* Submit clicks per job: 0, 1, or 2 for more than one
  overwritten, \* jobs whose active or attempted record another thread replaced
  halted,      \* a complete stop is the last thing the applicant said
  leftover,    \* jobs that a run was about to queue when that stop was complete
  (* each manager *)
  pc,          \* where its worker thread is
  stop, shut,  \* its stop and shutdown events
  scanReq,     \* scan_requested
  lim,         \* daily_limit as the run read it
  todo, fit,   \* the listing being iterated, and which of it matched
  cur,         \* the job being applied to
  res,         \* the status browser.apply returned
  cmd          \* the command that holds the lock, half done

store   == <<status, match, enabled, limit, ready, attempts>>
word    == <<halted, leftover>>
history == <<clicks, overwritten, word>>
run     == <<lim, todo, fit, cur, res>>
events  == <<stop, shut, scanReq>>
vars    == <<store, history, pc, events, run, cmd>>

\* Mutant: an attempt of unknown outcome may be queued again.
TERMINAL_uncertainOpen == {"submitted", "applying", "submitting"}

TERMINAL == {"submitted", "uncertain", "applying", "submitting"}
Status   == TERMINAL \cup {"absent", "discovered", "queued", "skipped", "stopped", "unsent"}
Results  == {"none", "unsent", "stopped", "submitted", "uncertain"}

Idle  == {"off", "none", "wait"}   \* no process, no worker thread, waiting on `wake`
Hold  == {"form", "mark", "guard", "click", "receipt", "record", "handle"}
Place == Idle \cup Hold \cup {"scan", "plan", "enqueue", "next", "unfit", "claim", "done"}

Busy(m)    == pc[m] \notin Idle
Free(m)    == cmd[m].op = "none"
NoCmd      == [op |-> "none", job |-> NoJob]
Holds(m,j) == pc[m] \in Hold /\ cur[m] = j
With(s)    == {j \in Jobs : status[j] = s}

TypeOK ==
  /\ status \in [Jobs -> Status] /\ match \subseteq Jobs
  /\ enabled \in BOOLEAN /\ ready \in BOOLEAN
  /\ limit \in Limits /\ attempts \in Nat
  /\ clicks \in [Jobs -> 0..2] /\ overwritten \subseteq Jobs
  /\ halted \in BOOLEAN /\ leftover \subseteq Jobs
  /\ pc \in [Managers -> Place]
  /\ stop \in [Managers -> BOOLEAN] /\ shut \in [Managers -> BOOLEAN]
  /\ scanReq \in [Managers -> BOOLEAN]
  /\ lim \in [Managers -> Limits \cup {0}]
  /\ todo \in [Managers -> SUBSET Jobs] /\ fit \in [Managers -> SUBSET Jobs]
  /\ cur \in [Managers -> Jobs \cup {NoJob}]
  /\ res \in [Managers -> Results]
  /\ cmd \in [Managers -> [op: {"none", "stop", "skip", "confirm"}, job: Jobs \cup {NoJob}]]
  /\ \A m \in Managers : pc[m] \in Hold \cup {"unfit", "claim"} => cur[m] \in Jobs
  /\ \A m \in Managers : cmd[m].op \in {"skip", "confirm"} => cmd[m].job \in Jobs
  /\ \A m \in Managers : pc[m] = "record" => res[m] # "none"

-----------------------------------------------------------------------------
(* The store's transactions, as expressions for the next status.           *)

\* set_status: an unconditional UPDATE, whatever the row says now.
Put(j, s) == status' = [status EXCEPT ![j] = s]

\* The same UPDATE issued by a thread that is not applying to j.
Replace(j, s) == /\ Put(j, s)
                 /\ overwritten' = IF status[j] \in TERMINAL THEN overwritten \cup {j}
                                   ELSE overwritten

\* recover: every attempt in the file becomes uncertain, also one that the
\* worker of another manager is still making.
Recover ==
  LET S == With("applying") \cup With("submitting") IN
  /\ status' = [j \in Jobs |-> IF j \in S THEN "uncertain" ELSE status[j]]
  /\ overwritten' = overwritten \cup {j \in S : \E n \in Managers : Holds(n, j)}

-----------------------------------------------------------------------------
(* Process start and end, and time.                                        *)

\* get_manager: JobManager.__init__ (its fields have their initial values
\* since Exit), and a worker if there is work for one.
Boot(m) ==
  /\ pc[m] = "off"
  /\ Recover
  /\ pc' = [pc EXCEPT ![m] = IF enabled \/ With("queued") # {} THEN "wait" ELSE "none"]
  /\ UNCHANGED <<match, enabled, limit, ready, attempts, clicks, word, events, run, cmd>>

\* close(): the events only; the worker notices them later.
Close(m) ==
  /\ pc[m] # "off" /\ ~shut[m] /\ Free(m)
  /\ stop' = [stop EXCEPT ![m] = TRUE]
  /\ shut' = [shut EXCEPT ![m] = TRUE]
  /\ UNCHANGED <<store, history, pc, scanReq, run, cmd>>

\* The process ends, in order or by a crash: its threads stop where they are
\* and its memory is gone.
Exit(m) ==
  /\ pc[m] # "off"
  /\ pc' = [pc EXCEPT ![m] = "off"]
  /\ lim' = [lim EXCEPT ![m] = 0]
  /\ todo' = [todo EXCEPT ![m] = {}]
  /\ fit' = [fit EXCEPT ![m] = {}]
  /\ cur' = [cur EXCEPT ![m] = NoJob]
  /\ res' = [res EXCEPT ![m] = "none"]
  /\ cmd' = [cmd EXCEPT ![m] = NoCmd]
  /\ stop' = [stop EXCEPT ![m] = FALSE]
  /\ shut' = [shut EXCEPT ![m] = FALSE]
  /\ scanReq' = [scanReq EXCEPT ![m] = FALSE]
  /\ UNCHANGED <<store, history>>

\* Attempts are counted by UTC day.
Midnight ==
  /\ attempts > 0
  /\ attempts' = 0
  /\ UNCHANGED <<status, match, enabled, limit, ready, history, pc, events, run, cmd>>

-----------------------------------------------------------------------------
(* JobManager.command and configure, under the manager's lock.             *)

\* A caller gets its manager from get_manager, which never returns a closed one.
Callable(m) == pc[m] # "off" /\ ~shut[m] /\ Free(m)

\* "The previous operation is still stopping"
Stopping(m) == stop[m] /\ Busy(m)

\* start, scan and apply clear the stop event.
Ask(m) == /\ stop' = [stop EXCEPT ![m] = FALSE]
          /\ halted' = FALSE /\ leftover' = {}

\* ensure_worker: a thread if there is none, and the wake event.
EnsureWorker(m) == pc' = [pc EXCEPT ![m] = IF @ = "none" THEN "wait" ELSE @]

Start(m) ==
  /\ "start" \in Commands /\ Callable(m) /\ ~Stopping(m) /\ ready
  /\ enabled' = TRUE
  /\ Ask(m)
  /\ scanReq' = [scanReq EXCEPT ![m] = TRUE]
  /\ EnsureWorker(m)
  /\ UNCHANGED <<status, match, limit, ready, attempts, clicks, overwritten, shut, run, cmd>>

RequestScan(m) ==
  /\ "scan" \in Commands /\ Callable(m) /\ ~Busy(m)
  /\ Ask(m)
  /\ scanReq' = [scanReq EXCEPT ![m] = TRUE]
  /\ EnsureWorker(m)
  /\ UNCHANGED <<store, clicks, overwritten, shut, run, cmd>>

\* store.queue refuses a job that is active or was attempted.
Apply(m, j) ==
  /\ "apply" \in Commands /\ Callable(m) /\ ~Stopping(m) /\ ready
  /\ status[j] # "absent" /\ j \in match
  /\ status[j] \notin TERMINAL
  /\ Put(j, "queued")
  /\ Ask(m)
  /\ EnsureWorker(m)
  /\ UNCHANGED <<match, enabled, limit, ready, attempts, clicks, overwritten, shut, scanReq, run, cmd>>

\* stop: the preference and the event, then stop_queued.
StopBegin(m) ==
  /\ "stop" \in Commands /\ Callable(m)
  /\ enabled' = FALSE
  /\ stop' = [stop EXCEPT ![m] = TRUE]
  /\ cmd' = [cmd EXCEPT ![m] = [op |-> "stop", job |-> NoJob]]
  /\ UNCHANGED <<status, match, limit, ready, attempts, history, pc, shut, scanReq, run>>

\* What the loop over the discovered jobs has yet to queue: it does not look at
\* the stop event.
AboutToQueue == UNION {todo[m] : m \in {n \in Managers : pc[n] = "enqueue"}}

\* Mutant: stop forgets the applications that wait.
StopEnd_keepsQueue(m) ==
  /\ cmd[m].op = "stop"
  /\ scanReq' = [scanReq EXCEPT ![m] = FALSE]
  /\ halted' = TRUE /\ leftover' = AboutToQueue
  /\ cmd' = [cmd EXCEPT ![m] = NoCmd]
  /\ UNCHANGED <<store, clicks, overwritten, pc, stop, shut, run>>

StopEnd(m) ==
  /\ cmd[m].op = "stop"
  /\ status' = [j \in Jobs |-> IF status[j] = "queued" THEN "stopped" ELSE status[j]]
  /\ scanReq' = [scanReq EXCEPT ![m] = FALSE]
  /\ halted' = TRUE /\ leftover' = AboutToQueue
  /\ cmd' = [cmd EXCEPT ![m] = NoCmd]
  /\ UNCHANGED <<match, enabled, limit, ready, attempts, clicks, overwritten, pc, stop, shut, run>>

\* skip and confirm_submitted read the status in one transaction and write
\* it in another; the worker's transactions do not take the lock.
ReadThenWrite(m, j, op) ==
  /\ op \in Commands /\ Callable(m)
  /\ cmd' = [cmd EXCEPT ![m] = [op |-> op, job |-> j]]
  /\ UNCHANGED <<store, history, pc, events, run>>

SkipRead(m, j) == /\ status[j] \notin TERMINAL \cup {"absent"}
                  /\ ReadThenWrite(m, j, "skip")

SkipWrite(m) ==
  /\ cmd[m].op = "skip"
  /\ Replace(cmd[m].job, "skipped")
  /\ cmd' = [cmd EXCEPT ![m] = NoCmd]
  /\ UNCHANGED <<match, enabled, limit, ready, attempts, clicks, word, pc, events, run>>

ConfirmRead(m, j) == /\ status[j] = "uncertain"
                     /\ ReadThenWrite(m, j, "confirm")

ConfirmWrite(m) ==
  /\ cmd[m].op = "confirm"
  /\ Put(cmd[m].job, "submitted")
  /\ cmd' = [cmd EXCEPT ![m] = NoCmd]
  /\ UNCHANGED <<match, enabled, limit, ready, attempts, history, pc, events, run>>

\* Mutant: configure is accepted during a run.
Configure_duringRun(m) ==
  /\ "configure" \in Commands /\ Callable(m)
  /\ limit' \in Limits /\ ready' \in BOOLEAN
  /\ match' \in SUBSET {j \in Jobs : status[j] # "absent"}
  /\ UNCHANGED <<status, enabled, attempts, history, pc, events, run, cmd>>

\* configure: new profile and preferences, and every job matched anew.
Configure(m) ==
  /\ "configure" \in Commands /\ Callable(m) /\ ~Busy(m)
  /\ limit' \in Limits /\ ready' \in BOOLEAN
  /\ match' \in SUBSET {j \in Jobs : status[j] # "absent"}
  /\ UNCHANGED <<status, enabled, attempts, history, pc, events, run, cmd>>

-----------------------------------------------------------------------------
(* JobManager._worker.                                                     *)

Goto(m, p) == pc' = [pc EXCEPT ![m] = p]

\* The end of the loops over a listing, by break or by an exception.
Leave(m) == /\ Goto(m, "done")
            /\ todo' = [todo EXCEPT ![m] = {}]

\* The wait ends by the event or after 30 s, so `wake` needs no variable.
\* next_scan, read while auto-apply is enabled, may have passed at any time.
Wake(m) ==
  /\ pc[m] = "wait" /\ ~shut[m] /\ Free(m) /\ ~stop[m]
  /\ \E scheduled \in {FALSE, enabled} : LET scan == scanReq[m] \/ scheduled IN
       /\ scan \/ With("queued") # {}
       /\ Goto(m, IF scan THEN "scan" ELSE "plan")
  /\ scanReq' = [scanReq EXCEPT ![m] = FALSE]
  /\ UNCHANGED <<store, history, stop, shut, run, cmd>>

\* The end of the thread: after close(), or because the store raised while
\* the thread looked for work, which no except clause covers.
WorkerExit(m) ==
  /\ pc[m] = "wait"
  /\ shut[m] \/ (Free(m) /\ ~stop[m])
  /\ Goto(m, "none")
  /\ UNCHANGED <<store, history, events, run, cmd>>

\* _scan: nothing is stored when stop was set while the feeds were read.
\* upsert adds unknown jobs and rewrites the data, never the status, of known ones.
Scan(m) ==
  /\ pc[m] = "scan"
  /\ IF stop[m]
     THEN UNCHANGED <<status, match>>
     ELSE /\ \E new \in SUBSET With("absent") :
               status' = [j \in Jobs |-> IF j \in new THEN "discovered" ELSE status[j]]
          /\ match' \in SUBSET {j \in Jobs : status'[j] # "absent"}
  /\ Goto(m, "plan")
  /\ UNCHANGED <<enabled, limit, ready, attempts, history, stop, shut, scanReq, run, cmd>>

\* An exception outside an application (a feed, a store call, store.queue
\* refusing a job) ends the run: the next scan is in 30 minutes.
RunFails(m) ==
  /\ pc[m] \in {"scan", "plan", "enqueue", "next", "unfit", "claim"}
  /\ Leave(m)
  /\ UNCHANGED <<store, history, stop, shut, scanReq, lim, fit, cur, res, cmd>>

\* _apply_queued: read the settings, list the discovered jobs that match
\* (the score filter leaves any subset of them).
Plan(m) ==
  /\ pc[m] = "plan"
  /\ IF stop[m] \/ ~ready
     THEN Leave(m) /\ UNCHANGED lim
     ELSE /\ Goto(m, "enqueue")
          /\ lim' = [lim EXCEPT ![m] = limit]
          /\ \E S \in SUBSET (IF enabled THEN match \cap With("discovered") ELSE {}) :
               todo' = [todo EXCEPT ![m] = S]
  /\ UNCHANGED <<store, history, events, fit, cur, res, cmd>>

Enqueue(m) ==
  /\ pc[m] = "enqueue"
  /\ \E j \in todo[m] : /\ status[j] \notin TERMINAL
                        /\ Put(j, "queued")
                        /\ todo' = [todo EXCEPT ![m] = @ \ {j}]
  /\ UNCHANGED <<match, enabled, limit, ready, attempts, history, pc, events, lim, fit, cur, res, cmd>>

List(m) ==
  /\ pc[m] = "enqueue" /\ todo[m] = {}
  /\ Goto(m, "next")
  /\ todo' = [todo EXCEPT ![m] = With("queued")]
  /\ fit' = [fit EXCEPT ![m] = match \cap With("queued")]
  /\ UNCHANGED <<store, history, events, lim, cur, res, cmd>>

\* The head of the loop over the listing; the pause of 5 s after a job ends
\* the loop on the same condition.
NextJob(m) ==
  /\ pc[m] = "next"
  /\ IF stop[m] \/ shut[m] \/ todo[m] = {}
     THEN Leave(m) /\ UNCHANGED cur
     ELSE \E j \in todo[m] :
            /\ cur' = [cur EXCEPT ![m] = j]
            /\ todo' = [todo EXCEPT ![m] = @ \ {j}]
            /\ Goto(m, IF j \in fit[m] THEN "claim" ELSE "unfit")
  /\ UNCHANGED <<store, history, events, lim, fit, res, cmd>>

Unfit(m) ==
  /\ pc[m] = "unfit"
  /\ Replace(cur[m], "skipped")
  /\ Goto(m, "next")
  /\ UNCHANGED <<match, enabled, limit, ready, attempts, clicks, word, events, run, cmd>>

\* Mutant: the claim trusts the listing and does not look at the status.
Claimable_stale(m) == attempts < lim[m]

\* store.claim, in one immediate transaction.
Claimable(m) == attempts < lim[m] /\ status[cur[m]] = "queued"

Claim(m) ==
  /\ pc[m] = "claim" /\ Claimable(m)
  /\ Put(cur[m], "applying")
  /\ attempts' = attempts + 1
  /\ Goto(m, "form")
  /\ UNCHANGED <<match, enabled, limit, ready, history, events, run, cmd>>

ClaimRefused(m) ==
  /\ pc[m] = "claim" /\ ~Claimable(m)
  /\ Leave(m)
  /\ UNCHANGED <<store, history, events, lim, fit, cur, res, cmd>>

-----------------------------------------------------------------------------
(* ApplicationBrowser.apply, and what the worker does with its answer.     *)

\* Mutant: the answer of browser.apply gets lost.
Return_empty(m, s) == /\ Goto(m, "record")
                      /\ res' = [res EXCEPT ![m] = "none"]

\* browser.apply returns s.
Return(m, s) == /\ Goto(m, "record")
                /\ res' = [res EXCEPT ![m] = s]

\* Load and fill the form; every stage may end the attempt, or a stop.
Form(m) ==
  /\ pc[m] = "form"
  /\ \/ Goto(m, "mark") /\ UNCHANGED res
     \/ Return(m, "unsent")
     \/ stop[m] /\ Return(m, "stopped")
  /\ UNCHANGED <<store, history, events, lim, todo, fit, cur, cmd>>

\* Mutant: the intent to submit is not written before the click.
Mark_unwritten(m) ==
  /\ pc[m] = "mark"
  /\ IF stop[m] THEN Return(m, "stopped") ELSE Goto(m, "guard") /\ UNCHANGED res
  /\ UNCHANGED <<store, history, events, lim, todo, fit, cur, cmd>>

\* check_stop, then before_submit: the store says "submitting" before the
\* click.  When that write fails nothing is sent.
Mark(m) ==
  /\ pc[m] = "mark"
  /\ \/ stop[m] /\ Return(m, "stopped") /\ UNCHANGED status
     \/ ~stop[m] /\ Return(m, "unsent") /\ UNCHANGED status
     \/ ~stop[m] /\ Put(cur[m], "submitting") /\ Goto(m, "guard") /\ UNCHANGED res
  /\ UNCHANGED <<match, enabled, limit, ready, attempts, history, events, lim, todo, fit, cur, cmd>>

\* The last check_stop.
Guard(m) ==
  /\ pc[m] = "guard"
  /\ IF stop[m] THEN Return(m, "stopped")
                ELSE Goto(m, "click") /\ UNCHANGED res
  /\ UNCHANGED <<store, history, events, lim, todo, fit, cur, cmd>>

Click(m) ==
  /\ pc[m] = "click"
  /\ clicks' = [clicks EXCEPT ![cur[m]] = IF @ = 0 THEN 1 ELSE 2]
  /\ Goto(m, "receipt")
  /\ UNCHANGED <<store, overwritten, word, events, run, cmd>>

\* A new visible confirmation, or none in time.
Receipt(m) ==
  /\ pc[m] = "receipt"
  /\ \E s \in {"submitted", "uncertain"} : Return(m, s)
  /\ UNCHANGED <<store, history, events, lim, todo, fit, cur, cmd>>

\* Mutant: a stop that arrives during the attempt decides its outcome.
Record_stopWins(m) ==
  /\ pc[m] = "record"
  /\ \/ Put(cur[m], IF stop[m] THEN "stopped" ELSE res[m]) /\ Goto(m, "next")
     \/ UNCHANGED status /\ Goto(m, "handle")
  /\ res' = [res EXCEPT ![m] = "none"]
  /\ UNCHANGED <<match, enabled, limit, ready, attempts, history, events, lim, todo, fit, cur, cmd>>

\* set_status with the answer; it may raise.
Record(m) ==
  /\ pc[m] = "record"
  /\ \/ Put(cur[m], res[m]) /\ Goto(m, "next")
     \/ UNCHANGED status /\ Goto(m, "handle")
  /\ res' = [res EXCEPT ![m] = "none"]
  /\ UNCHANGED <<match, enabled, limit, ready, attempts, history, events, lim, todo, fit, cur, cmd>>

\* Mutant: every exception counts as a failure before the click.
Handle_failed(m) ==
  /\ pc[m] = "handle"
  /\ \/ /\ Put(cur[m], "unsent")
        /\ Goto(m, "next")
        /\ UNCHANGED todo
     \/ /\ Leave(m)
        /\ UNCHANGED status
  /\ UNCHANGED <<match, enabled, limit, ready, attempts, history, stop, shut, scanReq, lim, fit, cur, res, cmd>>

\* The except clause: what the store says decides; it may raise as well.
Handle(m) ==
  /\ pc[m] = "handle"
  /\ \/ /\ Put(cur[m], IF status[cur[m]] = "submitting" THEN "uncertain" ELSE "unsent")
        /\ Goto(m, "next")
        /\ UNCHANGED todo
     \/ /\ Leave(m)
        /\ UNCHANGED status
  /\ UNCHANGED <<match, enabled, limit, ready, attempts, history, stop, shut, scanReq, lim, fit, cur, res, cmd>>

\* Mutant: a run that was stopped does not reset `busy`.
Done_unlessStopped(m) ==
  /\ pc[m] = "done" /\ Free(m) /\ ~stop[m]
  /\ Goto(m, "wait")
  /\ cur' = [cur EXCEPT ![m] = NoJob]
  /\ lim' = [lim EXCEPT ![m] = 0]
  /\ fit' = [fit EXCEPT ![m] = {}]
  /\ UNCHANGED <<store, history, events, todo, res, cmd>>

\* The finally clause, under the lock.  It reads the preferences as well,
\* and an error there ends the thread.
Done(m) ==
  /\ pc[m] = "done" /\ Free(m)
  /\ \/ Goto(m, "wait")
     \/ ~stop[m] /\ Goto(m, "none")
  /\ cur' = [cur EXCEPT ![m] = NoJob]
  /\ lim' = [lim EXCEPT ![m] = 0]
  /\ fit' = [fit EXCEPT ![m] = {}]
  /\ UNCHANGED <<store, history, events, todo, res, cmd>>

-----------------------------------------------------------------------------
Worker(m) ==
  \/ Wake(m) \/ WorkerExit(m) \/ Scan(m) \/ RunFails(m) \/ Plan(m) \/ Enqueue(m) \/ List(m)
  \/ NextJob(m) \/ Unfit(m) \/ Claim(m) \/ ClaimRefused(m) \/ Form(m) \/ Mark(m) \/ Guard(m)
  \/ Click(m) \/ Receipt(m) \/ Record(m) \/ Handle(m) \/ Done(m)

Command(m) ==
  \/ Start(m) \/ RequestScan(m) \/ StopBegin(m) \/ Configure(m)
  \/ \E j \in Jobs : Apply(m, j) \/ SkipRead(m, j) \/ ConfirmRead(m, j)

\* The second half of a command, which only has to go on.
Finish(m) == StopEnd(m) \/ SkipWrite(m) \/ ConfirmWrite(m)

Init ==
  /\ status = [j \in Jobs |-> "absent"] /\ match = {}
  /\ enabled = FALSE /\ limit \in Limits /\ ready \in BOOLEAN /\ attempts = 0
  /\ clicks = [j \in Jobs |-> 0] /\ overwritten = {}
  /\ halted = FALSE /\ leftover = {}
  /\ pc = [m \in Managers |-> "off"]
  /\ stop = [m \in Managers |-> FALSE] /\ shut = [m \in Managers |-> FALSE]
  /\ scanReq = [m \in Managers |-> FALSE]
  /\ lim = [m \in Managers |-> 0]
  /\ todo = [m \in Managers |-> {}] /\ fit = [m \in Managers |-> {}]
  /\ cur = [m \in Managers |-> NoJob] /\ res = [m \in Managers |-> "none"]
  /\ cmd = [m \in Managers |-> NoCmd]

Next ==
  \/ Midnight
  \/ \E m \in Managers : Boot(m) \/ Close(m) \/ Exit(m)
                         \/ Command(m) \/ Finish(m) \/ Worker(m)

Spec == Init /\ [][Next]_vars

\* A running thread goes on: the browser calls and the store calls it makes
\* all have time limits.  Commands hold the lock for moments only, so the end
\* of a run, which needs it, does not lose it to them for ever.  Nothing is
\* assumed of the applicant or of the clock.
FairSpec ==
  Spec /\ \A m \in Managers : WF_vars(Worker(m)) /\ WF_vars(Finish(m)) /\ SF_vars(Done(m))

-----------------------------------------------------------------------------
(* Properties.                                                             *)

\* docs/JOBS.md, "Receipts and duplicate prevention": the employer's button
\* is pressed at most once per job, over crashes, restarts, stops and
\* retries, unless another thread replaced the record of the attempt.
AtMostOneSubmission == \A j \in Jobs \ overwritten : clicks[j] <= 1

\* A job whose button was pressed stays in a status that store.queue
\* refuses, whatever failed after the click.
AttemptIsRemembered ==
  \A j \in Jobs \ overwritten :
    clicks[j] > 0 => status[j] \in {"submitting", "submitted", "uncertain"}

\* "An atomic claim prevents two workers from claiming the same queued record."
OneWorkerPerJob ==
  \A j \in Jobs \ overwritten : \A m, n \in Managers :
    Holds(m, j) /\ Holds(n, j) => m = n

\* Where the worker stands in an attempt and what the store says of it agree,
\* and a job waiting for its confirmation to be written stays closed: the
\* strengthening that makes the three invariants above inductive.
RecordAgrees ==
  \A j \in Jobs \ overwritten : \A m \in Managers :
    /\ Holds(m, j) =>
         /\ status[j] = "applying" \/ status[j] = "submitting"
         /\ pc[m] \in {"form", "mark"} => status[j] = "applying"
         /\ pc[m] \in {"guard", "click", "receipt"} => status[j] = "submitting"
         /\ clicks[j] > 0 => /\ pc[m] \in {"receipt", "record", "handle"}
                             /\ pc[m] = "record" => res[m] \in {"submitted", "uncertain"}
    /\ cmd[m].op = "confirm" /\ cmd[m].job = j => status[j] \in {"uncertain", "submitted"}

\* With one manager no attempt starts beyond the daily limit now configured,
\* although the run read it once: configure is refused during a run.
ClaimWithinLimit == [][attempts' > attempts => attempts < limit]_vars

\* With one manager, once the stop command is complete no application begins
\* before the applicant asks again, wherever the worker was and over restarts: but
\* for a job that the run was about to queue while the stop emptied the queue, and
\* that one not before another manager is there.  (get_manager starts a worker when
\* a job is queued, also if auto-apply is off.  close() sets the same event without
\* emptying the queue.)
StopHolds ==
  [][\A m \in Managers : pc[m] = "claim" /\ pc'[m] = "form" =>
       /\ halted => cur[m] \in leftover
       /\ stop[m] /\ ~shut[m] => cmd[m].op = "stop"]_vars

\* Every run ends, also when jobs are queued again while it goes on: the
\* worker iterates over a listing it took once.
RunEnds == \A m \in Managers : Busy(m) ~> ~Busy(m)

\* The record of an attempt, as the abstract ledger sees it.
Ledger(j) == CASE status[j] \in {"applying", "submitting"} -> "trying"
               [] status[j] \in {"submitted", "uncertain"} -> "closed"
               [] OTHER -> "open"

Once == INSTANCE ApplicationOnce
          WITH ledger <- [j \in Jobs |-> Ledger(j)], sent <- clicks

\* With one manager and no skip, the three components implement
\* ApplicationOnce.
ImplementsOnce == Once!OnceSpec

\* jobs/manager.py, command: "An active or attempted submission cannot be skipped".
NoAttemptSkipped ==
  [][\A j \in Jobs : status[j] \in TERMINAL => status'[j] # "skipped"]_vars
=============================================================================
