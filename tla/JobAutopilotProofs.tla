------------------------- MODULE JobAutopilotProofs -------------------------
(***************************************************************************)
(* Theorems about JobAutopilot, for every number of jobs and of managers   *)
(* over one store, every set of commands and every daily limit.            *)
(***************************************************************************)
EXTENDS JobAutopilot, TLAPS

\* Every variable keeps its type, and a worker inside an application has a
\* job: the type invariant of JobManager, JobStore and the worker thread.
THEOREM TypeCorrect == Spec => []TypeOK
<1>1. Init => TypeOK
  <2> SUFFICES ASSUME Init PROVE TypeOK
    OBVIOUS
  <2> USE DEF Init, Status, TERMINAL, Place, Idle, Results, NoCmd, Hold
  <2>1. /\ status \in [Jobs -> Status] /\ match \subseteq Jobs
        /\ limit \in Limits /\ attempts \in Nat
    OBVIOUS
  <2>2. clicks \in [Jobs -> 0..2] /\ overwritten \subseteq Jobs
    OBVIOUS
  <2>3. pc \in [Managers -> Place]
    OBVIOUS
  <2>4. /\ enabled \in BOOLEAN /\ ready \in BOOLEAN
        /\ stop \in [Managers -> BOOLEAN] /\ shut \in [Managers -> BOOLEAN]
        /\ scanReq \in [Managers -> BOOLEAN]
    OBVIOUS
  <2>5. /\ lim \in [Managers -> Limits \cup {0}]
        /\ todo \in [Managers -> SUBSET Jobs] /\ fit \in [Managers -> SUBSET Jobs]
        /\ cur \in [Managers -> Jobs \cup {NoJob}]
        /\ res \in [Managers -> Results]
    OBVIOUS
  <2>6. cmd \in [Managers -> [op: {"none", "stop", "skip", "confirm"}, job: Jobs \cup {NoJob}]]
    OBVIOUS
  <2>7. /\ \A m \in Managers : pc[m] = "off" /\ cmd[m].op = "none"
    OBVIOUS
  <2> QED BY <2>1, <2>2, <2>3, <2>4, <2>5, <2>6, <2>7 DEF TypeOK
<1>2. TypeOK /\ [Next]_vars => TypeOK'
  <2> SUFFICES ASSUME TypeOK, [Next]_vars PROVE TypeOK'
    OBVIOUS
  <2> USE LimitsAssumption
      DEF TypeOK, Status, TERMINAL, Place, Idle, Hold, Results, store, history, word, run, events
  <2>1. CASE Midnight
    BY <2>1 DEF Midnight
  <2>2. ASSUME NEW m \in Managers, Boot(m) PROVE TypeOK'
    BY <2>2 DEF Boot, Recover, With
  <2>3. ASSUME NEW m \in Managers, Close(m) PROVE TypeOK'
    BY <2>3 DEF Close
  <2>4. ASSUME NEW m \in Managers, Exit(m) PROVE TypeOK'
    BY <2>4 DEF Exit, NoCmd
  <2>5. ASSUME NEW m \in Managers, Command(m) PROVE TypeOK'
    <3>1. CASE Start(m)
      BY <3>1 DEF Start, Ask, EnsureWorker
    <3>2. CASE RequestScan(m)
      BY <3>2 DEF RequestScan, Ask, EnsureWorker
    <3>3. CASE StopBegin(m)
      BY <3>3 DEF StopBegin
    <3>4. CASE Configure(m)
      BY <3>4 DEF Configure
    <3>5. ASSUME NEW j \in Jobs, Apply(m, j) PROVE TypeOK'
      BY <3>5 DEF Apply, Ask, EnsureWorker, Put
    <3>6. ASSUME NEW j \in Jobs, SkipRead(m, j) PROVE TypeOK'
      BY <3>6 DEF SkipRead, ReadThenWrite
    <3>7. ASSUME NEW j \in Jobs, ConfirmRead(m, j) PROVE TypeOK'
      BY <3>7 DEF ConfirmRead, ReadThenWrite
    <3> QED BY <2>5, <3>1, <3>2, <3>3, <3>4, <3>5, <3>6, <3>7 DEF Command
  <2>6. ASSUME NEW m \in Managers, Finish(m) PROVE TypeOK'
    <3>1. CASE StopEnd(m)
      BY <3>1 DEF StopEnd, AboutToQueue, NoCmd
    <3>2. CASE SkipWrite(m)
      BY <3>2 DEF SkipWrite, Replace, Put, NoCmd
    <3>3. CASE ConfirmWrite(m)
      BY <3>3 DEF ConfirmWrite, Put, NoCmd
    <3> QED BY <2>6, <3>1, <3>2, <3>3 DEF Finish
  <2>7. ASSUME NEW m \in Managers, Worker(m) PROVE TypeOK'
    <3> USE DEF Goto, Leave, Return, Put
    <3>1. CASE Wake(m)
      BY <3>1 DEF Wake
    <3>2. CASE WorkerExit(m)
      BY <3>2 DEF WorkerExit
    <3>3. CASE Scan(m)
      <4>1. /\ status' \in [Jobs -> Status] /\ match' \subseteq Jobs
        <5>1. CASE stop[m]
          BY <3>3, <5>1 DEF Scan
        <5>2. CASE ~stop[m]
          <6>1. /\ \E new \in SUBSET Jobs :
                     status' = [j \in Jobs |-> IF j \in new THEN "discovered" ELSE status[j]]
                /\ match' \subseteq Jobs
            BY <3>3, <5>2, Zenon DEF Scan, With
          <6> QED BY <6>1
        <5> QED BY <5>1, <5>2
      <4> QED BY <3>3, <4>1 DEF Scan
    <3>4. CASE RunFails(m)
      BY <3>4 DEF RunFails
    <3>5. CASE Plan(m)
      <4>1. CASE stop[m] \/ ~ready
        <5>1. pc' = [pc EXCEPT ![m] = "done"] /\ todo' = [todo EXCEPT ![m] = {}] /\ lim' = lim
          BY <3>5, <4>1, Zenon DEF Plan
        <5> QED BY <3>5, <5>1 DEF Plan
      <4>2. CASE ~(stop[m] \/ ~ready)
        <5>1. PICK S \in SUBSET Jobs : todo' = [todo EXCEPT ![m] = S]
          BY <3>5, <4>2, Zenon DEF Plan, With
        <5>2. pc' = [pc EXCEPT ![m] = "enqueue"] /\ lim' = [lim EXCEPT ![m] = limit]
          BY <3>5, <4>2, Zenon DEF Plan
        <5> QED BY <3>5, <5>1, <5>2 DEF Plan
      <4> QED BY <4>1, <4>2
    <3>6. CASE Enqueue(m)
      BY <3>6 DEF Enqueue
    <3>7. CASE List(m)
      BY <3>7 DEF List, With
    <3>8. CASE NextJob(m)
      <4>1. CASE stop[m] \/ shut[m] \/ todo[m] = {}
        <5>1. pc' = [pc EXCEPT ![m] = "done"] /\ todo' = [todo EXCEPT ![m] = {}] /\ cur' = cur
          BY <3>8, <4>1, Zenon DEF NextJob
        <5> QED BY <3>8, <5>1 DEF NextJob
      <4>2. CASE ~(stop[m] \/ shut[m] \/ todo[m] = {})
        <5>1. PICK j \in todo[m] : /\ cur' = [cur EXCEPT ![m] = j]
                                  /\ todo' = [todo EXCEPT ![m] = @ \ {j}]
                                  /\ pc' = [pc EXCEPT ![m] = IF j \in fit[m] THEN "claim" ELSE "unfit"]
          BY <3>8, <4>2, Zenon DEF NextJob
        <5> QED BY <3>8, <5>1 DEF NextJob
      <4> QED BY <4>1, <4>2
    <3>9. CASE Unfit(m)
      BY <3>9 DEF Unfit, Replace
    <3>10. CASE Claim(m)
      BY <3>10 DEF Claim
    <3>11. CASE ClaimRefused(m)
      BY <3>11 DEF ClaimRefused
    <3>12. CASE Form(m)
      BY <3>12, ZenonT(30) DEF Form
    <3>13. CASE Mark(m)
      <4>1. CASE stop[m]
        BY <3>13, <4>1, ZenonT(30) DEF Mark
      <4>2. CASE ~stop[m]
        <5>1. CASE status' = status /\ pc' = [pc EXCEPT ![m] = "record"] /\ res' = [res EXCEPT ![m] = "unsent"]
          BY <3>13, <5>1 DEF Mark
        <5>2. CASE status' = [status EXCEPT ![cur[m]] = "submitting"] /\ pc' = [pc EXCEPT ![m] = "guard"] /\ res' = res
          BY <3>13, <5>2 DEF Mark
        <5> QED BY <3>13, <4>2, <5>1, <5>2, Zenon DEF Mark
      <4> QED BY <4>1, <4>2
    <3>14. CASE Guard(m)
      <4>1. CASE stop[m]
        BY <3>14, <4>1, ZenonT(30) DEF Guard
      <4>2. CASE ~stop[m]
        BY <3>14, <4>2 DEF Guard
      <4> QED BY <4>1, <4>2
    <3>15. CASE Click(m)
      BY <3>15 DEF Click
    <3>16. CASE Receipt(m)
      BY <3>16 DEF Receipt
    <3>17. CASE Record(m)
      <4>1. cur[m] \in Jobs /\ res[m] \in Status
        BY <3>17 DEF Record
      <4>2. status' \in [Jobs -> Status]
        BY <3>17, <4>1 DEF Record
      <4>3. /\ pc' = [pc EXCEPT ![m] = "next"] \/ pc' = [pc EXCEPT ![m] = "handle"]
            /\ res' = [res EXCEPT ![m] = "none"]
        BY <3>17, Zenon DEF Record
      <4> QED BY <3>17, <4>2, <4>3, ZenonT(30) DEF Record
    <3>18. CASE Handle(m)
      BY <3>18, ZenonT(30) DEF Handle
    <3>19. CASE Done(m)
      BY <3>19, SMTT(30) DEF Done
    <3> QED BY <2>7, <3>1, <3>2, <3>3, <3>4, <3>5, <3>6, <3>7, <3>8, <3>9, <3>10, <3>11, <3>12,
               <3>13, <3>14, <3>15, <3>16, <3>17, <3>18, <3>19 DEF Worker
  <2>8. CASE UNCHANGED vars
    BY <2>8 DEF vars
  <2> QED BY <2>1, <2>2, <2>3, <2>4, <2>5, <2>6, <2>7, <2>8 DEF Next
<1> QED BY <1>1, <1>2, PTL DEF Spec

-----------------------------------------------------------------------------
\* What the three invariants and RecordAgrees say of one job.
JobInv(j) ==
  /\ clicks[j] = 0 \/ clicks[j] = 1
  /\ clicks[j] = 1 => status[j] \in {"submitting", "submitted", "uncertain"}
  /\ \A m, n \in Managers : Holds(m, j) /\ Holds(n, j) => m = n
  /\ \A m \in Managers :
       /\ Holds(m, j) =>
            /\ status[j] = "applying" \/ status[j] = "submitting"
            /\ pc[m] \in {"form", "mark"} => status[j] = "applying"
            /\ pc[m] \in {"guard", "click", "receipt"} => status[j] = "submitting"
            /\ clicks[j] = 1 => /\ pc[m] \in {"receipt", "record", "handle"}
                                /\ pc[m] = "record" => res[m] \in {"submitted", "uncertain"}
       /\ cmd[m].op = "confirm" /\ cmd[m].job = j => status[j] \in {"uncertain", "submitted"}

Inv == \A j \in Jobs \ overwritten : JobInv(j)

\* An overwritten record stays marked: the history only grows.
LEMMA OverwrittenGrows == [Next]_vars => overwritten \subseteq overwritten'
<1> SUFFICES ASSUME [Next]_vars PROVE overwritten \subseteq overwritten'
  OBVIOUS
<1> USE DEF store, history, word, run, events
<1>1. CASE Midnight \/ UNCHANGED vars
  BY <1>1 DEF Midnight, vars
<1>2. ASSUME NEW m \in Managers, Boot(m) \/ Close(m) \/ Exit(m)
      PROVE  overwritten \subseteq overwritten'
  BY <1>2 DEF Boot, Recover, Close, Exit
<1>3. ASSUME NEW m \in Managers, Command(m) PROVE overwritten \subseteq overwritten'
  BY <1>3 DEF Command, Start, RequestScan, StopBegin, Configure, Apply, SkipRead, ConfirmRead,
              ReadThenWrite
<1>4. ASSUME NEW m \in Managers, Finish(m) PROVE overwritten \subseteq overwritten'
  BY <1>4 DEF Finish, StopEnd, SkipWrite, ConfirmWrite, Replace
<1>5. ASSUME NEW m \in Managers, Worker(m) PROVE overwritten \subseteq overwritten'
  BY <1>5 DEF Worker, Wake, WorkerExit, Scan, RunFails, Plan, Enqueue, List, NextJob, Unfit, Replace,
              Claim, ClaimRefused, Form, Mark, Guard, Click, Receipt, Record, Handle, Done
<1> QED BY <1>1, <1>2, <1>3, <1>4, <1>5 DEF Next

\* Every step of every thread keeps what is known of every job: the store
\* call of the step is compared with where each worker stands.
LEMMA InvStep == TypeOK /\ Inv /\ [Next]_vars => Inv'
<1> SUFFICES ASSUME TypeOK, Inv, [Next]_vars, NEW j \in Jobs, j \notin overwritten'
             PROVE  JobInv(j)'
  BY DEF Inv
<1>0. j \notin overwritten /\ JobInv(j)
  BY OverwrittenGrows DEF Inv
<1> USE <1>0 DEF TypeOK, Status, TERMINAL, Place, Idle, Hold, Results, JobInv, Holds,
                 store, history, word, run, events
<1>1. CASE Midnight
  BY <1>1 DEF Midnight
<1>2. ASSUME NEW m \in Managers, Boot(m) PROVE JobInv(j)'
  BY <1>2 DEF Boot, Recover, With
<1>3. ASSUME NEW m \in Managers, Close(m) PROVE JobInv(j)'
  BY <1>3 DEF Close
<1>4. ASSUME NEW m \in Managers, Exit(m) PROVE JobInv(j)'
  BY <1>4 DEF Exit, NoCmd
<1>5. ASSUME NEW m \in Managers, Command(m) PROVE JobInv(j)'
  <2>1. CASE Start(m)
    BY <2>1 DEF Start, Ask, EnsureWorker
  <2>2. CASE RequestScan(m)
    BY <2>2 DEF RequestScan, Ask, EnsureWorker
  <2>3. CASE StopBegin(m)
    BY <2>3 DEF StopBegin
  <2>4. CASE Configure(m)
    BY <2>4 DEF Configure
  <2>5. ASSUME NEW i \in Jobs, Apply(m, i) PROVE JobInv(j)'
    BY <2>5 DEF Apply, Ask, EnsureWorker, Put
  <2>6. ASSUME NEW i \in Jobs, SkipRead(m, i) PROVE JobInv(j)'
    BY <2>6 DEF SkipRead, ReadThenWrite
  <2>7. ASSUME NEW i \in Jobs, ConfirmRead(m, i) PROVE JobInv(j)'
    BY <2>7 DEF ConfirmRead, ReadThenWrite
  <2> QED BY <1>5, <2>1, <2>2, <2>3, <2>4, <2>5, <2>6, <2>7 DEF Command
<1>6. ASSUME NEW m \in Managers, Finish(m) PROVE JobInv(j)'
  <2>1. CASE StopEnd(m)
    BY <2>1 DEF StopEnd, NoCmd
  <2>2. CASE SkipWrite(m)
    BY <2>2 DEF SkipWrite, Replace, Put, NoCmd
  <2>3. CASE ConfirmWrite(m)
    BY <2>3 DEF ConfirmWrite, Put, NoCmd
  <2> QED BY <1>6, <2>1, <2>2, <2>3 DEF Finish
<1>7. ASSUME NEW m \in Managers, Worker(m) PROVE JobInv(j)'
  <2> USE DEF Goto, Leave, Return, Put
  <2>1. CASE Wake(m)
    BY <2>1 DEF Wake
  <2>2. CASE WorkerExit(m)
    BY <2>2 DEF WorkerExit
  <2>3. CASE Scan(m)
    <3>1. /\ pc[m] = "scan" /\ pc' = [pc EXCEPT ![m] = "plan"]
          /\ UNCHANGED <<clicks, cur, res, cmd>>
      BY <2>3 DEF Scan
    <3>2. status'[j] = status[j] \/ status[j] = "absent"
      BY <2>3 DEF Scan, With
    <3>3. \A n \in Managers : Holds(n, j)' <=> Holds(n, j)
      BY <3>1
    <3> QED BY <3>1, <3>2, <3>3
  <2>4. CASE RunFails(m)
    BY <2>4 DEF RunFails
  <2>5. CASE Plan(m)
    BY <2>5, SMTT(30) DEF Plan, With
  <2>6. CASE Enqueue(m)
    BY <2>6 DEF Enqueue
  <2>7. CASE List(m)
    BY <2>7 DEF List, With
  <2>8. CASE NextJob(m)
    <3>1. CASE pc' = [pc EXCEPT ![m] = "done"] /\ cur' = cur
      BY <2>8, <3>1 DEF NextJob
    <3>2. ASSUME NEW i \in Jobs, cur' = [cur EXCEPT ![m] = i],
                 pc' = [pc EXCEPT ![m] = IF i \in fit[m] THEN "claim" ELSE "unfit"]
          PROVE  JobInv(j)'
      BY <2>8, <3>2 DEF NextJob
    <3> QED BY <2>8, <3>1, <3>2, Zenon DEF NextJob
  <2>9. CASE Unfit(m)
    BY <2>9 DEF Unfit, Replace
  <2>10. CASE Claim(m)
    BY <2>10 DEF Claim, Claimable
  <2>11. CASE ClaimRefused(m)
    BY <2>11 DEF ClaimRefused
  <2>12. CASE Form(m)
    <3>1. CASE pc' = [pc EXCEPT ![m] = "mark"] /\ res' = res
      BY <2>12, <3>1 DEF Form
    <3>2. ASSUME NEW r, pc' = [pc EXCEPT ![m] = "record"], res' = [res EXCEPT ![m] = r]
          PROVE  JobInv(j)'
      BY <2>12, <3>2 DEF Form
    <3> QED BY <2>12, <3>1, <3>2, Zenon DEF Form
  <2>13. CASE Mark(m)
    BY <2>13 DEF Mark
  <2>14. CASE Guard(m)
    <3>1. CASE pc' = [pc EXCEPT ![m] = "click"] /\ res' = res
      BY <2>14, <3>1 DEF Guard
    <3>2. CASE pc' = [pc EXCEPT ![m] = "record"] /\ res' = [res EXCEPT ![m] = "stopped"]
      BY <2>14, <3>2 DEF Guard
    <3> QED BY <2>14, <3>1, <3>2, Zenon DEF Guard
  <2>15. CASE Click(m)
    <3>1. CASE cur[m] = j
      <4>1. clicks[j] = 0 /\ status[j] = "submitting"
        BY <2>15, <3>1 DEF Click
      <4>2. clicks'[j] = 1 /\ \A n \in Managers : Holds(n, j) => n = m
        BY <2>15, <3>1, <4>1 DEF Click
      <4> QED BY <2>15, <3>1, <4>1, <4>2 DEF Click
    <3>2. CASE cur[m] # j
      BY <2>15, <3>2 DEF Click
    <3> QED BY <3>1, <3>2
  <2>16. CASE Receipt(m)
    BY <2>16 DEF Receipt
  <2>17. CASE Record(m)
    BY <2>17 DEF Record
  <2>18. CASE Handle(m)
    <3>1. CASE status' = status /\ pc' = [pc EXCEPT ![m] = "done"]
      BY <2>18, <3>1 DEF Handle
    <3>2. CASE /\ status' = [status EXCEPT ![cur[m]] =
                               IF status[cur[m]] = "submitting" THEN "uncertain" ELSE "unsent"]
               /\ pc' = [pc EXCEPT ![m] = "next"]
      BY <2>18, <3>2 DEF Handle
    <3> QED BY <2>18, <3>1, <3>2, Zenon DEF Handle
  <2>19. CASE Done(m)
    BY <2>19 DEF Done
  <2> QED BY <1>7, <2>1, <2>2, <2>3, <2>4, <2>5, <2>6, <2>7, <2>8, <2>9, <2>10, <2>11, <2>12,
             <2>13, <2>14, <2>15, <2>16, <2>17, <2>18, <2>19 DEF Worker
<1>8. CASE UNCHANGED vars
  BY <1>8 DEF vars
<1> QED BY <1>1, <1>2, <1>3, <1>4, <1>5, <1>6, <1>7, <1>8 DEF Next

LEMMA InvHolds == Spec => []Inv
<1>1. Init => Inv
  BY DEF Init, Inv, JobInv, Holds, Hold, NoCmd
<1> QED BY <1>1, InvStep, TypeCorrect, PTL DEF Spec

\* docs/JOBS.md, duplicate prevention: whatever crashes, restarts, stops and
\* retries happen, no job gets a second Submit click, unless another thread
\* replaced the record of the attempt (SkipWrite, Unfit, or the recover of a
\* second manager).
THEOREM AtMostOnce == Spec => []AtMostOneSubmission
<1>1. TypeOK /\ Inv => AtMostOneSubmission
  BY DEF Inv, JobInv, AtMostOneSubmission
<1> QED BY <1>1, InvHolds, TypeCorrect, PTL

\* A job whose button was pressed keeps a status that store.queue refuses.
THEOREM Remembered == Spec => []AttemptIsRemembered
<1>1. TypeOK /\ Inv => AttemptIsRemembered
  BY DEF Inv, JobInv, AttemptIsRemembered, TypeOK
<1> QED BY <1>1, InvHolds, TypeCorrect, PTL

\* Two workers never apply to the same job: store.claim is exclusive.
THEOREM ExclusiveClaim == Spec => []OneWorkerPerJob
<1>1. Inv => OneWorkerPerJob
  BY DEF Inv, JobInv, OneWorkerPerJob
<1> QED BY <1>1, InvHolds, PTL

\* The worker's position and the stored record agree throughout an attempt.
THEOREM Agreement == Spec => []RecordAgrees
<1>1. TypeOK /\ Inv => RecordAgrees
  BY DEF Inv, JobInv, RecordAgrees, TypeOK
<1> QED BY <1>1, InvHolds, TypeCorrect, PTL

-----------------------------------------------------------------------------
\* One manager over the store.
Alone == \A m, n \in Managers : m = n

\* During a run the settings stay as the run read them, and after a complete
\* Stop the job that is about to be claimed is no longer queued.
Kept(m) ==
  /\ pc[m] \in {"enqueue", "next", "unfit", "claim"} \cup Hold => lim[m] = limit
  /\ pc[m] = "claim" /\ stop[m] /\ ~shut[m] /\ cmd[m].op # "stop" => status[cur[m]] # "queued"

\* After a complete Stop nothing is queued but what a run was about to queue, and
\* no run plans more.
Quiet(m) ==
  /\ cmd[m].op = "stop" => ~enabled
  /\ halted => /\ ~enabled
               /\ \A j \in Jobs : status[j] = "queued" => j \in leftover
               /\ pc[m] = "enqueue" => todo[m] \subseteq leftover

RunInv == \A m \in Managers : Kept(m) /\ Quiet(m)

LEMMA RunInvStep ==
  ASSUME TypeOK, RunInv, Alone, [Next]_vars
  PROVE  RunInv'
<1> SUFFICES ASSUME NEW m \in Managers, \A n \in Managers : n = m
             PROVE  Kept(m)' /\ Quiet(m)'
  BY DEF RunInv, Alone
<1> USE DEF TypeOK, Status, TERMINAL, Place, Idle, Hold, Results, RunInv,
            store, history, word, run, events
<1>1. CASE Midnight \/ UNCHANGED vars
  BY <1>1 DEF Midnight, vars, Kept, Quiet
<1>2. CASE Boot(m)
  BY <1>2 DEF Boot, Recover, With, Kept, Quiet
<1>3. CASE Close(m) \/ Exit(m)
  BY <1>3 DEF Close, Exit, NoCmd, Kept, Quiet
<1>4. CASE Command(m)
  <2> USE DEF Kept, Quiet
  <2>1. CASE Start(m) \/ RequestScan(m)
    BY <2>1 DEF Start, RequestScan, Ask, EnsureWorker, Callable, Stopping, Busy, Free
  <2>2. CASE StopBegin(m)
    BY <2>2 DEF StopBegin
  <2>3. CASE Configure(m)
    BY <2>3 DEF Configure, Busy
  <2>4. ASSUME NEW i \in Jobs, Apply(m, i) PROVE Kept(m)' /\ Quiet(m)'
    BY <2>4 DEF Apply, Ask, EnsureWorker, Put, Callable, Stopping, Busy, Free
  <2>5. ASSUME NEW i \in Jobs, SkipRead(m, i) \/ ConfirmRead(m, i) PROVE Kept(m)' /\ Quiet(m)'
    BY <2>5 DEF SkipRead, ConfirmRead, ReadThenWrite, Callable, Free
  <2> QED BY <1>4, <2>1, <2>2, <2>3, <2>4, <2>5 DEF Command
<1>5. CASE Finish(m)
  <2>1. CASE StopEnd(m)
    <3>1. todo[m] \subseteq leftover' \/ pc[m] # "enqueue"
      BY <2>1 DEF StopEnd, AboutToQueue
    <3> QED BY <2>1, <3>1 DEF StopEnd, NoCmd, Kept, Quiet
  <2>2. CASE SkipWrite(m) \/ ConfirmWrite(m)
    BY <2>2 DEF SkipWrite, ConfirmWrite, Replace, Put, NoCmd, Kept, Quiet
  <2> QED BY <1>5, <2>1, <2>2 DEF Finish
<1>6. CASE Worker(m)
  <2>1. Kept(m)'
    BY <1>6 DEF Worker, Goto, Leave, Return, Put, Wake, WorkerExit, Scan, RunFails, Plan, Enqueue,
       List, NextJob, Unfit, Replace, Claim, ClaimRefused, Form, Mark, Guard, Click, Receipt, Record,
       Handle, Done, With, Kept
  <2>2. Quiet(m)'
    <3> USE DEF Quiet, Goto, Leave, Return, Put
    <3>1. CASE Wake(m) \/ WorkerExit(m) \/ RunFails(m) \/ List(m) \/ NextJob(m) \/ ClaimRefused(m)
      BY <3>1 DEF Wake, WorkerExit, RunFails, List, NextJob, ClaimRefused
    <3>2. CASE Scan(m)
      BY <3>2 DEF Scan, With
    <3>3. CASE Plan(m)
      BY <3>3 DEF Plan
    <3>4. CASE Enqueue(m)
      BY <3>4 DEF Enqueue
    <3>5. CASE Unfit(m) \/ Claim(m)
      BY <3>5 DEF Unfit, Replace, Claim
    <3>6. CASE Form(m) \/ Mark(m) \/ Guard(m) \/ Click(m) \/ Receipt(m)
      BY <3>6 DEF Form, Mark, Guard, Click, Receipt
    <3>7. CASE Record(m) \/ Handle(m) \/ Done(m)
      BY <3>7 DEF Record, Handle, Done
    <3> QED BY <1>6, <3>1, <3>2, <3>3, <3>4, <3>5, <3>6, <3>7 DEF Worker
  <2> QED BY <2>1, <2>2
<1> QED BY <1>1, <1>2, <1>3, <1>4, <1>5, <1>6 DEF Next

LEMMA RunInvHolds == Alone => (Spec => []RunInv)
<1> SUFFICES ASSUME Alone PROVE Spec => []RunInv
  OBVIOUS
<1>1. Init => RunInv
  BY DEF Init, RunInv, Kept, Quiet, Hold, NoCmd
<1> QED BY <1>1, RunInvStep, TypeCorrect, PTL DEF Spec

\* A step of the worker that counts an attempt or begins an application is the
\* claim; every other step leaves both alone.
LEMMA OnlyClaimBegins ==
  ASSUME TypeOK, [Next]_vars
  PROVE  /\ attempts' > attempts => \E m \in Managers : Claim(m)
         /\ \A m \in Managers : pc[m] = "claim" /\ pc'[m] = "form" => Claim(m)
<1> USE DEF TypeOK, Place, Idle, Hold, store, history, word, run, events
<1>1. CASE Midnight \/ UNCHANGED vars
  BY <1>1 DEF Midnight, vars
<1>2. ASSUME NEW m \in Managers, Boot(m) \/ Close(m) \/ Exit(m) \/ Finish(m)
      PROVE  attempts' = attempts /\ \A n \in Managers : pc[n] = "claim" => pc'[n] # "form"
  BY <1>2 DEF Boot, Close, Exit, Finish, StopEnd, SkipWrite, ConfirmWrite
<1>3. ASSUME NEW m \in Managers, Command(m)
      PROVE  attempts' = attempts /\ \A n \in Managers : pc[n] = "claim" => pc'[n] # "form"
  BY <1>3 DEF Command, Start, RequestScan, StopBegin, Configure, Apply, SkipRead, ConfirmRead,
              ReadThenWrite, EnsureWorker
<1>4. ASSUME NEW m \in Managers, Worker(m), ~Claim(m)
      PROVE  attempts' = attempts /\ \A n \in Managers : pc[n] = "claim" => pc'[n] # "form"
  BY <1>4 DEF Worker, Goto, Leave, Return, Wake, WorkerExit, Scan, RunFails, Plan, Enqueue,
     List, NextJob, Unfit, ClaimRefused, Form, Mark, Guard, Click, Receipt, Record, Handle, Done
<1>5. ASSUME NEW m \in Managers, Claim(m)
      PROVE  \A n \in Managers : pc[n] = "claim" /\ pc'[n] = "form" => n = m
  BY <1>5 DEF Claim, Goto
<1> QED BY <1>1, <1>2, <1>3, <1>4, <1>5 DEF Next

\* With one manager no application begins beyond the limit now configured.
THEOREM ClaimsBounded == Alone => (Spec => ClaimWithinLimit)
<1> SUFFICES ASSUME Alone PROVE Spec => ClaimWithinLimit
  OBVIOUS
<1>1. TypeOK /\ RunInv /\ [Next]_vars => [attempts' > attempts => attempts < limit]_vars
  <2> SUFFICES ASSUME TypeOK, RunInv, [Next]_vars, attempts' > attempts PROVE attempts < limit
    OBVIOUS
  <2>1. PICK m \in Managers : Claim(m)
    BY OnlyClaimBegins
  <2> QED BY <2>1 DEF Claim, Claimable, RunInv, Kept
<1> QED BY <1>1, RunInvHolds, TypeCorrect, PTL DEF Spec, ClaimWithinLimit

\* With one manager, after a complete Stop no application begins before the
\* applicant asks again, over restarts too (command, _apply_queued, get_manager),
\* but for a job that the run was about to queue while the stop emptied the queue;
\* and that one begins in no process that has its stop event still set.
THEOREM StopIsKept == Alone => (Spec => StopHolds)
<1> DEFINE A == \A m \in Managers :
                  pc[m] = "claim" /\ pc'[m] = "form" =>
                    /\ halted => cur[m] \in leftover
                    /\ stop[m] /\ ~shut[m] => cmd[m].op = "stop"
<1> SUFFICES ASSUME Alone PROVE Spec => [][A]_vars
  BY DEF StopHolds
<1>1. TypeOK /\ RunInv /\ [Next]_vars => [A]_vars
  <2> SUFFICES ASSUME TypeOK, RunInv, [Next]_vars, NEW m \in Managers,
                      pc[m] = "claim", pc'[m] = "form"
               PROVE  /\ halted => cur[m] \in leftover
                      /\ stop[m] /\ ~shut[m] => cmd[m].op = "stop"
    OBVIOUS
  <2>1. Claim(m)
    BY OnlyClaimBegins
  <2>2. cur[m] \in Jobs /\ status[cur[m]] = "queued"
    BY <2>1 DEF Claim, Claimable, TypeOK
  <2> QED BY <2>1, <2>2 DEF RunInv, Kept, Quiet
<1> HIDE DEF A
<1> QED BY <1>1, RunInvHolds, TypeCorrect, PTL DEF Spec

-----------------------------------------------------------------------------
\* With one manager and no skip, nobody replaces the record of an attempt: what
\* the run has listed and not yet begun is not an attempt.
Open(m) ==
  LET Loop == {"next", "unfit", "claim"} \cup Hold IN
  /\ cmd[m].op # "skip"
  /\ pc[m] \in Loop => \A j \in todo[m] : status[j] \notin TERMINAL
  /\ pc[m] \in Loop \ {"next"} => cur[m] \notin todo[m]
  /\ pc[m] = "unfit" => status[cur[m]] \notin TERMINAL

OpenInv == overwritten = {} /\ \A m \in Managers : Open(m)

Sole == Alone /\ "skip" \notin Commands

LEMMA OpenStep ==
  ASSUME TypeOK, Inv, OpenInv, Sole, [Next]_vars
  PROVE  OpenInv'
<1> USE DEF TypeOK, Status, TERMINAL, Place, Idle, Hold, Results, Open, store, history, word, run, events
<1>0. overwritten = {} /\ \A m \in Managers : Open(m)
  BY DEF OpenInv
<1>1. CASE Midnight \/ UNCHANGED vars
  BY <1>0, <1>1 DEF Midnight, vars, OpenInv
<1>2. ASSUME NEW m \in Managers, Boot(m) \/ Close(m) \/ Exit(m) \/ Command(m) \/ Finish(m) \/ Worker(m)
      PROVE  OpenInv'
  <2>0. \A n \in Managers : n = m
    BY DEF Sole, Alone
  <2> SUFFICES overwritten' = {} /\ Open(m)'
    BY <2>0 DEF OpenInv
  <2> USE <1>0
  <2>1. CASE Boot(m)
    BY <2>0, <2>1 DEF Boot, Recover, With, Holds
  <2>2. CASE Close(m) \/ Exit(m)
    BY <2>2 DEF Close, Exit, NoCmd
  <2>3. CASE Command(m)
    <3>1. CASE Start(m) \/ RequestScan(m) \/ StopBegin(m) \/ Configure(m)
      BY <3>1 DEF Start, RequestScan, StopBegin, Configure, EnsureWorker
    <3>2. ASSUME NEW i \in Jobs, Apply(m, i) PROVE overwritten' = {} /\ Open(m)'
      BY <3>2 DEF Apply, Ask, EnsureWorker, Put
    <3>3. ASSUME NEW i \in Jobs, ConfirmRead(m, i) PROVE overwritten' = {} /\ Open(m)'
      BY <3>3 DEF ConfirmRead, ReadThenWrite
    <3> QED BY <2>3, <3>1, <3>2, <3>3 DEF Command, SkipRead, ReadThenWrite, Sole
  <2>4. CASE Finish(m)
    <3>1. CASE StopEnd(m)
      BY <3>1 DEF StopEnd, NoCmd
    <3>2. CASE ConfirmWrite(m)
      <4>1. status[cmd[m].job] \in {"uncertain", "submitted"} /\ cmd[m].job \in Jobs
        BY <3>2 DEF ConfirmWrite, Inv, JobInv
      <4> QED BY <3>2, <4>1 DEF ConfirmWrite, Put, NoCmd
    <3> QED BY <2>4, <3>1, <3>2 DEF Finish, SkipWrite
  <2>5. CASE Worker(m)
    <3> USE DEF Goto, Leave, Return, Put
    <3>1. CASE Wake(m) \/ WorkerExit(m) \/ RunFails(m) \/ Plan(m) \/ Enqueue(m) \/ Scan(m)
      BY <3>1 DEF Wake, WorkerExit, RunFails, Plan, Enqueue, Scan
    <3>2. CASE List(m)
      BY <3>2 DEF List, With
    <3>3. CASE NextJob(m)
      BY <3>3 DEF NextJob
    <3>4. CASE Unfit(m)
      BY <3>4 DEF Unfit, Replace
    <3>5. CASE Claim(m)
      BY <3>5 DEF Claim
    <3>6. CASE ClaimRefused(m) \/ Form(m) \/ Guard(m) \/ Click(m) \/ Receipt(m) \/ Done(m)
      BY <3>6 DEF ClaimRefused, Form, Guard, Click, Receipt, Done
    <3>7. CASE Mark(m) \/ Record(m) \/ Handle(m)
      BY <3>7 DEF Mark, Record, Handle
    <3> QED BY <2>5, <3>1, <3>2, <3>3, <3>4, <3>5, <3>6, <3>7 DEF Worker
  <2> QED BY <1>2, <2>1, <2>2, <2>3, <2>4, <2>5
<1> QED BY <1>1, <1>2 DEF Next

LEMMA OpenHolds == Sole => (Spec => []OpenInv)
<1> SUFFICES ASSUME Sole PROVE Spec => []OpenInv
  OBVIOUS
<1>1. Init => OpenInv
  BY DEF Init, OpenInv, Open, Hold, NoCmd
<1> QED BY <1>1, OpenStep, InvHolds, TypeCorrect, PTL DEF Spec

-----------------------------------------------------------------------------
\* The ledger's word for a status.
Word(s) == CASE s \in {"applying", "submitting"} -> "trying"
             [] s \in {"submitted", "uncertain"} -> "closed"
             [] OTHER -> "open"

Book == [j \in Jobs |-> Ledger(j)]

\* A store call that replaces one status replaces one entry of the ledger.
LEMMA BookPut ==
  ASSUME TypeOK, NEW j \in Jobs, NEW s \in Status, Put(j, s)
  PROVE  Book' = [Book EXCEPT ![j] = Word(s)]
<1>1. ASSUME NEW k \in Jobs PROVE Ledger(k)' = IF k = j THEN Word(s) ELSE Ledger(k)
  <2>1. status'[k] = IF k = j THEN s ELSE status[k]
    BY DEF TypeOK, Put
  <2> QED BY <2>1 DEF Ledger, Word
<1> QED BY <1>1 DEF Book

\* ... and none when the word stays the same.
LEMMA BookSame ==
  ASSUME TypeOK, \A k \in Jobs : Word(status'[k]) = Word(status[k])
  PROVE  Book' = Book
<1>1. \A k \in Jobs : Ledger(k) = Word(status[k]) /\ Ledger(k)' = Word(status'[k])
  BY DEF Ledger, Word
<1> QED BY <1>1 DEF Book

\* With one manager and no skip, the manager, the store and the browser keep the
\* ledger: every step begins, sends, gives up or closes an attempt, or changes
\* nothing of the ledger and of what the employer received.
THEOREM AutopilotImplementsOnce == Sole => (Spec => ImplementsOnce)
<1> SUFFICES ASSUME Sole PROVE Spec => Once!OnceSpec
  BY DEF ImplementsOnce
<1>1. Init => Once!OnceInit
  BY DEF Init, Once!OnceInit, Ledger
<1>2. TypeOK /\ Inv /\ OpenInv /\ [Next]_vars => [Once!OnceNext]_(Once!onceVars)
  <2> SUFFICES ASSUME TypeOK, Inv, OpenInv, [Next]_vars
               PROVE  Once!OnceNext \/ (Book' = Book /\ clicks' = clicks)
    BY DEF Once!onceVars, Book
  <2> USE DEF store, history, word, run, events
  <2>1. CASE status' = status /\ clicks' = clicks
    BY <2>1 DEF Book, Ledger
  <2>2. ASSUME clicks' = clicks, \A k \in Jobs : Word(status'[k]) = Word(status[k])
        PROVE  Book' = Book /\ clicks' = clicks
    BY <2>2, BookSame
  <2>3. CASE Midnight \/ UNCHANGED vars
    BY <2>1, <2>3 DEF Midnight, vars
  <2>4. ASSUME NEW m \in Managers, Close(m) \/ Exit(m) PROVE status' = status /\ clicks' = clicks
    BY <2>4 DEF Close, Exit
  <2>5. ASSUME NEW m \in Managers, Boot(m)
        PROVE  Once!OnceNext \/ (Book' = Book /\ clicks' = clicks)
    <3> DEFINE S == With("applying") \cup With("submitting")
    <3>1. clicks' = clicks /\ status' = [j \in Jobs |-> IF j \in S THEN "uncertain" ELSE status[j]]
      BY <2>5 DEF Boot, Recover
    <3>2. S \in SUBSET Jobs /\ \A j \in S : Book[j] = "trying"
      BY DEF With, Book, Ledger
    <3>3. Book' = [j \in Jobs |-> IF j \in S THEN "closed" ELSE Book[j]]
      BY <3>1 DEF Book, Ledger
    <3>4. CASE S = {}
      BY <3>1, <3>3, <3>4 DEF Book
    <3>5. CASE S # {}
      <4> HIDE DEF S
      <4>1. Once!Close(S)
        BY <3>1, <3>2, <3>3, <3>5 DEF Once!Close, Book
      <4> QED BY <3>2, <4>1 DEF Once!OnceNext
    <3> QED BY <3>4, <3>5
  <2>6. ASSUME NEW m \in Managers, Command(m) \/ Finish(m)
        PROVE  Book' = Book /\ clicks' = clicks
    <3>1. CASE Start(m) \/ RequestScan(m) \/ StopBegin(m) \/ Configure(m)
      BY <2>1, <3>1 DEF Start, RequestScan, StopBegin, Configure, Book, Ledger
    <3>2. ASSUME NEW i \in Jobs, SkipRead(m, i) \/ ConfirmRead(m, i)
          PROVE  status' = status /\ clicks' = clicks
      BY <3>2 DEF SkipRead, ConfirmRead, ReadThenWrite
    <3>3. ASSUME NEW i \in Jobs, Apply(m, i)
          PROVE  clicks' = clicks /\ \A k \in Jobs : Word(status'[k]) = Word(status[k])
      BY <3>3 DEF Apply, Put, TypeOK, Status, TERMINAL, Word
    <3>4. CASE StopEnd(m)
      <4>1. clicks' = clicks /\ \A k \in Jobs : Word(status'[k]) = Word(status[k])
        BY <3>4 DEF StopEnd, Word
      <4> QED BY <2>2, <4>1
    <3>5. CASE ConfirmWrite(m)
      <4>1. status[cmd[m].job] \in {"uncertain", "submitted"} /\ cmd[m].job \in Jobs
        BY <3>5 DEF ConfirmWrite, Inv, JobInv, OpenInv, TypeOK
      <4>2. clicks' = clicks /\ \A k \in Jobs : Word(status'[k]) = Word(status[k])
        BY <3>5, <4>1 DEF ConfirmWrite, Put, TypeOK, Word
      <4> QED BY <2>2, <4>2
    <3>6. ~SkipWrite(m)
      BY DEF SkipWrite, OpenInv, Open
    <3>7. CASE status' = status /\ clicks' = clicks
      BY <3>7 DEF Book, Ledger
    <3> QED BY <2>2, <2>6, <3>1, <3>2, <3>3, <3>4, <3>5, <3>6, <3>7 DEF Command, Finish
  <2>7. ASSUME NEW m \in Managers, Worker(m)
        PROVE  Once!OnceNext \/ (Book' = Book /\ clicks' = clicks)
    <3>1. CASE \/ Wake(m) \/ WorkerExit(m) \/ RunFails(m) \/ Plan(m) \/ List(m) \/ NextJob(m)
               \/ ClaimRefused(m) \/ Form(m) \/ Guard(m) \/ Receipt(m) \/ Done(m)
      BY <2>1, <3>1 DEF Wake, WorkerExit, RunFails, Plan, List, NextJob, ClaimRefused, Form, Guard,
                        Receipt, Done
    <3>2. CASE Scan(m) \/ Enqueue(m) \/ Unfit(m)
      <4>1. clicks' = clicks /\ \A k \in Jobs : Word(status'[k]) = Word(status[k])
        BY <3>2 DEF Scan, Enqueue, Unfit, Replace, Put, With, Word, TypeOK, OpenInv, Open, TERMINAL
      <4> QED BY <2>2, <4>1
    <3> DEFINE j == cur[m]
    <3>3. pc[m] \in Hold \cup {"claim"} => j \in Jobs
      BY DEF TypeOK
    <3>4. pc[m] \in Hold => JobInv(j) /\ Holds(m, j)
      BY <3>3 DEF Inv, OpenInv, Holds
    <3>5. pc[m] \in Hold => Book[j] = "trying" /\ clicks[j] \in {0, 1}
      BY <3>3, <3>4 DEF Book, Ledger, JobInv
    <3>6. ASSUME clicks' = clicks, Book' = [Book EXCEPT ![j] = "open"], clicks[j] = 0, pc[m] \in Hold
          PROVE  Once!OnceNext
      <4>1. Once!GiveUp(j)
        BY <3>5, <3>6 DEF Once!GiveUp, Book
      <4> QED BY <3>3, <3>6, <4>1 DEF Once!OnceNext
    <3>7. ASSUME clicks' = clicks, Book' = [Book EXCEPT ![j] = "closed"], pc[m] \in Hold
          PROVE  Once!OnceNext
      <4>1. Book' = [k \in Jobs |-> IF k \in {j} THEN "closed" ELSE Book[k]]
        BY <3>7 DEF Book
      <4>2. Once!Close({j})
        BY <3>5, <3>7, <4>1 DEF Once!Close, Book
      <4>3. {j} \in SUBSET Jobs
        BY <3>3, <3>7
      <4> QED BY <4>2, <4>3 DEF Once!OnceNext
    <3>8. CASE Claim(m)
      <4>1. pc[m] = "claim" /\ status[j] = "queued" /\ Put(j, "applying") /\ clicks' = clicks
        BY <3>8 DEF Claim, Claimable
      <4>2. Book[j] = "open" /\ Book' = [Book EXCEPT ![j] = "trying"]
        <5>1. "applying" \in Status /\ Word("applying") = "trying"
          BY DEF Status, TERMINAL, Word
        <5>2. Book' = [Book EXCEPT ![j] = "trying"]
          BY <3>3, <4>1, <5>1, BookPut
        <5> QED BY <3>3, <4>1, <5>2 DEF Book, Ledger
      <4>3. Once!Begin(j)
        BY <4>1, <4>2 DEF Once!Begin, Book
      <4> QED BY <3>3, <4>1, <4>3 DEF Once!OnceNext
    <3>9. CASE Mark(m)
      <4>1. pc[m] = "mark" /\ clicks' = clicks /\ (status' = status \/ Put(j, "submitting"))
        BY <3>9 DEF Mark
      <4>2. status[j] = "applying" /\ j \in Jobs
        BY <3>3, <3>4, <4>1 DEF JobInv, Hold
      <4>3. \A k \in Jobs : Word(status'[k]) = Word(status[k])
        BY <4>1, <4>2 DEF Put, TypeOK, Word
      <4> QED BY <2>2, <4>1, <4>3
    <3>10. CASE Click(m)
      <4>1. /\ pc[m] = "click" /\ status' = status
            /\ clicks' = [clicks EXCEPT ![j] = IF @ = 0 THEN 1 ELSE 2]
        BY <3>10 DEF Click
      <4>2. clicks[j] = 0 /\ Book[j] = "trying"
        BY <3>4, <3>5, <4>1 DEF JobInv, Hold
      <4>3. Once!Send(j)
        BY <3>3, <4>1, <4>2 DEF Once!Send, Book, Ledger
      <4> QED BY <3>3, <4>1, <4>3 DEF Once!OnceNext, Hold
    <3>11. CASE Record(m)
      <4>1. pc[m] = "record" /\ clicks' = clicks /\ (status' = status \/ Put(j, res[m]))
        BY <3>11 DEF Record
      <4>2. res[m] \in {"unsent", "stopped", "submitted", "uncertain"} /\ res[m] \in Status /\ j \in Jobs
        BY <3>3, <4>1 DEF TypeOK, Results, Hold, Status, TERMINAL
      <4>3. CASE Put(j, res[m]) /\ res[m] \in {"unsent", "stopped"}
        <5>1. clicks[j] = 0
          BY <3>4, <3>5, <4>1, <4>3 DEF JobInv, Hold
        <5>2. Word(res[m]) = "open"
          BY <4>3 DEF Word
        <5> QED BY <3>6, <4>1, <4>2, <4>3, <5>1, <5>2, BookPut DEF Hold
      <4>4. CASE Put(j, res[m]) /\ res[m] \in {"submitted", "uncertain"}
        <5>1. Word(res[m]) = "closed"
          BY <4>4 DEF Word
        <5> QED BY <3>7, <4>1, <4>2, <4>4, <5>1, BookPut DEF Hold
      <4> QED BY <2>1, <4>1, <4>2, <4>3, <4>4
    <3>12. CASE Handle(m)
      <4>1. /\ pc[m] = "handle" /\ clicks' = clicks
            /\ \/ status' = status
               \/ Put(j, IF status[j] = "submitting" THEN "uncertain" ELSE "unsent")
        BY <3>12 DEF Handle
      <4>2. {"uncertain", "unsent"} \subseteq Status /\ j \in Jobs
        BY <3>3, <4>1 DEF Hold, Status, TERMINAL
      <4>3. CASE Put(j, "uncertain")
        <5>1. Word("uncertain") = "closed"
          BY DEF Word
        <5> QED BY <3>7, <4>1, <4>2, <4>3, <5>1, BookPut DEF Hold
      <4>4. CASE Put(j, "unsent") /\ status[j] # "submitting"
        <5>1. clicks[j] = 0
          BY <3>4, <3>5, <4>1, <4>4 DEF JobInv, Hold
        <5>2. Word("unsent") = "open"
          BY DEF Word
        <5> QED BY <3>6, <4>1, <4>2, <4>4, <5>1, <5>2, BookPut DEF Hold
      <4> QED BY <2>1, <4>1, <4>3, <4>4
    <3> QED BY <2>7, <3>1, <3>2, <3>8, <3>9, <3>10, <3>11, <3>12 DEF Worker
  <2> QED BY <2>1, <2>3, <2>4, <2>5, <2>6, <2>7 DEF Next
<1> QED BY <1>1, <1>2, OpenHolds, InvHolds, TypeCorrect, PTL DEF Spec, Once!OnceSpec

-----------------------------------------------------------------------------
(* A run goes forward.                                                     *)

\* Where a run is: scan, plan, queue, apply, end.
RunStage(p) == CASE p = "scan" -> 0 [] p = "plan" -> 1 [] p = "enqueue" -> 2
                 [] p = "done" -> 4 [] OTHER -> 3

\* How far it is with the job it took from the listing.
JobStage(p) == CASE p \in {"unfit", "claim"} -> 1 [] p = "form" -> 2 [] p = "mark" -> 3
                 [] p = "guard" -> 4 [] p = "click" -> 5 [] p = "receipt" -> 6
                 [] p = "record" -> 7 [] p = "handle" -> 8 [] OTHER -> 9

\* One step of the worker of m: a later stage, a job less in the listing, or
\* further with the job.
Forth(m) ==
  \/ RunStage(pc[m]) < RunStage(pc'[m])
  \/ /\ RunStage(pc[m]) = RunStage(pc'[m])
     /\ \/ todo'[m] \subseteq todo[m] /\ todo'[m] # todo[m]
        \/ todo'[m] = todo[m] /\ JobStage(pc[m]) < JobStage(pc'[m])

\* A step leaves the run of m where it is, ends it, or takes it forward.
Along(m) == Busy(m) /\ Busy(m)' => \/ pc'[m] = pc[m] /\ todo'[m] = todo[m]
                                   \/ Forth(m)

\* A run is never taken back to a job it has passed, nor is its listing
\* lengthened: not by a command, a job queued again, or another manager.  With
\* finitely many jobs a run therefore makes a bounded number of steps, which is
\* what RunEnds rests on.
RunAdvances == [][\A m \in Managers : Along(m)]_vars

LEMMA RunGoesForth ==
  ASSUME TypeOK, [Next]_vars, NEW m \in Managers
  PROVE  Along(m)
<1> USE DEF TypeOK, Along, store, history, word, run, events
<1>1. CASE Midnight \/ UNCHANGED vars
  BY <1>1 DEF Midnight, vars
<1>2. ASSUME NEW n \in Managers, Boot(n) \/ Close(n) \/ Exit(n) \/ Finish(n) PROVE Along(m)
  BY <1>2 DEF Boot, Close, Exit, Finish, StopEnd, SkipWrite, ConfirmWrite, Busy, Idle
<1>3. ASSUME NEW n \in Managers, Command(n) PROVE Along(m)
  BY <1>3 DEF Command, Start, RequestScan, StopBegin, Configure, Apply, SkipRead, ConfirmRead,
              ReadThenWrite, EnsureWorker, Busy, Idle
<1>4. ASSUME NEW n \in Managers, Worker(n), n # m PROVE Along(m)
  BY <1>4 DEF Worker, Goto, Leave, Return, Wake, WorkerExit, Scan, RunFails, Plan, Enqueue,
     List, NextJob, Unfit, Claim, ClaimRefused, Form, Mark, Guard, Click, Receipt, Record,
     Handle, Done
<1>5. CASE Wake(m) \/ WorkerExit(m) \/ Done(m)
  BY <1>5 DEF Wake, WorkerExit, Done, Goto, Busy, Idle
<1>6. CASE Scan(m) \/ RunFails(m) \/ Plan(m) \/ List(m) \/ ClaimRefused(m)
  BY <1>6 DEF Scan, RunFails, Plan, List, ClaimRefused, Goto, Leave, Forth, RunStage
<1>7. CASE Enqueue(m)
  BY <1>7 DEF Enqueue, Forth
<1>8. CASE NextJob(m)
  BY <1>8 DEF NextJob, Goto, Leave, Forth, RunStage
<1>9. CASE Unfit(m) \/ Claim(m)
  BY <1>9 DEF Unfit, Claim, Goto, Forth, RunStage, JobStage
<1>10. CASE Form(m) \/ Mark(m) \/ Guard(m) \/ Click(m) \/ Receipt(m)
  BY <1>10 DEF Form, Mark, Guard, Click, Receipt, Return, Goto, Forth, RunStage, JobStage
<1>11. CASE Record(m) \/ Handle(m)
  BY <1>11 DEF Record, Handle, Leave, Goto, Forth, RunStage, JobStage
<1> QED BY <1>1, <1>2, <1>3, <1>4, <1>5, <1>6, <1>7, <1>8, <1>9, <1>10, <1>11 DEF Next, Worker

\* Whatever the applicant does and whatever fails, a run goes forward only
\* (JobManager._worker, _apply_queued): it iterates over a listing it took once.
THEOREM RunAdvancesHolds == Spec => RunAdvances
<1> DEFINE A == \A m \in Managers : Along(m)
<1>1. TypeOK /\ [Next]_vars => [A]_vars
  BY RunGoesForth
<1> HIDE DEF A
<1>2. Spec => [][A]_vars
  BY <1>1, TypeCorrect, PTL DEF Spec
<1> QED BY <1>2 DEF RunAdvances, A
=============================================================================
