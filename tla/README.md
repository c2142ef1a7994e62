# Verification of Kratos Agent

Kratos Agent is an agent runtime: a model-and-tools loop with an interactive CLI, a
web UI (Studio), voice, a durable session store mirrored to Cloudflare D1, and a
number of assistants built on it, among them a job-application autopilot. Model calls
go through a gateway, `services/omniroute`, a TypeScript server bundled with the
agent. This directory holds TLA+ models of the parts whose correctness is a matter of
concurrency, failure and ordering, the TLC runs that check them on small instances,
and the theorems that TLAPS proves about them for all.

Paths below are relative to `src/src/kratos_agent/`, those of the gateway to
`src/services/omniroute/`, unless they begin otherwise.
`PROJECT.json` maps every definition to the source lines it models, and lists
the hazards with the properties that cover them.

## The parts of the system

| Part | State | Operations | Interacts with | What is hard |
| --- | --- | --- | --- | --- |
| Job autopilot (`jobs/`) | SQLite store: jobs, attempts, preferences, profile; per manager: events `stop`, `wake`, `shutdown`, worker thread, `busy` | start, stop, scan, apply, skip, confirm, configure, close; worker: scan, queue, claim, apply, record | employers' sites; several processes over one file | a click cannot be taken back: crash, stop or store failure around it; commands against a running worker |
| Store with remote mirror (`core/d1_client.py`) | local file, outbox table, back-off time, sync thread | execute (read, write), sync, close | D1 over HTTP; other processes over the file | lost acknowledgements, crash between two databases, order, reads that switch database |
| Session memory, event store (`core/memory.py`, `core/event_store.py`) | active session, its turns | create, load, save, record, delete | the store | which session a write belongs to |
| Turns (`main.py`, `core/agent_loop.py`) | `_turn_lock`, `_cancellation_flag`, history, plan | run_agent, invoke, cancel, clear_cancel, activate_session | memory, model, tools | one flag for all turns |
| Studio (`web/server.py`) | `turn_lock`, per stream: `prepared`, `stream_ready`, `disconnected` | chat, chat/sync, cancel, open and create a session | the runtime, from a handler and a worker thread per stream | two locks, disconnects, Stop at any moment |
| CLI, renderer, voice (`cli.py`, `tui/`, `live/`) | prompt, renderer's own cancel flag | type, Ctrl-C, `/session`, speak | the runtime, from threads of their own | actions outside the locks |
| Task plans, latch, verification (`core/runtime_contracts.py`, `core/task_manager.py`, ...) | task states, terminal latch | begin, complete, fail, retry | the loop, the UI's events | exactly one terminal status |
| Browser executor workers (`brain/browser_executor_worker.py`) | pool, leases, one request per worker | request, reap, close | child processes | deadlines and cancels against late answers, eviction |
| Per-user workers (`web/user_workers.py`) | owner, table of processes | route, close | Studio processes | replacement of dead workers, limit |
| Background runner (`core/background_runner.py`) | tasks and their status | run, cancel | the runtime | cancel against the end of a task |
| Brain, SDK, MCP, live audio, computer use, CCS, retrieval, output | | | external services | protocols of others, I/O, ranking, formatting |
| Gateway: batch processor (`open-sse/services/batchProcessor.ts`, `src/lib/db/batches.ts`) | rows of batches and of item checkpoints; `activeBatches`; per loop: place, results, attempt | routes: create, cancel, delete; poll; item loop; recovery | providers, the files API | crash after a request was sent; a cancellation or a deletion under a running loop |
| Gateway: concurrency admission (`open-sse/services/accountSemaphore.ts`) | per gate: running, limit, block, queue; the list of all who wait | acquire over several gates, release, time out, abort, block, drain | the chat path | counts over many ends of a request; a request at the head of one queue and stuck in another |
| Gateway: circuit breaker and chat path (`src/shared/utils/circuitBreaker.ts`, `src/sse/handlers/chat.ts`, `open-sse/handlers/chatCore.ts`, ...) | state, failures, permits; its row in the database | gate, execute, success, failure, reset, restore | providers, admission | outcomes arrive long after the decision to let a request through |
| Gateway: OAuth token refresh (`open-sse/services/tokenRefresh.ts`, `refreshSerializer.ts`, ...) | mutex per connection, rotation map, lane per rotation group, connection rows | refresh (share, check, queue, post, persist), sweep, quota page, expiry | the provider's token endpoint | tokens good for one use, presented by callers whose credentials are old |
| Gateway: the rest | | pages, translators, catalogues, media, statistics | external services | see "Not modelled" |
| `frontend`, `animeflix`, `openpets`, `skills`, `plugins`, `scripts` | | | | bundled projects and assets, left out |

What makes each modelled part correct:

- **Autopilot**: the employer's button is pressed at most once per job; a job
  that may have been submitted is never offered again; one worker per job;
  Stop holds, over restarts (but see point 5 below); the daily limit holds; every
  run ends.
- **Store**: a committed write is never lost; the remote database follows the
  order of the writes and holds each once; with one client a read of it is as recent
  as the client's look at the outbox; the outbox drains.
- **Turns**: a turn runs and is recorded in one session; a Stop is neither lost
  nor applied to a later turn's report; a stopped turn does nothing more and
  ends; nobody holds the server for ever.
- **Batches**: no request is sent by two lives of the process (within one life it is
  sent again after 429, 502 or 504); a completed batch
  accounts for each line once; a cancellation stops the loop; an end is an end;
  every batch ends.
- **Admission**: counts are the holders; nobody is admitted beyond a limit or
  out of turn; nobody who could be admitted is left waiting.
- **Breaker**: state, count and row agree, the row unless the database failed; no more
  probes than allowed; an open circuit can be probed once its cooldown is over (not
  always so, see below).
- **Token refresh**: a used token is never presented; the row holds the token
  the provider accepts; one refresh per group at a time; every refresh ends (not so
  after a quota page has waited behind itself, see below).

## Modules

| Module | Models |
| --- | --- |
| `ApplicationOnce` | abstract: the ledger of applications (open, trying, closed) and the employer's side |
| `JobAutopilot` | `JobManager`, `JobStore`, `ApplicationBrowser.apply` |
| `JobAutopilotProofs` | theorems about it |
| `D1Tables` | the tables of `core/d1_schema.sql` and the effect of the four kinds of statements |
| `MirrorLog` | abstract: the remote database is the result of a prefix of a log |
| `D1Outbox` | `D1DatabaseClient` |
| `D1OutboxProofs` | theorems about it |
| `TurnOwnership` | the chat endpoints of Studio, the runtime's turns, the terminal and voice requests |
| `TurnOwnershipProofs` | theorems about it |
| `D1MirrorProofs` | the refinement and the equality of the databases for one client; extends `D1OutboxProofs` |
| `BatchLedger` | abstract: what the owner of a batch is promised about each line |
| `BatchProcessor` | the gateway's batch processor with its routes |
| `BatchProcessorProofs` | theorems about it |
| `AccountSemaphore` | admission over several gates, with a specification of its own (`SlotsSpec`) |
| `AccountSemaphoreProofs` | theorems about it |
| `ProviderBreaker` | the circuit breaker as operators from one breaker to the next |
| `ChatGateway` | chat requests between the breaker and the gates: composes the two modules above |
| `ChatGatewayProofs` | theorems about it, using those of `AccountSemaphoreProofs` |
| `TokenRefresh` | token refresh of the connections of one rotation group |
| `TokenRefreshProofs` | theorems about it |
| `MCJobAutopilot`, `MCD1Outbox`, `MCTurnOwnership`, `MCBatchProcessor`, `MCChatGateway`, `MCTokenRefresh` | the instances for TLC (symmetry sets) |

### JobAutopilot

`status`, `match`, `enabled`, `limit`, `ready`, `attempts` are the SQLite file.
A job's listing is reduced to whether the present profile selects it (`match`);
five outcomes before the Submit click (failed, blocked, needs_login,
needs_input, unsupported), which the control treats alike, are `"unsent"`.
Each manager has its events, `pc` for its worker thread, the listing it
iterates over (`todo`, `fit`), the limit it read (`lim`), and `cmd` for the
command that is half done with the lock held. One store call is one step. A
command is one step, except stop, skip and confirm, whose two transactions
another thread can see apart. `Exit` is the end of the process, in order or by
a crash, anywhere; `Boot` runs `recover`. `Scan` stores any set of new jobs and
rematches the known ones; a failure in the middle of it is `Scan` for the part
that was stored, followed by `RunFails`. Store errors that reach no `except`
clause end the worker thread (`WorkerExit`, `Done`). Time is abstract: while
auto-apply is enabled, `next_scan` may have passed whenever the worker looks, and
the day may change at any moment (`Midnight`). `clicks` and `overwritten`
are history: the employer's view, and the jobs whose active or attempted record
was replaced by a thread that does not work on them (skip, a mismatch found by
another manager's run, recovery over a live worker). The code makes no promise
to such a job, and the `autopilot_skip` run shows how one comes about. `halted` and
`leftover` are history as well: a complete stop is the last thing the applicant
said, and which jobs a run was about to queue at that moment; start, scan and apply
take both back (`Ask`).

### D1Outbox

A database is, for each session, the number of the write that produced its row, and
the set of child rows. A statement is save, add, clear or drop for one session. A
local transaction is one step; so is the execution of a request remotely. `Post` is an
execution that was acknowledged, `AckLost` one whose answer got lost, `SyncFails` one
that did not take place. `log`, `landed` and `past` (the local database after each
write) are history. `read` is how much was written when a client found nothing pending
and chose the remote database: the query itself is sent later. Two assumptions on the
environment: a request whose answer was lost was executed before the next is sent, or
never; all processes over a file have the same credentials, so the outbox's `target`
is left out. `ForeignKeys` says whether the remote database enforces the schema's
foreign keys; `Mirrored` says what of the tables such a database still has (a save
empties the session's child tables there, `core/memory.py:340`), and `Refused` that
the oldest statement is one it does not take, at which the sync stops.

### TurnOwnership

`turnLock`, `runtimeLock`, `cancelled`, `active` are the server's lock, the
runtime's, the cancellation flag, and the active session. A request has a
`handler` and a worker (`pc`); a synchronous one is executed by its handler. A
voice request and a typed prompt have a `pc` only. A turn loops through `Check`
(look at the flag) and `Act` (a call of the model or a wave of tools) to
`Record`; `bound` is the session in which it began. The flag set by a
disconnect while the last events are sent is part of `Leave`. A request's
non-blocking lock may fail at any time, because a status poll holds it for
moments. `asked`, `stopped` and `moved` are history: the turns that were asked to
stop, the requests whose Stop came after the headers, and the turns during which the
terminal opened another session. `Users` selects what the users do; the run has them
do everything, the two actions of the terminal that take no lock among them.

### BatchProcessor

The gateway is one JavaScript process: a handler runs until it awaits something that
is not settled yet, so a tick of the poll loop (`Poll`: recovery of stale rows,
starts, cancellations, expiry), a route, and a stretch of an item loop between two
awaits are one action each. `status`, `input`, `lines`, `counts`, `ck` and `files` are
the database; `active`, `pc`, `pos`, `got` and `tries` die with the process (`Crash`).
A crash between two writes matters in two places: in `finalizeBatch`
(`CrashInFinalize`), and in `deleteBatch`, which removes the checkpoints, then the
input file, the output files and the row (`CrashInDelete`). Between the other writes
it leaves what a crash before or after them leaves. A line's outcome is `ok`, `bad`
(answered 400 or above) or `errored` (not answered, among them the timeout after two
minutes). `Retry` is the loop over 429, 502 and 504, which asks nobody whether the
batch was cancelled. A write that throws is `LoopFails`. `sentIn`, `lateSent` and
`torn` are history: the lives of the process that sent a line, the lines first sent
after the cancellation, and the batches whose deletion was cut short, of whose
accounts nothing is promised (they had ended before). The refinement of `BatchLedger`
maps a row to where the batch is in its life (`Phases`), `sentIn` and the checkpoints
to the fates of the lines (`Fates`), and `lateSent` to whether a line went out late
(`Lates`). `sentIn` itself is the ledger's `lives`: its promise is that the request of
a line is sent in one life of the process at most. How often that life sends it, on
429, 502 and 504, is `tries`, of which the ledger says nothing.

### AccountSemaphore, ProviderBreaker, ChatGateway

A request that waits stands in the queues of all its gates, which it enters and leaves
together; their common order is `ahead`, the waiting requests that came before. A
drain is one step (`Drain`): it admits the set of requests each of which finds room
when those admitted before it have theirs; `Admits` says which set that is. That there
is one and only one, the set with which the loop of the code ends, is proved
(`DrainIsDetermined`, `LoopAdmits`). A breaker is a record, and the methods, none of
which waits, are operators on it: `Refresh`, `CanExecute`, `Enter`, `OnSuccess`,
`OnFailure`, `RecordSuccess`, `RecordFailure`, `ResetBreaker`, `Restore`. `saved` is
its row. Writing it or reading it may fail, which the code swallows: `db` says whether
the database answers (`DatabaseTurns`), and `behind` that the last write or read
failed, until which the row need not be that of the breaker. A failure count above the
threshold is the threshold, since nothing tells them apart. `ChatGateway` follows a
request: the pipeline gate (`Arrive`), which asks the breaker; the attempt
(`Dispatch`), which asks it again and takes a permit; the gates (`Enqueue`, `GivenUp`,
`GiveBack`); the accounting (`Settle`), which tells the breaker of some outcomes only,
directly or through the helper that a combo uses as well. `probe` is history: the
request took a permit of the present HALF_OPEN period.

### TokenRefresh

The tokens of a connection are numbered as they are issued; the provider accepts
`live`, and revokes the family when any other is presented. A caller is a
request, a sweep or a page, and wants one of the connections it `Uses`: `Load` (maybe
long before), `Begin` (share the refresh in flight, or own one; the rotation map may
answer at once), `CheckRow` (the row may have moved on), `Post`, `PostFails`, `Answer`,
`AnswerLost`, `LeaveLane`, `Persist`, and for the reactive path of `chatCore.ts`
(`Guarded`) `Rewrite`, the write of a result that the guard did not let through, or
its omission when the attempts of `refreshWithRetry` have timed out. The lane of a
group is `tail` and, for each caller, who is `ahead`.

The on-demand quota page (`Pages`; `src/app/api/usage/[connectionId]/route.ts`,
`src/lib/usage/providerLimits/credentialRefresh.ts`) is different from the other
callers in three ways. It takes the lane before it begins (`EnqueuePage`), and keeps it
until its refresh is over (`EndPage`), although that refresh takes the lane again; it
brings no `onPersist`, so the mutex closure writes nothing for it (`PersistNothing`);
and it writes what it got when mutex and lane are given back, without the guard.
`Jammed` is the state in which it waits behind itself.

`TimeOut` is the limit of 30 seconds on an attempt of `refreshWithRetry` that shares a
refresh: the request tries again or gives up, while the refresh goes on. A repetition
is a caller whose credentials were loaded earlier. `excused` is history: the
connections that lost a rotation (an answer or a write was lost, or the row could not
be read) or whose row was set back; nothing is promised of them.

## Runs

| Run | Instance | Checks |
| --- | --- | --- |
| `autopilot_one` | 1 manager, 2 jobs, limits 1 and 2; start, stop, apply, configure; fairness; 597 thousand states | `TypeOK`, `ClaimWithinLimit`, `StopHolds`, `ImplementsOnce`, `RunEnds` |
| `autopilot_two` | 2 managers, 1 job; start, scan, apply, skip, confirm; 1.8 million states | `AtMostOneSubmission`, `AttemptIsRemembered`, `OneWorkerPerJob`, `RecordAgrees` |
| `autopilot_skip` | 1 manager, 1 job | finds `NoAttemptSkipped` violated |
| `d1_one` | 1 client, 2 sessions, 3 writes, foreign keys enforced; fairness; 33 thousand states | `TypeOK`, `SyncedCopyAgrees`, `ReadsAreCurrent`, `ImplementsLog`, `OutboxDrains` |
| `d1_two` | 2 clients, 1 session, 3 writes, foreign keys enforced; 1.9 million states | `NothingLost` |
| `turn` | 2 browsers, 1 voice request, 2 prompts, 2 sessions, Ctrl-C and `/session`; fairness; 85 thousand states | `TypeOK`, `TurnKeepsSession`, `StopIsKept`, `WorkerKeepsServer`, `StopHalts`, `StopEndsTurn`, `DisconnectFrees` |
| `batch` | 2 batches, one of no or 2 lines, one of at most 1, 1 at a time, 2 attempts, 2 lives; fairness; 193 thousand states | `TypeOK`, `NoReplay`, `CancelSendsAtMostOne`, `CompletedAccounts`, `LoopOwnsBatch`, `EndIsFinal`, `ImplementsLedger`, `BatchEnds` |
| `chat` | 3 requests, a global and an account gate, limits 1 and 2, threshold 2, 1 probe, a database that may fail; 1.2 million states | `TypeOK`, `HoldersCounted`, `BreakerConsistent`, `ProbesWithinLimit`, `AdmittedInTurn`, `NotLeftWaiting` |
| `chat_probe` | 1 request | finds `ProbeAllowed` violated |
| `token` | 2 callers, one guarded, and a quota page, 2 connections of a group, 2 tokens each; fairness; 157 thousand states | `TypeOK`, `RowIsUsable`, `OneInFlight`, `RefreshEnds` |
| `token_page` | the same; fairness | finds `QueueFlows` violated |
| `token_revert` | 2 guarded callers, 1 connection, 3 tokens | finds `RowNeverReverts` violated |

Why the bounds are enough to be of use. *Jobs*: jobs meet only in the daily count and
in the listing, for which two are needed; the attempt on one job is independent of the
others, so the runs with two managers have one. Managers interfere only pairwise, over
a job or over the recovery. *Writes*: two are needed for an order, a third to repeat
one of them after a failure or to put a child row between two saves; both sessions are
needed to tell the effects apart. *Turns*: two browsers compete for the server's lock;
a voice request and a prompt are the two kinds of thread that wait for the runtime's
(one of them clears the flag, the other does not); two sessions suffice to be in the
wrong one; a second prompt clears the flag of the first. *Batches*: one runs while the
other waits, is cancelled or deleted; two lines are needed for one that is recovered
beside one that is not, none for an empty file; a second life for a recovery. More
attempts repeat the same state. *Requests*: one holds, one heads a queue, one stands
behind it; a global and an account gate make the queues differ. *Tokens*: a caller
owns, another shares, waits in the lane or comes with an old token, and the page meets
both; one rotation makes a token old, and two connections are needed for a lane that
is shared. That a row is set back takes two rotations, which `token_revert` has; the
theorems are about any number. `attempts` is bounded by the limits, `clicks` counts to
"more than one", and `MaxWrites` bounds the log; `MaxLines`, `Sizes`, `MaxAttempts`
and `MaxLives` bound the batches, `Needs` and `Limits` the requests, `Uses` and
`MaxToken` the callers and rotations (`Load` leaves a revoked connection alone). The
symmetry sets are used in safety runs only.

No run switches the deadlock check off: each of these systems can always go on.

### What the runs show

They find no way to submit twice or to forget an attempt as long as nobody but
its worker writes the record of an attempt; the order "write `submitting`, look
at stop, click" is what the proof rests on. The outbox delivers each write, in
order, with one process, whose reads of the remote database are then as recent as its
look at the outbox; a write committed between the look and the query may be missed.
With two processes durability still holds and order does not: one may send again a
save that the other has sent, after later rows of the same session, and
`INSERT OR REPLACE` then empties the child tables. Earlier writes have landed at each
read (`FreshReads`), but need not be visible. The models say so by checking
`ImplementsLog` and `ReadsAreCurrent` for one client.
The turn locks do their work for everyone who takes them.

In the gateway, the checkpoints do what they are for: whatever life of the process
comes next, a line that may have been sent is not sent again, and the books of a
completed batch balance unless its deletion was cut short. The semaphore never loses
count. Two cases in which it leaves an admissible request waiting are named in
`NotLeftWaiting` and end with the next release, timeout or arrival. The token refresh
protects a family of tokens against every caller with old credentials, but for the row
set back below, and answers every caller until a quota page has come to wait behind
itself.

Eight things the documents, comments or error messages say are not so. Four of
them have a run and are listed as findings:

1. *skip against a running worker* (`autopilot_skip`; `jobs/manager.py:103-106`):
   an attempt can be overwritten with `skipped`.
2. *a probe without an outcome* (`chat_probe`;
   `src/shared/utils/circuitBreaker.ts:342`): a probe that ends with 400, 401, 404,
   429, an abort or without a slot uses up the permit of HALF_OPEN, and no next probe
   is allowed.
3. *the guard and the caller* (`token_revert`; `open-sse/handlers/chatCore.ts:4040`):
   the result the guard kept from the row is written by `chatCore` itself.
4. *the lane taken twice* (`token_page`;
   `src/lib/usage/providerLimits/credentialRefresh.ts:122`): the quota page takes the
   lane of the rotation group around `executor.refreshCredentials`, which comes to
   `serializeRefresh` again (`open-sse/services/tokenRefresh.ts:700`). The lane is not
   re-entrant. The inner call waits for the outer, the outer for the inner, and every
   refresh of the group for both, until the process ends (`JamLastsHolds`). The page
   comes through only when the row has been refreshed, the rotation map answers, or it
   shares a refresh that has left the lane already.

Four are known from modelling. The properties leave them out by an exception that
names the case; for the sixth, the property says how far the copies differ:

5. *Stop against queueing* (`jobs/manager.py:138-141`; docs/JOBS.md:16): a job can be
   queued after Stop has cleared the queue, and stays queued. The running manager does
   not begin it. After a restart the next one does, though the applicant asked for
   nothing: `get_manager` (216) starts a worker because a job is queued. `StopHolds`
   says that these jobs (`leftover`) are the only ones, and that they need a restart.
6. *Save against enforced foreign keys* (`core/memory.py:340`;
   docs/cloudflare_d1_setup.md:85): `INSERT OR REPLACE` empties the session's child
   tables remotely. `SyncedCopyAgrees` says which rows are then missing, those older
   than the last save of their session and no others, and `OutboxDrains` that only a
   child of a missing session can stop the sync.
7. */session without the lock* (`cli.py:1297,1317`): a running turn is recorded in
   another session. `TurnKeepsSession` says that only a turn during which the terminal
   did so is (`moved`).
8. *Ctrl-C* (`tui/live_renderer.py:60,156`): the runtime is not told; the turn goes on
   acting behind the prompt. It was asked nothing, so `StopHalts` is about the turns
   stopped through the server, whatever is pressed at the terminal.

### Fairness

- `JobAutopilot`: weak fairness of each worker and of the second half of a
  command, since the browser and store calls have time limits. Strong fairness
  of `Done`, which needs the manager's lock: commands hold it for moments.
  Nothing is assumed of the applicant, of the clock, or of a crash.
- `D1Outbox`: weak fairness of the sync thread; strong fairness of its steps
  `Take`, `Post`, `Remove`, that is, a remote database asked again and again
  answers at last. `OutboxDrains` is claimed only for a client that keeps running, and
  ends at a statement that is `Refused`, which no repetition makes acceptable.
- `TurnOwnership`: weak fairness of handlers, workers and of the steps of a
  turn. Nothing makes a turn end by itself, so `StopEndsTurn` owes to the flag
  alone, and no fairness is assumed of the waiting for the runtime's lock.
- `BatchProcessor`: weak fairness of `Poll` (an interval timer) and of each item
  loop: a pause ends, and an attempt is answered or times out. Nothing is assumed of
  the provider's answers; the retry loop is bounded in the code.
- `TokenRefresh`: weak fairness of each caller's refresh: every read, request
  and gap has an end. A caller need not load or begin anything, and nothing is assumed
  of the timeout of an attempt.
- `ChatGateway` has safety properties only. That a waiting request is admitted or
  times out is its own timer; what could be lost is the drain, which
  `NotLeftWaiting` states as a property of steps.

## Proofs

The theorems hold for any sets of jobs, managers, clients, requests, threads,
sessions, batches, gates and connections, and any bound. Assumptions on the constants:
daily limits and gate limits are positive numbers, a guarded caller is no page, the
`None` values are distinct from what they stand beside, browser, voice and terminal
threads are distinct, bounds are numbers, batches and gates are numbered, the set of
chat requests is finite, the thresholds of the breaker are numbers and it allows a
probe.

- `JobAutopilotProofs`: `TypeCorrect`, `AtMostOnce`, `Remembered`, `ExclusiveClaim`,
  `Agreement`. None of the three safety invariants is inductive: after a step that
  restarts or records, they need to know that the store and the worker's place agree.
  `RecordAgrees` says how: a worker that holds a job has it `applying` before the mark
  and `submitting` up to the answer, and a click means that it is past the click.
  Together with the three it is inductive, and is proved action by action.
  `overwritten` is what confines it: once another thread wrote the record, the
  invariant says nothing of that job any more. For one manager, `ClaimsBounded` and
  `StopIsKept` rest on `RunInv` (during a run the limit is the one it read; after a
  complete Stop only `leftover` jobs are queued, and none that the present run is
  about to claim), and `AutopilotImplementsOnce` shows the refinement, without the
  skip command: `OpenInv` says that the jobs a run has listed and not begun are no
  attempts, so that nobody overwrites one, and each step is then a `Begin`, `Send`,
  `GiveUp`, `Close` or a stutter of the ledger. `RunAdvancesHolds`, for any managers:
  nothing takes a run back to a job it has passed or lengthens its listing.
- `D1OutboxProofs`: `OutboxTypeCorrect`, `Durable`, `FreshReads`. `NothingLost`
  needs `AckMeansLanded` (a client that is about to delete a row knows it was
  executed, also when the other client has deleted it already). `FreshReads` needs
  that a read which has begun saw an empty outbox, and `NothingLost`. It says that
  earlier writes were executed, for any number of clients, not that they are visible.
- `D1MirrorProofs`: `SyncedAgrees`, `ReadsCurrent` and `MirrorsLog`, for one client,
  whether the remote database enforces foreign keys or not. The invariant `MInv` names
  what the state does not hold: the local database after each write (`History`), the
  number of writes that landed and that left the outbox, which differ by one at most
  (`Order`). The remote database is what `Mirrored` leaves of the history at the first
  number. A repeated request changes nothing (`Idempotent`), which is why an
  acknowledgement may be lost. `ReadsCurrent` joins these facts with
  `EarlierWritesLanded`: what the remote database holds is the local one after some
  write, not before the look.
- `TurnOwnershipProofs`: `OwnershipTypeCorrect`, `StopKept`, `ServerKept`,
  `SessionKept`, `Halted`. The strengthening `Discipline` says which lock goes
  with which place: a thread that executes anything holds the runtime's lock, a
  worker's request holds the server's, the handler's place limits the worker's,
  and the flag is still set for whoever was asked to stop. None of them has a hypothesis
  on what the users do; the turns that the terminal moved or left behind are named by
  the history (points 7 and 8 above). `NobodyStuckHolds` says that
  the two locks never deadlock: whoever holds one has a step to take that waits for
  nobody, because a worker past the headers was told to go on (`HandedOver`).
- `BatchProcessorProofs`: `TypeCorrect`, `NoReplayHolds`, `CancelSendsAtMostOneHolds`,
  `LoopOwnsBatchHolds`, `EndIsFinalHolds` from `IInv`: a line that was sent is marked
  (`SentIsMarked`) and lines first sent late are the last the loop reaches
  (`LateIsLast`). `CompletedAccountsHolds` needs the books as well: what a loop has is
  what the checkpoints of the lines behind it say, and the counts are those. Of a
  batch whose deletion was cut short it needs only that it has ended (`TornIsOver`).
  `BatchImplementsLedger` is the refinement of `BatchLedger`: each step is one of the
  ledger's or a stutter, by `IInv`, the books, and `LinkOf`, which says that a
  checkpoint goes beyond `pending` only for a line that was sent, that a loop waiting
  for an answer has marked its line, and that only completed batches have files. A
  deletion that was cut short is a step of the ledger's own, which forgets the
  outcomes (`DropPart`). `LoopAdvancesHolds` and `LoopWithinHolds` say that a loop
  only goes forward, line by line and attempt by attempt, and how far.
- `AccountSemaphoreProofs`: `HoldersCountedHolds`, `AdmittedInTurnHolds`,
  `NotLeftWaitingHolds`, for `SlotsSpec`. `SlotsInv` adds to the counts that whoever
  is ahead of a request waits (`LineIsWaiting`). That nobody is admitted beyond a
  limit counts the requests a drain admits: the last of them in the line saw all the
  others (`LastOfLine`). `DrainIsDetermined` shows by induction over finite sets of
  requests that `Admits` has exactly one solution, `LoopAdmits` that it is the one
  with which the code's loop (admit the first that fits until none does) ends,
  `DrainsAreDecidedHolds` that this is so in every reachable state. `NoStallHolds`:
  requests that stand in several queues at once do not block one another; whenever the
  holders or the queues change and somebody is left waiting, a slot is held, whose
  release drains the queues again, or a gate is blocked. (The end of a block is no
  event of the code; who waits then is served at the next arrival or release, or times
  out.)
- `ChatGatewayProofs`: every step of the chat path is a step of the semaphore or
  leaves it alone (`GatewaySlots`), so its theorems hold there
  (`GatewayHoldersCounted`, `GatewayAdmittedInTurn`, `GatewayNotLeftWaiting`,
  `GatewayNoStall`). `BreakerConsistentHolds` and `ProbesWithinLimitHolds` rest on
  what each method does to a sound breaker and its row, with a database that answers
  or not, and on the count of probes, which a new HALF_OPEN period sets to nothing
  (`GatewayInv`).
- `TokenRefreshProofs`: `TypeCorrect`, `OneInFlightHolds`, `RowIsUsableHolds`. The
  invariant has the lane as a line (`LaneOrder`: who is ahead of whom, and that `tail`
  is its last), who owns a mutex and where he is (`Custody`), and how old each token
  held, loaded or remembered can be (`Tokens`); `RowIsUsable` is a part of it, since a
  post is safe only if the row was right when it was checked. `NobodyStuckHolds`: the
  line has a first (`LineHasFirst`, by induction over the finite set of those ahead)
  and a shared refresh an owner (`SharedIsOwned`), so whoever wants a refresh can go
  on, or somebody can that he waits for, unless a page waits behind itself (`Jammed`).
  That this exception is needed, and is for good, is `JamLastsHolds`: from then on
  nobody of the group sends a refresh until the process ends. By
  `RefreshAdvancesHolds` nobody is set back or overtaken, but for a request whose
  attempt times out while it shares a refresh.

Only model-checked: the liveness properties (`RunEnds`, `OutboxDrains`,
`StopEndsTurn`, `DisconnectFrees`, `BatchEnds`, `RefreshEnds`), which need fairness
and ENABLED. What they rest on in the code is proved as safety: that somebody can
always go on (`NobodyStuckHolds` of the turns and of the tokens, `NoStallHolds`) and
that a step goes forward, a bounded number of times (`RunAdvancesHolds`,
`LoopAdvancesHolds`, `LoopWithinHolds`, `RefreshAdvancesHolds`). That `CanGoOn` names
guards of actions is said in the module and was compared with ENABLED by TLC; the
proof is about the guards. Every invariant and every action property that a run
checks, and the three refinements, are also proved, under the hypotheses named above.

Out of the prover's reach are ENABLED, theorems of induction that take an operator, and
with them what a recursive definition computes for every input. Hence there are no
recursive definitions in the modules, and induction is by a minimal element of a
finite set (`WFMin`), as in `DrainIsDetermined` and `SomebodyIsFirst`.

## Plan

Done, in this order of importance: the autopilot, whose errors reach other
people; the store, on which all sessions rest; the ownership of turns; of the
gateway, what spends money or credentials: batches, admission and breaker, tokens.

What could come next:

1. `BrowserWorkers` (`brain/browser_executor_worker.py`): "an answer goes to the
   request that asked for it", against deadlines, cancels and evictions.
2. `PlanRun` (`core/agent_loop.py`, `core/runtime_contracts.py`,
   `core/task_manager.py`): task states, terminal latch, retries, tool waves.
3. The choice of accounts and combos in the gateway (`src/sse/services/auth.ts`,
   `open-sse/services/combo.ts`): cooldowns and quotas between the gate and the attempt.
4. The tool registry in `TurnOwnership`, and session memory over `D1Outbox`.

## Not modelled

The content of anything: prompts, model answers, tool results, forms, listings.
Provider protocols, sign-in, audio, desktop automation, retrieval and ranking,
output, packaging: no state shared between actors that the models could tell
apart, or protocols of external services. Bundled third-party projects. Crashes
of the host that damage the SQLite file.

Most of the source by volume is the rest of the gateway: some five thousand
TypeScript files of dashboard pages, protocol translators, provider and model
catalogues, media handlers, statistics, plug-ins and tests. They are data and
presentation, or sequential conversions whose meaning is the text they produce;
a model of them would be a copy. The models cover the parts in which several
actors share state and something can be lost, so they map a small share of the lines.

Within the modelled parts of the gateway, left out:

- a second process, or a hot reload of the module, that recovers the batch of a
  live loop (`activeBatches` is per process); files written before a crash in
  `finalizeBatch`, which stay without a batch;
- the choice of account and model, cooldowns, translation and streaming; the eviction
  of idle breakers from the registry (`src/shared/utils/circuitBreaker.ts:597`), which
  drops a CLOSED breaker with a count that its row keeps;
- what a sweep does with a rejected refresh, a new authorization, refreshes without
  a connection id, the breaker of `refreshWithRetry`.

Hazards seen and covered by no property:

- gateway: a success that was let through before the circuit opened closes it; the 503
  of an attempt the breaker refused counts as one more failure of the provider
  (`src/sse/handlers/chat.ts:2427`); `updateProviderCredentials` swallows a failed
  write; `updateProviderConnection` reads, awaits and writes
  (`src/lib/db/providers.ts:937-990`);
- autopilot: a refused claim ends the run (`jobs/manager.py:150`); the loop queues
  from a listing read before (139); a store error while the thread looks for work ends
  it (174);
- store: a request that timed out and is executed after the next one
  (`core/d1_client.py:167`); that nobody is told of a statement the remote database
  refuses (155), at which the sync stops (`Refused`);
- runtime: a Stop that found no turn (`main.py:1054`); MCP settings saved under a turn
  (`web/server.py:880`); the last events of a stream cancel the runtime (607);
- workers and plans: `brain/browser_executor_worker.py:180,258`,
  `core/background_runner.py:128`, `core/runtime_contracts.py:97`.

## Running

    tlc -workers 2 -config autopilot_one.cfg MCJobAutopilot
    tlapm JobAutopilotProofs.tla
