--------------------------- MODULE TurnOwnership ---------------------------
(***************************************************************************)
(* Who may run a turn of the agent, in which session, and how a turn is    *)
(* stopped: the chat endpoints of Studio (web/server.py), the turns of     *)
(* KratosRuntime (main.py, core/agent_loop.py), and the interactive CLI    *)
(* with its voice requests (cli.py, tui/live_renderer.py).  `/web` starts  *)
(* the server in the CLI's process: all of them share one runtime, one     *)
(* active session and one cancellation flag.                               *)
(*                                                                         *)
(* A browser request has a handler thread, which holds the server's        *)
(* turn_lock, and a worker thread, which holds the runtime's lock and      *)
(* executes the turn; a synchronous request is executed by its handler.    *)
(* A voice request and a prompt typed at the terminal each have a thread,  *)
(* which waits for the runtime's lock.                                     *)
(*                                                                         *)
(* A turn is a loop: look at the cancellation flag, then call the model or *)
(* a wave of tools.  What it computes is left out.                         *)
(***************************************************************************)
EXTENDS Naturals, FiniteSets

CONSTANTS Requests,   \* connections of the browser
          Voices,     \* threads of voice requests
          Prompts,    \* threads of prompts typed at the terminal
          Sessions,
          Users,      \* what the users do
          None

Threads == Requests \cup Voices \cup Prompts

ASSUME ThreadsAssumption ==
  /\ Requests \cap Voices = {} /\ Requests \cap Prompts = {} /\ Voices \cap Prompts = {}
  /\ None \notin Threads \cup Sessions

VARIABLES
  turnLock,     \* KratosServer.turn_lock: the request that holds it
  runtimeLock,  \* KratosRuntime._turn_lock: the thread that holds it
  cancelled,    \* KratosRuntime._cancellation_flag
  active,       \* memory.active_session
  handler,      \* where each request's handler is
  ready,        \* the request's stream_ready event
  disconnected, \* the request's disconnected event
  gone,         \* the browser went away
  status,       \* exec_result.status, as the browser is told
  pc,           \* where each thread that executes turns is
  bound,        \* the session a turn was started in
  terminal,     \* the typed turn the terminal waits for; None: a prompt
  asked,        \* history: turns that were asked to stop: a Stop, a browser that left
  stopped,      \* history: streams whose turn was stopped after the headers
  moved         \* history: turns during which the terminal opened another session

locks    == <<turnLock, runtimeLock>>
request  == <<handler, ready, disconnected, gone, status>>
history  == <<asked, stopped, moved>>
vars     == <<locks, cancelled, active, request, pc, bound, terminal, history>>

Stage == {"check", "act", "record"}          \* inside run_agent or invoke
Place == Stage \cup {"none", "wait", "lock", "load", "clear", "ready", "finish"}

Running(x) == pc[x] \in Stage
Goto(x, p) == pc' = [pc EXCEPT ![x] = p]

TypeOK ==
  /\ turnLock \in Requests \cup {None} /\ runtimeLock \in Threads \cup {None}
  /\ cancelled \in BOOLEAN /\ active \in Sessions
  /\ handler \in [Requests -> {"idle", "prepare", "headers", "stream", "join", "sync"}]
  /\ ready \in [Requests -> BOOLEAN] /\ disconnected \in [Requests -> BOOLEAN]
  /\ gone \in [Requests -> BOOLEAN]
  /\ status \in [Requests -> {"none", "cancelled", "ended"}]
  /\ pc \in [Threads -> Place]
  /\ bound \in [Threads -> Sessions \cup {None}]
  /\ \A x \in Threads : bound[x] # None <=> Running(x)
  /\ terminal \in Prompts \cup {None}
  /\ asked \subseteq Threads /\ stopped \subseteq Requests /\ moved \subseteq Threads

-----------------------------------------------------------------------------
(* Turns: KratosRuntime.run_agent and invoke, under the runtime's lock.    *)

\* A chat without tools makes its one model call without looking at the flag.
BeginTurn(x, s) ==
  /\ \/ Goto(x, "check")
     \/ x \in Requests /\ Goto(x, "act")
  /\ bound' = [bound EXCEPT ![x] = s]

\* Mutant: the loop goes on whatever the flag says.
Check_blind(x) ==
  /\ pc[x] = "check"
  /\ Goto(x, "act")
  /\ UNCHANGED <<locks, cancelled, active, request, bound, terminal, history>>

\* The head of AgentLoop.run's loop and of each wave.
Check(x) ==
  /\ pc[x] = "check"
  /\ Goto(x, IF cancelled THEN "record" ELSE "act")
  /\ UNCHANGED <<locks, cancelled, active, request, bound, terminal, history>>

\* Mutant: an exception leaves the turn bound to its session.
Act_bound(x) ==
  /\ pc[x] = "act"
  /\ \E p \in {"check", "record", "finish"} : Goto(x, p)
  /\ UNCHANGED <<locks, cancelled, active, request, bound, terminal, history>>

\* A model call or a wave of tools: the turn goes on, has its answer, or raises.
Act(x) ==
  /\ pc[x] = "act"
  /\ \/ Goto(x, "check") /\ UNCHANGED bound
     \/ Goto(x, "record") /\ UNCHANGED bound
     \/ Goto(x, "finish") /\ bound' = [bound EXCEPT ![x] = None]
  /\ UNCHANGED <<locks, cancelled, active, request, terminal, history>>

\* memory.record_turn, into the session that is active now.
Record(x) ==
  /\ pc[x] = "record"
  /\ Goto(x, "finish")
  /\ bound' = [bound EXCEPT ![x] = None]
  /\ UNCHANGED <<locks, cancelled, active, request, terminal, history>>

Turn(x) == Check(x) \/ Act(x) \/ Record(x)

\* _serialize_turn: a voice request or a typed prompt waits for the lock.
\* invoke clears the flag, run_agent, which voice requests use, does not.
Start(x) ==
  /\ pc[x] = "wait" /\ runtimeLock = None
  /\ runtimeLock' = x
  /\ cancelled' = IF x \in Prompts THEN FALSE ELSE cancelled
  /\ BeginTurn(x, active)
  /\ UNCHANGED <<turnLock, active, request, terminal, history>>

\* The status is computed while the lock is still held.
Finish(x) ==
  /\ pc[x] = "finish"
  /\ runtimeLock' = None
  /\ status' = IF x \in Requests
               THEN [status EXCEPT ![x] = IF cancelled THEN "cancelled" ELSE "ended"]
               ELSE status
  /\ terminal' = IF x = terminal THEN None ELSE terminal
  /\ asked' = asked \ {x} /\ moved' = moved \ {x}
  /\ Goto(x, "none")
  /\ UNCHANGED <<turnLock, cancelled, active, handler, ready, disconnected, gone, bound, stopped>>

-----------------------------------------------------------------------------
(* The thread that executes a request: run_worker, or the handler itself   *)
(* of a synchronous request.                                               *)

\* Without waiting.  A status poll holds the lock for moments as well, so a
\* request may be refused at any time.
Lock(r) ==
  /\ pc[r] = "lock"
  /\ \/ /\ runtimeLock = None
        /\ runtimeLock' = r
        /\ Goto(r, IF handler[r] = "sync" THEN "clear" ELSE "load")
     \/ Goto(r, "none") /\ UNCHANGED runtimeLock
  /\ UNCHANGED <<turnLock, cancelled, active, request, bound, terminal, history>>

\* The requested session, if any, becomes the active one; or it cannot be loaded.
Load(r) ==
  /\ pc[r] = "load"
  /\ active' \in Sessions
  /\ \/ Goto(r, IF handler[r] = "sync" THEN "ready" ELSE "clear")
     \/ Goto(r, "finish")
  /\ UNCHANGED <<locks, cancelled, request, bound, terminal, history>>

\* Forget the Stop of an earlier turn.
Clear(r) ==
  /\ pc[r] = "clear"
  /\ cancelled' = FALSE
  /\ Goto(r, IF handler[r] = "sync" THEN "load" ELSE "ready")
  /\ UNCHANGED <<locks, active, request, bound, terminal, history>>

\* Mutant: the flag is cleared when the turn begins.
Run_clears(r) ==
  /\ pc[r] = "ready" /\ (handler[r] = "sync" \/ ready[r])
  /\ IF disconnected[r] THEN Goto(r, "finish") /\ UNCHANGED bound
                        ELSE BeginTurn(r, active)
  /\ cancelled' = FALSE
  /\ UNCHANGED <<locks, active, request, terminal, history>>

\* `prepared` is set: a stream waits for stream_ready.
Run(r) ==
  /\ pc[r] = "ready" /\ (handler[r] = "sync" \/ ready[r])
  /\ IF disconnected[r] THEN Goto(r, "finish") /\ UNCHANGED bound
                        ELSE BeginTurn(r, active)
  /\ UNCHANGED <<locks, cancelled, active, request, terminal, history>>

Worker(r) == Lock(r) \/ Load(r) \/ Clear(r) \/ Run(r)

-----------------------------------------------------------------------------
(* The handler thread.                                                     *)

\* POST /api/chat or /api/chat/sync; 409 when the lock is taken.
Accept(r) ==
  /\ handler[r] = "idle" /\ turnLock = None
  /\ turnLock' = r
  /\ \/ handler' = [handler EXCEPT ![r] = "prepare"]
     \/ "sync" \in Users /\ handler' = [handler EXCEPT ![r] = "sync"]
  /\ Goto(r, "lock")
  /\ UNCHANGED <<runtimeLock, cancelled, active, ready, disconnected, gone, status, bound, terminal,
                 history>>

At(r, h, k) == handler[r] = h /\ handler' = [handler EXCEPT ![r] = k]

Headers(r) ==
  /\ At(r, "prepare", "headers") /\ pc[r] = "ready"
  /\ UNCHANGED <<locks, cancelled, active, ready, disconnected, gone, status, pc, bound, terminal, history>>

\* Mutant: the worker is not told when the headers cannot be sent.
HeadersFail_silent(r) ==
  /\ At(r, "prepare", "join") /\ pc[r] = "ready" /\ gone[r]
  /\ disconnected' = [disconnected EXCEPT ![r] = TRUE]
  /\ UNCHANGED <<locks, cancelled, active, ready, gone, status, pc, bound, terminal, history>>

HeadersFail(r) ==
  /\ At(r, "prepare", "join") /\ pc[r] = "ready" /\ gone[r]
  /\ disconnected' = [disconnected EXCEPT ![r] = TRUE]
  /\ ready' = [ready EXCEPT ![r] = TRUE]
  /\ UNCHANGED <<locks, cancelled, active, gone, status, pc, bound, terminal, history>>

Release(r) ==
  /\ At(r, "headers", "stream")
  /\ ready' = [ready EXCEPT ![r] = TRUE]
  /\ UNCHANGED <<locks, cancelled, active, disconnected, gone, status, pc, bound, terminal, history>>

\* An event or a ping cannot be sent: the turn is cancelled, and this
\* handler waits for it.
StreamFails(r) ==
  /\ At(r, "stream", "join") /\ gone[r]
  /\ disconnected' = [disconnected EXCEPT ![r] = TRUE]
  /\ cancelled' = TRUE
  /\ asked' = IF pc[r] = "none" THEN asked ELSE asked \cup {r}
  /\ UNCHANGED <<locks, active, ready, gone, status, pc, bound, terminal, stopped, moved>>

\* The events of a request end with it, and its connection.
Forgotten(r) ==
  /\ ready' = [ready EXCEPT ![r] = FALSE]
  /\ disconnected' = [disconnected EXCEPT ![r] = FALSE]
  /\ gone' = [gone EXCEPT ![r] = FALSE]
  /\ status' = [status EXCEPT ![r] = "none"]
  /\ stopped' = stopped \ {r}

\* Mutant: a handler without a browser does not wait for its worker.
Leave_atOnce(r) ==
  /\ \/ At(r, "stream", "idle") /\ pc[r] = "none"
     \/ At(r, "join", "idle")
     \/ At(r, "prepare", "idle") /\ pc[r] = "none"
     \/ At(r, "sync", "idle") /\ pc[r] = "none"
  /\ turnLock' = None
  /\ cancelled' \in {cancelled, cancelled \/ (handler[r] = "stream" /\ gone[r])}
  /\ Forgotten(r)
  /\ UNCHANGED <<runtimeLock, active, pc, bound, terminal, asked, moved>>

\* The worker has ended: the last events (which cancel as well when they
\* cannot be sent), the answer, or nothing more to say.
Leave(r) ==
  /\ pc[r] = "none"
  /\ \E h \in {"stream", "join", "prepare", "sync"} : At(r, h, "idle")
  /\ turnLock' = None
  /\ cancelled' \in {cancelled, cancelled \/ (handler[r] = "stream" /\ gone[r])}
  /\ Forgotten(r)
  /\ UNCHANGED <<runtimeLock, active, pc, bound, terminal, asked, moved>>

Handler(r) == Headers(r) \/ HeadersFail(r) \/ Release(r) \/ StreamFails(r) \/ Leave(r)

-----------------------------------------------------------------------------
(* The users.                                                              *)

\* POST /api/chat/cancel: runtime.cancel().
Stop ==
  /\ "stop" \in Users
  /\ cancelled' = TRUE
  /\ asked' = asked \cup {x \in Threads : Running(x) \/ pc[x] = "ready"}
  /\ stopped' = stopped \cup {r \in Requests : handler[r] \in {"headers", "stream"} /\ pc[r] # "none"}
  /\ UNCHANGED <<locks, active, request, pc, bound, terminal, moved>>

GoAway(r) ==
  /\ "leave" \in Users
  /\ handler[r] # "idle" /\ ~gone[r]
  /\ gone' = [gone EXCEPT ![r] = TRUE]
  /\ UNCHANGED <<locks, cancelled, active, handler, ready, disconnected, status, pc, bound, terminal, history>>

\* Mutant: opening a session asks the server's lock only.
Switch_oneLock(s) ==
  /\ "switch" \in Users
  /\ turnLock = None
  /\ active' = s
  /\ UNCHANGED <<locks, cancelled, request, pc, bound, terminal, history>>

\* GET /api/sessions/<id> and POST /api/sessions: both locks, without waiting.
Switch(s) ==
  /\ "switch" \in Users
  /\ turnLock = None /\ runtimeLock = None
  /\ active' = s
  /\ UNCHANGED <<locks, cancelled, request, pc, bound, terminal, history>>

Speak(v) ==
  /\ "voice" \in Users
  /\ pc[v] = "none"
  /\ Goto(v, "wait")
  /\ UNCHANGED <<locks, cancelled, active, request, bound, terminal, history>>

\* Mutant: a typed prompt clears the flag before it has the lock.
Type_clears(p) ==
  /\ "type" \in Users
  /\ terminal = None /\ pc[p] = "none"
  /\ terminal' = p
  /\ cancelled' = FALSE
  /\ Goto(p, "wait")
  /\ UNCHANGED <<locks, active, request, bound, history>>

Type(p) ==
  /\ "type" \in Users
  /\ terminal = None /\ pc[p] = "none"
  /\ terminal' = p
  /\ Goto(p, "wait")
  /\ UNCHANGED <<locks, cancelled, active, request, bound, history>>

\* Ctrl-C while a typed turn runs: the renderer's own flag is set, which no turn
\* looks at, and the prompt comes back; the thread goes on.
Interrupt ==
  /\ "interrupt" \in Users
  /\ terminal # None
  /\ terminal' = None
  /\ UNCHANGED <<locks, cancelled, active, request, pc, bound, history>>

\* /session new and /session load at the prompt, which ask for no lock.
Slash(s) ==
  /\ "slash" \in Users
  /\ terminal = None
  /\ active' = s
  /\ moved' = moved \cup {x \in Threads : Running(x) /\ s # active}
  /\ UNCHANGED <<locks, cancelled, request, pc, bound, terminal, asked, stopped>>

-----------------------------------------------------------------------------
Thread(x) == Start(x) \/ Turn(x) \/ Finish(x)

Init ==
  /\ turnLock = None /\ runtimeLock = None
  /\ cancelled = FALSE /\ active \in Sessions
  /\ handler = [r \in Requests |-> "idle"]
  /\ ready = [r \in Requests |-> FALSE] /\ disconnected = [r \in Requests |-> FALSE]
  /\ gone = [r \in Requests |-> FALSE] /\ status = [r \in Requests |-> "none"]
  /\ pc = [x \in Threads |-> "none"] /\ bound = [x \in Threads |-> None]
  /\ terminal = None
  /\ asked = {} /\ stopped = {} /\ moved = {}

Next ==
  \/ Stop \/ Interrupt
  \/ \E s \in Sessions : Switch(s) \/ Slash(s)
  \/ \E r \in Requests : Accept(r) \/ GoAway(r) \/ Handler(r) \/ Worker(r)
  \/ \E v \in Voices : Speak(v)
  \/ \E p \in Prompts : Type(p)
  \/ \E x \in Threads : Thread(x)

Spec == Init /\ [][Next]_vars

\* Threads go on: a model call and a tool end, because both watch the flag
\* and have time limits.  A turn itself may be endless, the waiting of a
\* voice or a typed request for the lock too, and nothing is assumed of users.
FairSpec == Spec /\ \A r \in Requests : WF_vars(Handler(r)) /\ WF_vars(Worker(r))
                 /\ \A x \in Threads : WF_vars(Turn(x)) /\ WF_vars(Finish(x))

-----------------------------------------------------------------------------
(* Properties.                                                             *)

\* A turn is executed and recorded in the session in which it began: neither
\* another browser nor a voice request nor an opened session changes it
\* underneath.  ("Voice cannot switch this history"; "another browser must
\* not switch its active session": web/server.py.)  The session commands of the
\* terminal are the one exception: a turn during which one opened another session.
TurnKeepsSession == \A x \in Threads : Running(x) /\ x \notin moved => active = bound[x]

\* web/server.py: "a new Stop received after headers must remain set".  The
\* browser that stopped its turn is told so, whoever else starts a turn or
\* prepares one meanwhile.
StopIsKept == \A r \in stopped : status[r] # "none" => status[r] = "cancelled"

\* After a request to stop, a turn makes no further call of the model or of
\* the tools than the one that is under way, whoever clears the flag for another
\* turn.  (Ctrl-C at the terminal asks no turn.)
StopHalts == [][\A x \in asked : pc[x] = "check" => pc'[x] # "act"]_vars

\* "Keep the turn lock until tool execution reaches its cancellation
\* boundary": the server accepts no other request while the worker of a
\* request goes on, also when its browser is gone.
WorkerKeepsServer == \A r \in Requests : pc[r] # "none" => turnLock = r

\* A turn that was asked to stop ends.
StopEndsTurn == \A x \in Threads : x \in asked ~> x \notin asked

\* A browser that goes away during a stream does not occupy the server for ever.
DisconnectFrees ==
  \A r \in Requests :
    gone[r] /\ handler[r] \notin {"idle", "sync"} ~> handler[r] = "idle"
=============================================================================
