------------------------ MODULE TurnOwnershipProofs ------------------------
(***************************************************************************)
(* Proofs about TurnOwnership, for any number of browsers, voice requests, *)
(* prompts and sessions, and whatever the users do.                        *)
(***************************************************************************)
EXTENDS TurnOwnership, TLAPS

\* Where a thread has made up its mind about the flag, and where it holds
\* the runtime's lock.
Armed == Stage \cup {"ready", "finish"}
Owning == Armed \cup {"load", "clear"}

\* The strengthening.  A thread between taking and returning the runtime's
\* lock owns it, and the request that is not idle owns the server's; nothing is
\* remembered of one that is; a stream whose headers are sent has forgotten the
\* earlier Stop; a stop stays set as long as the turn it was meant for goes on.
Discipline ==
  /\ \A x \in Threads : pc[x] \in Owning => runtimeLock = x
  /\ \A r \in Requests : handler[r] # "idle" <=> turnLock = r
  /\ \A r \in Requests : handler[r] = "idle" => status[r] = "none" /\ r \notin stopped
  /\ WorkerKeepsServer
  /\ \A r \in Requests : handler[r] \in {"headers", "stream"} => pc[r] \in Armed \cup {"none"}
  /\ \A r \in Requests : pc[r] # "none" => status[r] = "none"
  /\ \A r \in stopped : pc[r] # "none" => cancelled /\ pc[r] \in Armed
  /\ StopIsKept

Inv == TypeOK /\ Discipline

-----------------------------------------------------------------------------
\* The initial state satisfies the invariant.
LEMMA InitInv == Init => Inv
<1> SUFFICES ASSUME Init PROVE Inv
  OBVIOUS
<1>1. TypeOK
  <2>1. /\ turnLock \in Requests \cup {None} /\ runtimeLock \in Threads \cup {None}
        /\ cancelled \in BOOLEAN /\ active \in Sessions
        /\ terminal \in Prompts \cup {None} /\ asked \subseteq Threads /\ stopped \subseteq Requests
        /\ moved \subseteq Threads
    BY Zenon DEF Init
  <2>2. /\ handler \in [Requests -> {"idle", "prepare", "headers", "stream", "join", "sync"}]
        /\ ready \in [Requests -> BOOLEAN] /\ disconnected \in [Requests -> BOOLEAN]
        /\ gone \in [Requests -> BOOLEAN]
        /\ status \in [Requests -> {"none", "cancelled", "ended"}]
    BY DEF Init
  <2>3. pc \in [Threads -> Place] /\ bound \in [Threads -> Sessions \cup {None}]
    BY DEF Init, Place
  <2>4. \A x \in Threads : bound[x] # None <=> Running(x)
    BY DEF Init, Running, Stage
  <2> QED
    BY <2>1, <2>2, <2>3, <2>4 DEF TypeOK
<1>2. Discipline
  BY ThreadsAssumption
     DEF Init, Discipline, WorkerKeepsServer, StopIsKept, Armed, Owning, Stage, Threads
<1> QED
  BY <1>1, <1>2 DEF Inv

\* Every step preserves the type invariant.  (That a request which is accepted
\* is not bound to a session is WorkerKeepsServer.)
LEMMA TypeStep ==
  ASSUME TypeOK, WorkerKeepsServer, [Next]_vars
  PROVE  TypeOK'
<1> USE ThreadsAssumption DEF TypeOK, Running, Place, Stage, Threads
<1>1. CASE UNCHANGED vars
  BY <1>1 DEF vars, locks, request, history
<1>2. ASSUME Stop PROVE TypeOK'
  BY <1>2 DEF Stop, locks, request
<1>3. ASSUME Interrupt PROVE TypeOK'
  BY <1>3 DEF Interrupt, locks, request, history
<1>4. ASSUME NEW s \in Sessions, Switch(s) PROVE TypeOK'
  BY <1>4 DEF Switch, locks, request, history
<1>5. ASSUME NEW s \in Sessions, Slash(s) PROVE TypeOK'
  BY <1>5 DEF Slash, locks, request
<1>6. ASSUME NEW r \in Requests, Accept(r) PROVE TypeOK'
  <2>1. pc[r] = "none"
    BY <1>6 DEF Accept, WorkerKeepsServer
  <2> QED
    BY <1>6, <2>1 DEF Accept, Goto, request, history
<1>7. ASSUME NEW r \in Requests, GoAway(r) PROVE TypeOK'
  BY <1>7 DEF GoAway, locks, history
<1>8. ASSUME NEW r \in Requests, Headers(r) PROVE TypeOK'
  BY <1>8 DEF Headers, At, locks, history
<1>9. ASSUME NEW r \in Requests, HeadersFail(r) PROVE TypeOK'
  BY <1>9 DEF HeadersFail, At, locks, history
<1>10. ASSUME NEW r \in Requests, Release(r) PROVE TypeOK'
  BY <1>10 DEF Release, At, locks, history
<1>11. ASSUME NEW r \in Requests, StreamFails(r) PROVE TypeOK'
  BY <1>11 DEF StreamFails, At, locks
<1>12. ASSUME NEW r \in Requests, Leave(r) PROVE TypeOK'
  BY <1>12 DEF Leave, At, Forgotten
<1>13. ASSUME NEW r \in Requests, Lock(r) PROVE TypeOK'
  BY <1>13 DEF Lock, Goto, request, history
<1>14. ASSUME NEW r \in Requests, Load(r) PROVE TypeOK'
  BY <1>14 DEF Load, Goto, locks, request, history
<1>15. ASSUME NEW r \in Requests, Clear(r) PROVE TypeOK'
  BY <1>15 DEF Clear, Goto, locks, request, history
<1>16. ASSUME NEW r \in Requests, Run(r) PROVE TypeOK'
  BY <1>16 DEF Run, BeginTurn, Goto, locks, request, history
<1>17. ASSUME NEW v \in Voices, Speak(v) PROVE TypeOK'
  BY <1>17 DEF Speak, Goto, locks, request, history
<1>18. ASSUME NEW p \in Prompts, Type(p) PROVE TypeOK'
  BY <1>18 DEF Type, Goto, locks, request, history
<1>19. ASSUME NEW x \in Threads, Start(x) PROVE TypeOK'
  <2>1. cancelled' \in BOOLEAN
    <3>1. cancelled' = FALSE \/ cancelled' = cancelled
      BY <1>19, Zenon DEF Start
    <3> QED
      BY <3>1, Zenon
  <2>2. \E p \in {"check", "act"} : pc' = [pc EXCEPT ![x] = p]
    BY <1>19, Zenon DEF Start, BeginTurn, Goto
  <2>3. /\ runtimeLock' = x /\ bound' = [bound EXCEPT ![x] = active]
        /\ UNCHANGED <<turnLock, active, handler, ready, disconnected, gone, status,
                      terminal, asked, stopped, moved>>
    BY <1>19, Zenon DEF Start, BeginTurn, request, history
  <2> QED
    BY <2>1, <2>2, <2>3
<1>20. ASSUME NEW x \in Threads, Check(x) PROVE TypeOK'
  BY <1>20 DEF Check, Goto, locks, request, history
<1>21. ASSUME NEW x \in Threads, Act(x) PROVE TypeOK'
  BY <1>21 DEF Act, Goto, locks, request, history
<1>22. ASSUME NEW x \in Threads, Record(x) PROVE TypeOK'
  BY <1>22 DEF Record, Goto, locks, request, history
<1>23. ASSUME NEW x \in Threads, Finish(x) PROVE TypeOK'
  BY <1>23 DEF Finish, Goto
<1> QED
  BY <1>1, <1>2, <1>3, <1>4, <1>5, <1>6, <1>7, <1>8, <1>9, <1>10, <1>11, <1>12, <1>13, <1>14,
     <1>15, <1>16, <1>17, <1>18, <1>19, <1>20, <1>21, <1>22, <1>23
  DEF Next, Handler, Worker, Thread, Turn
\* Every step preserves the discipline.
LEMMA DisciplineStep ==
  ASSUME Inv, [Next]_vars
  PROVE  Discipline'
<1> USE ThreadsAssumption
    DEF Inv, TypeOK, Discipline, WorkerKeepsServer, StopIsKept, Armed, Owning, Place, Stage, Threads, Running
<1>1. CASE UNCHANGED vars
  BY <1>1 DEF vars, locks, request, history
<1>2. ASSUME Stop PROVE Discipline'
  BY <1>2 DEF Stop, locks, request
<1>3. ASSUME Interrupt PROVE Discipline'
  BY <1>3 DEF Interrupt, locks, request, history
<1>4. ASSUME NEW s \in Sessions, Switch(s) PROVE Discipline'
  BY <1>4 DEF Switch, locks, request, history
<1>5. ASSUME NEW s \in Sessions, Slash(s) PROVE Discipline'
  BY <1>5 DEF Slash, locks, request
<1>6. ASSUME NEW r \in Requests, Accept(r) PROVE Discipline'
  BY <1>6 DEF Accept, Goto, request, history
<1>7. ASSUME NEW r \in Requests, GoAway(r) PROVE Discipline'
  BY <1>7 DEF GoAway, locks, history
<1>8. ASSUME NEW r \in Requests, Headers(r) PROVE Discipline'
  BY <1>8 DEF Headers, At, locks, history
<1>9. ASSUME NEW r \in Requests, HeadersFail(r) PROVE Discipline'
  BY <1>9 DEF HeadersFail, At, locks, history
<1>10. ASSUME NEW r \in Requests, Release(r) PROVE Discipline'
  BY <1>10 DEF Release, At, locks, history
<1>11. ASSUME NEW r \in Requests, StreamFails(r) PROVE Discipline'
  BY <1>11 DEF StreamFails, At, locks
<1>12. ASSUME NEW r \in Requests, Leave(r) PROVE Discipline'
  BY <1>12 DEF Leave, At, Forgotten
<1>13. ASSUME NEW r \in Requests, Lock(r) PROVE Discipline'
  BY <1>13 DEF Lock, Goto, request, history
<1>14. ASSUME NEW r \in Requests, Load(r) PROVE Discipline'
  BY <1>14 DEF Load, Goto, locks, request, history
<1>15. ASSUME NEW r \in Requests, Clear(r) PROVE Discipline'
  BY <1>15 DEF Clear, Goto, locks, request, history
<1>16. ASSUME NEW r \in Requests, Run(r) PROVE Discipline'
  BY <1>16 DEF Run, BeginTurn, Goto, locks, request, history
<1>17. ASSUME NEW v \in Voices, Speak(v) PROVE Discipline'
  BY <1>17 DEF Speak, Goto, locks, request, history
<1>18. ASSUME NEW p \in Prompts, Type(p) PROVE Discipline'
  BY <1>18 DEF Type, Goto, locks, request, history
<1>19. ASSUME NEW x \in Threads, Start(x) PROVE Discipline'
  BY <1>19 DEF Start, BeginTurn, Goto, request, history
<1>20. ASSUME NEW x \in Threads, Check(x) PROVE Discipline'
  BY <1>20 DEF Check, Goto, locks, request, history
<1>21. ASSUME NEW x \in Threads, Act(x) PROVE Discipline'
  BY <1>21 DEF Act, Goto, locks, request, history
<1>22. ASSUME NEW x \in Threads, Record(x) PROVE Discipline'
  BY <1>22 DEF Record, Goto, locks, request, history
<1>23. ASSUME NEW x \in Threads, Finish(x) PROVE Discipline'
  BY <1>23 DEF Finish, Goto
<1> QED
  BY <1>1, <1>2, <1>3, <1>4, <1>5, <1>6, <1>7, <1>8, <1>9, <1>10, <1>11, <1>12, <1>13, <1>14,
     <1>15, <1>16, <1>17, <1>18, <1>19, <1>20, <1>21, <1>22, <1>23
  DEF Next, Handler, Worker, Thread, Turn

\* The invariant holds in every reachable state.
LEMMA InvHolds == Spec => []Inv
<1>1. Init => Inv
  BY InitInv
<1>2. Inv /\ [Next]_vars => Inv'
  BY TypeStep, DisciplineStep DEF Inv, Discipline
<1> QED
  BY <1>1, <1>2, PTL DEF Spec

\* A turn keeps its session: who changes the active session owns the runtime's
\* lock, or it is the terminal, which asks for no lock.
LEMMA SessionStep ==
  ASSUME Inv, TurnKeepsSession, [Next]_vars
  PROVE  TurnKeepsSession'
<1> USE ThreadsAssumption
    DEF Inv, TypeOK, Discipline, TurnKeepsSession, Armed, Owning, Place, Stage, Threads, Running
<1>1. CASE UNCHANGED vars
  BY <1>1 DEF vars, locks, request, history
<1>2. ASSUME Stop PROVE TurnKeepsSession'
  BY <1>2 DEF Stop, locks, request
<1>3. ASSUME Interrupt PROVE TurnKeepsSession'
  BY <1>3 DEF Interrupt, locks, request, history
<1>4. ASSUME NEW s \in Sessions, Switch(s) PROVE TurnKeepsSession'
  BY <1>4 DEF Switch, locks, request, history
<1>5. ASSUME NEW s \in Sessions, Slash(s) PROVE TurnKeepsSession'
  BY <1>5 DEF Slash, locks, request
<1>6. ASSUME NEW r \in Requests, Accept(r) PROVE TurnKeepsSession'
  BY <1>6 DEF Accept, Goto, request, history
<1>7. ASSUME NEW r \in Requests, GoAway(r) PROVE TurnKeepsSession'
  BY <1>7 DEF GoAway, locks, history
<1>8. ASSUME NEW r \in Requests, Headers(r) PROVE TurnKeepsSession'
  BY <1>8 DEF Headers, At, locks, history
<1>9. ASSUME NEW r \in Requests, HeadersFail(r) PROVE TurnKeepsSession'
  BY <1>9 DEF HeadersFail, At, locks, history
<1>10. ASSUME NEW r \in Requests, Release(r) PROVE TurnKeepsSession'
  BY <1>10 DEF Release, At, locks, history
<1>11. ASSUME NEW r \in Requests, StreamFails(r) PROVE TurnKeepsSession'
  BY <1>11 DEF StreamFails, At, locks
<1>12. ASSUME NEW r \in Requests, Leave(r) PROVE TurnKeepsSession'
  BY <1>12 DEF Leave, At, Forgotten
<1>13. ASSUME NEW r \in Requests, Lock(r) PROVE TurnKeepsSession'
  BY <1>13 DEF Lock, Goto, request, history
<1>14. ASSUME NEW r \in Requests, Load(r) PROVE TurnKeepsSession'
  BY <1>14 DEF Load, Goto, locks, request, history
<1>15. ASSUME NEW r \in Requests, Clear(r) PROVE TurnKeepsSession'
  BY <1>15 DEF Clear, Goto, locks, request, history
<1>16. ASSUME NEW r \in Requests, Run(r) PROVE TurnKeepsSession'
  BY <1>16 DEF Run, BeginTurn, Goto, locks, request, history
<1>17. ASSUME NEW v \in Voices, Speak(v) PROVE TurnKeepsSession'
  BY <1>17 DEF Speak, Goto, locks, request, history
<1>18. ASSUME NEW p \in Prompts, Type(p) PROVE TurnKeepsSession'
  BY <1>18 DEF Type, Goto, locks, request, history
<1>19. ASSUME NEW x \in Threads, Start(x) PROVE TurnKeepsSession'
  BY <1>19 DEF Start, BeginTurn, Goto, request, history
<1>20. ASSUME NEW x \in Threads, Check(x) PROVE TurnKeepsSession'
  BY <1>20 DEF Check, Goto, locks, request, history
<1>21. ASSUME NEW x \in Threads, Act(x) PROVE TurnKeepsSession'
  BY <1>21 DEF Act, Goto, locks, request, history
<1>22. ASSUME NEW x \in Threads, Record(x) PROVE TurnKeepsSession'
  BY <1>22 DEF Record, Goto, locks, request, history
<1>23. ASSUME NEW x \in Threads, Finish(x) PROVE TurnKeepsSession'
  BY <1>23 DEF Finish, Goto
<1> QED
  BY <1>1, <1>2, <1>3, <1>4, <1>5, <1>6, <1>7, <1>8, <1>9, <1>10, <1>11, <1>12, <1>13, <1>14,
     <1>15, <1>16, <1>17, <1>18, <1>19, <1>20, <1>21, <1>22, <1>23
  DEF Next, Handler, Worker, Thread, Turn

\* A turn that was asked to stop sees the flag until it ends.
AskedIsSet == \A x \in asked : cancelled /\ pc[x] \in Armed

LEMMA AskedStep ==
  ASSUME Inv, AskedIsSet, [Next]_vars
  PROVE  AskedIsSet'
<1> USE ThreadsAssumption
    DEF Inv, TypeOK, Discipline, WorkerKeepsServer, AskedIsSet, Armed, Owning, Place, Stage, Threads, Running
<1>1. CASE UNCHANGED vars
  BY <1>1 DEF vars, locks, request, history
<1>2. ASSUME Stop PROVE AskedIsSet'
  BY <1>2 DEF Stop, locks, request
<1>3. ASSUME Interrupt PROVE AskedIsSet'
  BY <1>3 DEF Interrupt, locks, request, history
<1>4. ASSUME NEW s \in Sessions, Switch(s) PROVE AskedIsSet'
  BY <1>4 DEF Switch, locks, request, history
<1>5. ASSUME NEW s \in Sessions, Slash(s) PROVE AskedIsSet'
  BY <1>5 DEF Slash, locks, request
<1>6. ASSUME NEW r \in Requests, Accept(r) PROVE AskedIsSet'
  BY <1>6 DEF Accept, Goto, request, history
<1>7. ASSUME NEW r \in Requests, GoAway(r) PROVE AskedIsSet'
  BY <1>7 DEF GoAway, locks, history
<1>8. ASSUME NEW r \in Requests, Headers(r) PROVE AskedIsSet'
  BY <1>8 DEF Headers, At, locks, history
<1>9. ASSUME NEW r \in Requests, HeadersFail(r) PROVE AskedIsSet'
  BY <1>9 DEF HeadersFail, At, locks, history
<1>10. ASSUME NEW r \in Requests, Release(r) PROVE AskedIsSet'
  BY <1>10 DEF Release, At, locks, history
<1>11. ASSUME NEW r \in Requests, StreamFails(r) PROVE AskedIsSet'
  BY <1>11 DEF StreamFails, At, locks
<1>12. ASSUME NEW r \in Requests, Leave(r) PROVE AskedIsSet'
  BY <1>12 DEF Leave, At, Forgotten
<1>13. ASSUME NEW r \in Requests, Lock(r) PROVE AskedIsSet'
  BY <1>13 DEF Lock, Goto, request, history
<1>14. ASSUME NEW r \in Requests, Load(r) PROVE AskedIsSet'
  BY <1>14 DEF Load, Goto, locks, request, history
<1>15. ASSUME NEW r \in Requests, Clear(r) PROVE AskedIsSet'
  BY <1>15 DEF Clear, Goto, locks, request, history
<1>16. ASSUME NEW r \in Requests, Run(r) PROVE AskedIsSet'
  BY <1>16 DEF Run, BeginTurn, Goto, locks, request, history
<1>17. ASSUME NEW v \in Voices, Speak(v) PROVE AskedIsSet'
  BY <1>17 DEF Speak, Goto, locks, request, history
<1>18. ASSUME NEW p \in Prompts, Type(p) PROVE AskedIsSet'
  BY <1>18 DEF Type, Goto, locks, request, history
<1>19. ASSUME NEW x \in Threads, Start(x) PROVE AskedIsSet'
  BY <1>19 DEF Start, BeginTurn, Goto, request, history
<1>20. ASSUME NEW x \in Threads, Check(x) PROVE AskedIsSet'
  BY <1>20 DEF Check, Goto, locks, request, history
<1>21. ASSUME NEW x \in Threads, Act(x) PROVE AskedIsSet'
  BY <1>21 DEF Act, Goto, locks, request, history
<1>22. ASSUME NEW x \in Threads, Record(x) PROVE AskedIsSet'
  BY <1>22 DEF Record, Goto, locks, request, history
<1>23. ASSUME NEW x \in Threads, Finish(x) PROVE AskedIsSet'
  BY <1>23 DEF Finish, Goto
<1> QED
  BY <1>1, <1>2, <1>3, <1>4, <1>5, <1>6, <1>7, <1>8, <1>9, <1>10, <1>11, <1>12, <1>13, <1>14,
     <1>15, <1>16, <1>17, <1>18, <1>19, <1>20, <1>21, <1>22, <1>23
  DEF Next, Handler, Worker, Thread, Turn

\* While the flag is set no turn that was asked to stop makes another call.
LEMMA HaltStep ==
  ASSUME Inv, AskedIsSet, [Next]_vars
  PROVE  \A x \in asked : pc[x] = "check" => pc'[x] # "act"
<1> DEFINE Halts == \A x \in asked : pc[x] = "check" => pc'[x] # "act"
<1> USE ThreadsAssumption DEF Inv, TypeOK, AskedIsSet, Place, Stage, Threads
<1>1. CASE UNCHANGED vars
  BY <1>1 DEF vars, locks, request, history
<1>2. ASSUME Stop PROVE Halts
  BY <1>2 DEF Stop, locks, request
<1>3. ASSUME Interrupt PROVE Halts
  BY <1>3 DEF Interrupt, locks, request, history
<1>4. ASSUME NEW s \in Sessions, Switch(s) PROVE Halts
  BY <1>4 DEF Switch, locks, request, history
<1>5. ASSUME NEW s \in Sessions, Slash(s) PROVE Halts
  BY <1>5 DEF Slash, locks, request
<1>6. ASSUME NEW r \in Requests, Accept(r) PROVE Halts
  BY <1>6 DEF Accept, Goto, request, history
<1>7. ASSUME NEW r \in Requests, GoAway(r) PROVE Halts
  BY <1>7 DEF GoAway, locks, history
<1>8. ASSUME NEW r \in Requests, Headers(r) PROVE Halts
  BY <1>8 DEF Headers, At, locks, history
<1>9. ASSUME NEW r \in Requests, HeadersFail(r) PROVE Halts
  BY <1>9 DEF HeadersFail, At, locks, history
<1>10. ASSUME NEW r \in Requests, Release(r) PROVE Halts
  BY <1>10 DEF Release, At, locks, history
<1>11. ASSUME NEW r \in Requests, StreamFails(r) PROVE Halts
  BY <1>11 DEF StreamFails, At, locks
<1>12. ASSUME NEW r \in Requests, Leave(r) PROVE Halts
  BY <1>12 DEF Leave, At, Forgotten
<1>13. ASSUME NEW r \in Requests, Lock(r) PROVE Halts
  BY <1>13 DEF Lock, Goto, request, history
<1>14. ASSUME NEW r \in Requests, Load(r) PROVE Halts
  BY <1>14 DEF Load, Goto, locks, request, history
<1>15. ASSUME NEW r \in Requests, Clear(r) PROVE Halts
  BY <1>15 DEF Clear, Goto, locks, request, history
<1>16. ASSUME NEW r \in Requests, Run(r) PROVE Halts
  BY <1>16 DEF Run, BeginTurn, Goto, locks, request, history
<1>17. ASSUME NEW v \in Voices, Speak(v) PROVE Halts
  BY <1>17 DEF Speak, Goto, locks, request, history
<1>18. ASSUME NEW p \in Prompts, Type(p) PROVE Halts
  BY <1>18 DEF Type, Goto, locks, request, history
<1>19. ASSUME NEW x \in Threads, Start(x) PROVE Halts
  BY <1>19 DEF Start, BeginTurn, Goto, request, history
<1>20. ASSUME NEW x \in Threads, Check(x) PROVE Halts
  BY <1>20 DEF Check, Goto, locks, request, history
<1>21. ASSUME NEW x \in Threads, Act(x) PROVE Halts
  BY <1>21 DEF Act, Goto, locks, request, history
<1>22. ASSUME NEW x \in Threads, Record(x) PROVE Halts
  BY <1>22 DEF Record, Goto, locks, request, history
<1>23. ASSUME NEW x \in Threads, Finish(x) PROVE Halts
  BY <1>23 DEF Finish, Goto
<1> QED
  BY <1>1, <1>2, <1>3, <1>4, <1>5, <1>6, <1>7, <1>8, <1>9, <1>10, <1>11, <1>12, <1>13, <1>14,
     <1>15, <1>16, <1>17, <1>18, <1>19, <1>20, <1>21, <1>22, <1>23
  DEF Next, Handler, Worker, Thread, Turn

-----------------------------------------------------------------------------
(* Who waits for whom.  A request waits for the server's lock, a thread for *)
(* the runtime's, the handler for its worker and the worker for its         *)
(* handler's stream_ready: two locks and two hand-overs, taken in different *)
(* orders by different threads.                                             *)

\* Something of thread x can take its next step: the worker or the turn, or, for
\* a request, the handler (the guards of Lock, Load, Clear, Run, Turn and Finish,
\* and of Headers, Release and Leave).
CanGoOn(x) ==
  \/ pc[x] \in Stage \cup {"finish", "lock", "load", "clear"}
  \/ /\ x \in Requests
     /\ \/ pc[x] = "ready" /\ (handler[x] = "sync" \/ ready[x])
        \/ pc[x] = "ready" /\ handler[x] = "prepare"
        \/ handler[x] = "headers"
        \/ pc[x] = "none" /\ handler[x] \in {"stream", "join", "prepare", "sync"}

\* Whoever holds a lock can go on.
NobodyStuck ==
  /\ turnLock # None => CanGoOn(turnLock)
  /\ runtimeLock # None => CanGoOn(runtimeLock)

\* A lock is held by somebody who is between taking and returning it; a worker
\* whose handler is past the headers was told to go on; only requests have a worker.
HandedOver ==
  /\ turnLock # None => handler[turnLock] # "idle"
  /\ runtimeLock # None => pc[runtimeLock] \in Owning
  /\ \A r \in Requests : handler[r] \in {"stream", "join"} => ready[r]
  /\ \A r \in Requests : handler[r] = "join" => pc[r] \in Armed \cup {"none"}
  /\ \A r \in Requests : pc[r] # "wait"
  /\ \A x \in Voices \cup Prompts : pc[x] \in Stage \cup {"none", "wait", "finish"}

LEMMA HandedOverStep ==
  ASSUME Inv, HandedOver, [Next]_vars
  PROVE  HandedOver'
<1> USE ThreadsAssumption
    DEF Inv, TypeOK, Discipline, WorkerKeepsServer, HandedOver, Armed, Owning, Place, Stage, Threads, Running
<1>1. CASE UNCHANGED vars
  BY <1>1 DEF vars, locks, request, history
<1>2. ASSUME Stop PROVE HandedOver'
  BY <1>2 DEF Stop, locks, request
<1>3. ASSUME Interrupt PROVE HandedOver'
  BY <1>3 DEF Interrupt, locks, request, history
<1>4. ASSUME NEW s \in Sessions, Switch(s) PROVE HandedOver'
  BY <1>4 DEF Switch, locks, request, history
<1>5. ASSUME NEW s \in Sessions, Slash(s) PROVE HandedOver'
  BY <1>5 DEF Slash, locks, request
<1>6. ASSUME NEW r \in Requests, Accept(r) PROVE HandedOver'
  BY <1>6 DEF Accept, Goto, request, history
<1>7. ASSUME NEW r \in Requests, GoAway(r) PROVE HandedOver'
  BY <1>7 DEF GoAway, locks, history
<1>8. ASSUME NEW r \in Requests, Headers(r) PROVE HandedOver'
  BY <1>8 DEF Headers, At, locks, history
<1>9. ASSUME NEW r \in Requests, HeadersFail(r) PROVE HandedOver'
  BY <1>9 DEF HeadersFail, At, locks, history
<1>10. ASSUME NEW r \in Requests, Release(r) PROVE HandedOver'
  BY <1>10 DEF Release, At, locks, history
<1>11. ASSUME NEW r \in Requests, StreamFails(r) PROVE HandedOver'
  BY <1>11 DEF StreamFails, At, locks
<1>12. ASSUME NEW r \in Requests, Leave(r) PROVE HandedOver'
  BY <1>12 DEF Leave, At, Forgotten
<1>13. ASSUME NEW r \in Requests, Lock(r) PROVE HandedOver'
  BY <1>13 DEF Lock, Goto, request, history
<1>14. ASSUME NEW r \in Requests, Load(r) PROVE HandedOver'
  BY <1>14 DEF Load, Goto, locks, request, history
<1>15. ASSUME NEW r \in Requests, Clear(r) PROVE HandedOver'
  BY <1>15 DEF Clear, Goto, locks, request, history
<1>16. ASSUME NEW r \in Requests, Run(r) PROVE HandedOver'
  BY <1>16 DEF Run, BeginTurn, Goto, locks, request, history
<1>17. ASSUME NEW v \in Voices, Speak(v) PROVE HandedOver'
  BY <1>17 DEF Speak, Goto, locks, request, history
<1>18. ASSUME NEW p \in Prompts, Type(p) PROVE HandedOver'
  BY <1>18 DEF Type, Goto, locks, request, history
<1>19. ASSUME NEW x \in Threads, Start(x) PROVE HandedOver'
  BY <1>19 DEF Start, BeginTurn, Goto, request, history
<1>20. ASSUME NEW x \in Threads, Check(x) PROVE HandedOver'
  BY <1>20 DEF Check, Goto, locks, request, history
<1>21. ASSUME NEW x \in Threads, Act(x) PROVE HandedOver'
  BY <1>21 DEF Act, Goto, locks, request, history
<1>22. ASSUME NEW x \in Threads, Record(x) PROVE HandedOver'
  BY <1>22 DEF Record, Goto, locks, request, history
<1>23. ASSUME NEW x \in Threads, Finish(x) PROVE HandedOver'
  BY <1>23 DEF Finish, Goto
<1> QED
  BY <1>1, <1>2, <1>3, <1>4, <1>5, <1>6, <1>7, <1>8, <1>9, <1>10, <1>11, <1>12, <1>13, <1>14,
     <1>15, <1>16, <1>17, <1>18, <1>19, <1>20, <1>21, <1>22, <1>23
  DEF Next, Handler, Worker, Thread, Turn

-----------------------------------------------------------------------------
\* Requests, turns and users keep the state of Studio well-formed.
THEOREM OwnershipTypeCorrect == Spec => []TypeOK
<1>1. Inv => TypeOK
  BY DEF Inv
<1> QED
  BY <1>1, InvHolds, PTL

\* A Stop that arrives after the headers of a stream is never lost.
THEOREM StopKept == Spec => []StopIsKept
<1>1. Inv => StopIsKept
  BY DEF Inv, Discipline
<1> QED
  BY <1>1, InvHolds, PTL

\* The server serves nobody else while the worker of a request goes on.
THEOREM ServerKept == Spec => []WorkerKeepsServer
<1>1. Inv => WorkerKeepsServer
  BY DEF Inv, Discipline
<1> QED
  BY <1>1, InvHolds, PTL

\* Every turn is executed and recorded in the session in which it began, unless
\* the terminal opened another one meanwhile: nobody else can, browser, voice
\* request or opened session, however their turns interleave.
THEOREM SessionKept == Spec => []TurnKeepsSession
<1>1. Init => TurnKeepsSession
  BY DEF Init, TurnKeepsSession, Running, Stage
<1>2. Inv /\ TurnKeepsSession /\ [Next]_vars => TurnKeepsSession'
  BY SessionStep
<1> QED
  BY <1>1, <1>2, InvHolds, PTL DEF Spec

\* A turn that was asked to stop makes no further call: whoever clears the flag
\* has the runtime's lock, which the turn holds (clear_cancellation, invoke).
THEOREM Halted == Spec => StopHalts
<1>1. Init => AskedIsSet
  BY DEF Init, AskedIsSet
<1>2. Inv /\ AskedIsSet /\ [Next]_vars => AskedIsSet'
  BY AskedStep
<1>3. Inv /\ AskedIsSet /\ [Next]_vars =>
        [\A x \in asked : pc[x] = "check" => pc'[x] # "act"]_vars
  BY HaltStep
<1> QED
  BY <1>1, <1>2, <1>3, InvHolds, PTL DEF Spec, StopHalts

\* The two locks and the two hand-overs of a stream do not wait in a circle: at any
\* time, whoever holds the server's lock or the runtime's can take a step, also
\* when the browser has gone before the headers (chat, _serialize_turn, run_worker).
THEOREM NobodyStuckHolds == Spec => []NobodyStuck
<1>1. Init => HandedOver
  BY DEF Init, HandedOver, Stage, Threads
<1>2. Inv /\ HandedOver /\ [Next]_vars => HandedOver'
  BY HandedOverStep
<1>3. Inv /\ HandedOver => NobodyStuck
  BY ThreadsAssumption DEF Inv, TypeOK, Discipline, HandedOver, NobodyStuck, CanGoOn,
     WorkerKeepsServer, Armed, Owning, Place, Stage, Threads
<1> QED
  BY <1>1, <1>2, <1>3, InvHolds, PTL DEF Spec
=============================================================================
