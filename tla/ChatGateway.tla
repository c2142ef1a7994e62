----------------------------- MODULE ChatGateway -----------------------------
(***************************************************************************)
(* Chat requests of the bundled gateway to one provider, between its       *)
(* circuit breaker and the gates of its concurrency limits                 *)
(* (src/sse/handlers/chat.ts, chatHelpers.ts,                              *)
(* open-sse/handlers/chatCore.ts, open-sse/services/combo.ts).             *)
(*                                                                         *)
(* A request asks the breaker twice: at the pipeline gate, and after the   *)
(* account was chosen, when the breaker runs the attempt.  The outcome is  *)
(* accounted after the attempt by the handler, for a combo by the combo.   *)
(***************************************************************************)
EXTENDS AccountSemaphore, ProviderBreaker

VARIABLES
  brk,    \* the breaker
  phase,  \* where a request is
  probe   \* its attempt took a permit of the present HALF_OPEN period

vars == <<slots, brk, phase, probe>>

\* pinned: past the gate although the circuit is open, for a fixed connection;
\* turned_away: refused by execute; calling: in handleChatCore before or with a
\* slot; called: the upstream call is over and the slot given back.
Phase == {"idle", "gated", "pinned", "turned_away", "entering", "calling", "called"}

TypeOK == /\ SlotsTypeOK
          /\ brk \in Breaker
          /\ phase \in [Requests -> Phase]
          /\ probe \in [Requests -> BOOLEAN]

\* brk' = b, and who still is a probe: a new HALF_OPEN period has none.
BreakerIs(b, prb) ==
  /\ brk' = b
  /\ probe' = IF brk.state # "HALF_OPEN" /\ b.state = "HALF_OPEN"
              THEN [r \in Requests |-> FALSE] ELSE prb

Moves(r, p) == phase' = [phase EXCEPT ![r] = p]

-----------------------------------------------------------------------------
\* checkPipelineGates; a refused request is answered 503.
Arrive(r) ==
  /\ phase[r] = "idle" /\ slot[r] = "none"
  /\ BreakerIs(Refresh(brk), probe)
  /\ \/ Moves(r, "pinned")
     \/ Moves(r, IF CanExecute(brk') THEN "gated" ELSE "idle")
  /\ UNCHANGED slots

\* executeChatWithBreaker: the breaker lets the attempt through or throws
\* CircuitBreakerOpenError; a pinned request does not ask it.
Dispatch(r) ==
  /\ \/ /\ phase[r] = "pinned"
        /\ BreakerIs(brk, probe)
        /\ Moves(r, "entering")
     \/ LET b == Refresh(brk) IN
        /\ phase[r] = "gated"
        /\ \/ /\ ~CanExecute(b)
              /\ BreakerIs(b, probe)
              /\ Moves(r, "turned_away")
           \/ /\ CanExecute(b)
              /\ brk' = Enter(b)
              /\ probe' = [q \in Requests |->
                             IF q = r THEN b.state = "HALF_OPEN"
                             ELSE probe[q] /\ ~(brk.state # "HALF_OPEN" /\ b.state = "HALF_OPEN")]
              /\ Moves(r, "entering")
  /\ UNCHANGED slots

\* The gates: admitted or queued, or refused at once.
Enqueue(r) == /\ phase[r] = "entering"
              /\ Acquire(r)
              /\ Moves(r, "calling")
              /\ UNCHANGED <<brk, probe>>

\* The attempt ends without a call: another account is tried, or the request is
\* answered.  The breaker learns nothing.
GivenUp(r) == /\ \/ phase[r] = "entering" /\ Refuse(r)
                 \/ phase[r] = "calling" /\ GiveUp(r)
              /\ \E p \in {"idle", "gated"} : Moves(r, p)
              /\ probe' = [probe EXCEPT ![r] = FALSE]
              /\ UNCHANGED brk

\* The slot is given back when the call failed or its body was read, for a
\* stream when the client has drained it.
GiveBack(r) == /\ Release(r)
               /\ phase' = [phase EXCEPT ![r] = IF @ = "calling" THEN "called" ELSE @]
               /\ UNCHANGED <<brk, probe>>

\* The outcome, and what the breaker is told of it.  "fail" is a status of
\* PROVIDER_BREAKER_FAILURE_STATUSES, to which the 503 of a refused attempt
\* belongs; "other" is any other error (400, 401, 404, 429, an abort).  A combo
\* may leave a failure out (dedup windows, the same provider comes next).
Accounts(outcome) ==
  CASE outcome = "ok"    -> {OnSuccess(brk), RecordSuccess(brk)}
    [] outcome = "fail"  -> {OnFailure(brk), RecordFailure(brk),
                             RecordFailure(OnFailure(brk)), brk}
    [] outcome = "other" -> {brk}

\* After a success the stream may go on; after an error the next account may be
\* tried, before anything is accounted.
Settle(r) ==
  /\ \/ /\ phase[r] \in {"calling", "called"} /\ slot[r] # "waiting"
        /\ \E b \in Accounts("ok") : BreakerIs(b, [probe EXCEPT ![r] = FALSE])
        /\ Moves(r, "idle")
     \/ /\ phase[r] \in {"called", "turned_away"}
        /\ \E outcome \in {"fail", "other"} :
             /\ phase[r] = "turned_away" => outcome = "fail"
             /\ \E b \in Accounts(outcome) : BreakerIs(b, [probe EXCEPT ![r] = FALSE])
        /\ Moves(r, "idle")
     \/ /\ phase[r] \in {"called", "turned_away"}
        /\ Moves(r, "gated")
        /\ BreakerIs(brk, [probe EXCEPT ![r] = FALSE])
  /\ UNCHANGED slots

-----------------------------------------------------------------------------
\* The cooldown of an open circuit passes.
Cooldown == /\ brk.state = "OPEN" /\ ~brk.cooled
            /\ brk' = [brk EXCEPT !.cooled = TRUE]
            /\ UNCHANGED <<slots, phase, probe>>

\* POST /api/resilience/reset.
OperatorResets == /\ BreakerIs(ResetBreaker(brk), probe)
                  /\ UNCHANGED <<slots, phase>>

\* Somebody looks at the breaker (health pages, combo routing).
Looked == /\ BreakerIs(Refresh(brk), probe)
          /\ UNCHANGED <<slots, phase>>

\* The database stops or starts to answer (locked, full, not ready).
DatabaseTurns == /\ brk' = [brk EXCEPT !.db = ~@]
                 /\ UNCHANGED <<slots, phase, probe>>

\* The process ends, and with it all requests; the breaker is read back.  (A row
\* older than the breaker has a cooldown that ended earlier, if it has one.)
Restart == /\ SlotsLost
           /\ \E over \in {brk.cooled, brk.cooled \/ brk.behind} : brk' = Restore(brk, over)
           /\ phase' = [r \in Requests |-> "idle"]
           /\ probe' = [r \in Requests |-> FALSE]

Blocks(g) == (MarkBlocked(g) \/ BlockEnds(g)) /\ UNCHANGED <<brk, phase, probe>>

Init == /\ SlotsInit
        /\ brk = NewBreaker
        /\ phase = [r \in Requests |-> "idle"]
        /\ probe = [r \in Requests |-> FALSE]

Next == \/ \E r \in Requests : Arrive(r) \/ Dispatch(r) \/ Enqueue(r) \/ GivenUp(r)
                                 \/ GiveBack(r) \/ Settle(r)
        \/ Cooldown \/ OperatorResets \/ Looked \/ DatabaseTurns \/ Restart
        \/ \E g \in Gates : Blocks(g)

Spec == Init /\ [][Next]_vars

-----------------------------------------------------------------------------
(* Properties. *)

\* How a state of the circuit and a count of failures fit together.
Fits(state, failures) ==
  /\ state = "CLOSED" => failures < FailureThreshold /\ failures <= DegradationThreshold
  /\ state = "DEGRADED" => failures \in DegradationThreshold .. (FailureThreshold - 1)
  /\ state \in {"OPEN", "HALF_OPEN"} => failures = FailureThreshold

\* The state and the count tell one story, in the breaker and in the row a restart
\* reads: a circuit is open only after enough failures.  And no restart forgets it:
\* the row is what the breaker is, unless the database failed it the last time.
BreakerConsistent ==
  /\ Fits(brk.state, brk.failures)
  /\ Fits(brk.saved.state, brk.saved.failures)
  /\ ~brk.behind => brk.saved = [state |-> brk.state, failures |-> brk.failures]

\* In one HALF_OPEN period no more requests are on their way as probes than the
\* breaker allows, whoever passed the pipeline gate before.
ProbesWithinLimit ==
  brk.state = "HALF_OPEN" =>
    brk.permits + Cardinality({r \in Requests : probe[r]}) <= HalfOpenRequests

\* What the circuit breaker is for: once the cooldown is over, a probe is allowed,
\* and while none is on its way the next request is it.
ProbeAllowed ==
  brk.state = "HALF_OPEN" /\ (\A r \in Requests : phase[r] = "idle") => brk.permits > 0
=============================================================================
