--------------------------- MODULE ProviderBreaker ---------------------------
(***************************************************************************)
(* The circuit breaker of one provider in the bundled gateway              *)
(* (src/shared/utils/circuitBreaker.ts) with the wrappers of               *)
(* open-sse/services/accountFallback.ts: a breaker is a record, and each   *)
(* method is an operator from the breaker before the call to the one after *)
(* it.  No method waits for anything, so each is one step of whoever calls *)
(* it (module ChatGateway).                                                *)
(***************************************************************************)
EXTENDS Naturals

CONSTANTS FailureThreshold,      \* failures that open the circuit
          DegradationThreshold,  \* failures that degrade it
          HalfOpenRequests       \* probes allowed in HALF_OPEN

ASSUME BreakerAssumption == /\ FailureThreshold \in Nat \ {0}
                            /\ DegradationThreshold \in Nat
                            /\ HalfOpenRequests \in Nat \ {0}

CircuitState == {"CLOSED", "DEGRADED", "OPEN", "HALF_OPEN"}

\* failureCount is counted up to the threshold: nothing tells larger values
\* apart.  cooled is about OPEN only: the cooldown since lastFailureTime is over.
\* saved is the row of domain_circuit_breakers; db, that the database can be read
\* and written (for all of a step); behind, that it could not when it was last
\* tried, so that the row may be older than the breaker.
Breaker == [state : CircuitState,
            failures : 0..FailureThreshold,
            permits : 0..HalfOpenRequests,
            cooled : BOOLEAN,
            saved : [state : CircuitState, failures : 0..FailureThreshold],
            behind : BOOLEAN,
            db : BOOLEAN]

\* The breaker b changes, and _persistToDb: what it is now is written to its row,
\* and that this failed is swallowed.
Persisted(b, state, failures, permits, cooled) ==
  [state |-> state, failures |-> failures, permits |-> permits, cooled |-> cooled,
   saved |-> IF b.db THEN [state |-> state, failures |-> failures] ELSE b.saved,
   behind |-> ~b.db,
   db |-> b.db]

\* A breaker without a row is a closed one.
NewBreaker == [state |-> "CLOSED", failures |-> 0, permits |-> 0, cooled |-> FALSE,
               saved |-> [state |-> "CLOSED", failures |-> 0],
               behind |-> FALSE, db |-> TRUE]

\* Mutant: the move to HALF_OPEN is not written.
Refresh_unsaved(b) ==
  IF b.state = "OPEN" /\ b.cooled
  THEN [b EXCEPT !.state = "HALF_OPEN", !.permits = HalfOpenRequests, !.cooled = FALSE]
  ELSE b

\* _refreshOpenState, called by every method that looks at the state.
Refresh(b) ==
  IF b.state = "OPEN" /\ b.cooled
  THEN Persisted(b, "HALF_OPEN", b.failures, HalfOpenRequests, FALSE)
  ELSE b

\* Mutant: HALF_OPEN lets everyone through.
CanExecute_half(b) == b.state # "OPEN"

\* canExecute, of a refreshed breaker.
CanExecute(b) == \/ b.state \in {"CLOSED", "DEGRADED"}
                 \/ b.state = "HALF_OPEN" /\ b.permits > 0

\* Mutant: a probe does not use up a permit.
Enter_free(b) == b

\* The part of execute before the call, of a refreshed breaker that can execute.
Enter(b) == IF b.state = "HALF_OPEN" THEN [b EXCEPT !.permits = @ - 1] ELSE b

\* _onSuccess
OnSuccess(b) ==
  LET fewer == IF b.failures = 0 THEN 0 ELSE b.failures - 1 IN
  IF b.state \in {"OPEN", "HALF_OPEN"}
  THEN Persisted(b, "CLOSED", 0, b.permits, FALSE)
  ELSE Persisted(b, IF fewer <= DegradationThreshold THEN "CLOSED" ELSE b.state,
                 fewer, b.permits, b.cooled)

\* _onFailure (no caller in the gateway sets kindThresholds).
OnFailure(b) ==
  LET more == IF b.failures = FailureThreshold THEN b.failures ELSE b.failures + 1 IN
  Persisted(b, IF b.state \in {"OPEN", "HALF_OPEN"} \/ more = FailureThreshold THEN "OPEN"
            ELSE IF more >= DegradationThreshold THEN "DEGRADED" ELSE b.state,
            more, b.permits, FALSE)

\* reset, by an operator.
ResetBreaker(b) == Persisted(b, "CLOSED", 0, b.permits, FALSE)

\* _restoreFromDb, in the next life of the process: what the row says, with new
\* permits; over, that the cooldown of an open circuit is over by the row's time.
\* If the row cannot be read, the circuit is closed.
Restore(b, over) ==
  IF b.db
  THEN [state |-> b.saved.state,
        failures |-> b.saved.failures,
        permits |-> IF b.saved.state = "HALF_OPEN" THEN HalfOpenRequests ELSE 0,
        cooled |-> over /\ b.saved.state = "OPEN",
        saved |-> b.saved, behind |-> FALSE, db |-> TRUE]
  ELSE [NewBreaker EXCEPT !.saved = b.saved, !.behind = TRUE, !.db = FALSE]

\* recordProviderFailure, of a combo: nothing while the provider is blocked.
RecordFailure(b) == IF CanExecute(Refresh(b)) THEN OnFailure(Refresh(b)) ELSE Refresh(b)

\* recordProviderSuccess, of a combo.
RecordSuccess(b) == IF Refresh(b).state = "OPEN" THEN b ELSE OnSuccess(Refresh(b))
=============================================================================
