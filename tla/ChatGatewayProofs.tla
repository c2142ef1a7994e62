-------------------------- MODULE ChatGatewayProofs --------------------------
(***************************************************************************)
(* Theorems about ChatGateway, for every finite set of requests, all gates *)
(* and limits, and all thresholds of the circuit breaker.                  *)
(***************************************************************************)
EXTENDS ChatGateway, AccountSemaphoreProofs

\* The chat path uses the semaphore by its protocol: each of its steps (chatCore.ts,
\* chatHelpers.ts, the reset route and a restart) is a step of the semaphore or
\* leaves it alone; nobody waits twice, releases what he does not hold, or is
\* blocked into a gate he is not at.  What is proved of the semaphore by itself
\* therefore holds in the gateway.
THEOREM GatewaySlots == Spec => SlotsSpec
<1>1. Init => SlotsInit
  BY DEF Init
<1>2. [Next]_vars => [SlotsNext]_slots
  <2> SUFFICES ASSUME [Next]_vars PROVE SlotsNext \/ UNCHANGED slots
    OBVIOUS
  <2>1. ASSUME NEW r \in Requests, Enqueue(r) \/ GivenUp(r) \/ GiveBack(r)
        PROVE  SlotsNext
    BY <2>1 DEF Enqueue, GivenUp, GiveBack, SlotsNext
  <2>2. ASSUME NEW r \in Requests, Arrive(r) \/ Dispatch(r) \/ Settle(r)
        PROVE  UNCHANGED slots
    BY <2>2 DEF Arrive, Dispatch, Settle
  <2>3. ASSUME Cooldown \/ OperatorResets \/ Looked \/ DatabaseTurns PROVE UNCHANGED slots
    BY <2>3 DEF Cooldown, OperatorResets, Looked, DatabaseTurns
  <2>4. ASSUME Restart PROVE SlotsNext
    BY <2>4 DEF Restart, SlotsNext
  <2>5. ASSUME NEW g \in Gates, Blocks(g) PROVE SlotsNext
    BY <2>5 DEF Blocks, SlotsNext
  <2>6. ASSUME UNCHANGED vars PROVE UNCHANGED slots
    BY <2>6 DEF vars
  <2> QED BY <2>1, <2>2, <2>3, <2>4, <2>5, <2>6 DEF Next
<1> QED BY <1>1, <1>2, PTL DEF Spec, SlotsSpec

\* HoldersCounted, with the breaker beside the gates (chatCore.ts and its release
\* functions).
THEOREM GatewayHoldersCounted == Spec => []HoldersCounted
BY GatewaySlots, HoldersCountedHolds, PTL

\* AdmittedInTurn in the gateway.
THEOREM GatewayAdmittedInTurn == Spec => AdmittedInTurn
BY GatewaySlots, AdmittedInTurnHolds, PTL

\* NotLeftWaiting in the gateway.
THEOREM GatewayNotLeftWaiting == Spec => NotLeftWaiting
BY GatewaySlots, NotLeftWaitingHolds, PTL

\* NoStall in the gateway: requests that wait for a global and an account gate do
\* not block one another.
THEOREM GatewayNoStall == Spec => NoStall
BY GatewaySlots, NoStallHolds, PTL

-----------------------------------------------------------------------------
(* The breaker. *)

\* A breaker as BreakerConsistent wants it.
Sound(b) ==
  /\ b \in Breaker
  /\ Fits(b.state, b.failures)
  /\ Fits(b.saved.state, b.saved.failures)
  /\ ~b.behind => b.saved = [state |-> b.state, failures |-> b.failures]

\* What is persisted is sound if the state and the count fit together.
LEMMA PersistedSound ==
  ASSUME NEW b, Sound(b),
         NEW st \in CircuitState, NEW fl \in 0..FailureThreshold, NEW pm \in 0..HalfOpenRequests,
         NEW cd \in BOOLEAN, Fits(st, fl)
  PROVE  Sound(Persisted(b, st, fl, pm, cd))
<1> DEFINE c == Persisted(b, st, fl, pm, cd)
           row == [state |-> st, failures |-> fl]
<1>1. /\ c.state = st /\ c.failures = fl /\ c.behind = ~b.db
      /\ c.saved = IF b.db THEN row ELSE b.saved
  BY DEF Persisted
<1>2. b.db \in BOOLEAN /\ b.saved \in [state : CircuitState, failures : 0..FailureThreshold]
  BY DEF Sound, Breaker
<1>3. c \in Breaker
  BY <1>2 DEF Persisted, Breaker
<1>4. Fits(c.saved.state, c.saved.failures)
  BY <1>1 DEF Sound
<1>5. ~c.behind => c.saved = row
  BY <1>1, <1>2
<1> HIDE DEF c
<1> QED BY <1>1, <1>3, <1>4, <1>5 DEF Sound, c

\* The parts of a sound breaker.
LEMMA SoundParts ==
  ASSUME NEW b, Sound(b)
  PROVE  /\ b.state \in CircuitState /\ b.failures \in 0..FailureThreshold
         /\ b.permits \in 0..HalfOpenRequests /\ b.cooled \in BOOLEAN
         /\ b.saved.state \in CircuitState /\ b.saved.failures \in 0..FailureThreshold
         /\ Fits(b.state, b.failures) /\ Fits(b.saved.state, b.saved.failures)
BY DEF Sound, Breaker

LEMMA ClosedFits ==
  Fits("CLOSED", 0) /\ "CLOSED" \in CircuitState /\ 0 \in 0..FailureThreshold
BY BreakerAssumption DEF Fits, CircuitState

LEMMA RefreshSound == ASSUME NEW b, Sound(b) PROVE Sound(Refresh(b))
<1>1. CASE b.state = "OPEN" /\ b.cooled
  <2>1. Fits("HALF_OPEN", b.failures) /\ "HALF_OPEN" \in CircuitState
    BY <1>1, SoundParts DEF Fits, CircuitState
  <2>2. HalfOpenRequests \in 0..HalfOpenRequests
    BY BreakerAssumption
  <2> QED BY <1>1, <2>1, <2>2, SoundParts, PersistedSound DEF Refresh
<1> QED BY <1>1 DEF Refresh

LEMMA OnSuccessSound == ASSUME NEW b, Sound(b) PROVE Sound(OnSuccess(b))
<1>1. CASE b.state \in {"OPEN", "HALF_OPEN"}
  BY <1>1, ClosedFits, SoundParts, PersistedSound DEF OnSuccess
<1>2. CASE b.state \notin {"OPEN", "HALF_OPEN"}
  <2> DEFINE fewer == IF b.failures = 0 THEN 0 ELSE b.failures - 1
             st == IF fewer <= DegradationThreshold THEN "CLOSED" ELSE b.state
  <2>1. Fits(st, fewer) /\ st \in CircuitState /\ fewer \in 0..FailureThreshold
    BY <1>2, SoundParts, BreakerAssumption DEF Fits, CircuitState
  <2>2. OnSuccess(b) = Persisted(b, st, fewer, b.permits, b.cooled)
    BY <1>2 DEF OnSuccess
  <2> HIDE DEF fewer, st
  <2> QED BY <2>1, <2>2, SoundParts, PersistedSound
<1> QED BY <1>1, <1>2

LEMMA OnFailureSound == ASSUME NEW b, Sound(b) PROVE Sound(OnFailure(b))
<1> DEFINE more == IF b.failures = FailureThreshold THEN b.failures ELSE b.failures + 1
           st == IF b.state \in {"OPEN", "HALF_OPEN"} \/ more = FailureThreshold THEN "OPEN"
                 ELSE IF more >= DegradationThreshold THEN "DEGRADED" ELSE b.state
<1>1. Fits(st, more) /\ st \in CircuitState /\ more \in 0..FailureThreshold
  BY SoundParts, BreakerAssumption DEF Fits, CircuitState
<1>2. OnFailure(b) = Persisted(b, st, more, b.permits, FALSE)
  BY DEF OnFailure
<1> HIDE DEF more, st
<1> QED BY <1>1, <1>2, SoundParts, PersistedSound

LEMMA ResetSound == ASSUME NEW b, Sound(b) PROVE Sound(ResetBreaker(b))
BY ClosedFits, SoundParts, PersistedSound DEF ResetBreaker

\* A restart reads back what was saved, with new permits, or begins with a closed
\* circuit beside the row it could not read.
LEMMA RestoreSound ==
  ASSUME NEW b, Sound(b), NEW over \in BOOLEAN PROVE Sound(Restore(b, over))
<1> DEFINE c == Restore(b, over)
           pm == IF b.saved.state = "HALF_OPEN" THEN HalfOpenRequests ELSE 0
<1>0. /\ pm \in 0..HalfOpenRequests /\ 0 \in 0..HalfOpenRequests
      /\ b.saved \in [state : CircuitState, failures : 0..FailureThreshold]
  BY BreakerAssumption DEF Sound, Breaker
<1>1. CASE b.db
  <2>1. c = [state |-> b.saved.state, failures |-> b.saved.failures, permits |-> pm,
             cooled |-> over /\ b.saved.state = "OPEN",
             saved |-> b.saved, behind |-> FALSE, db |-> TRUE]
    BY <1>1 DEF Restore
  <2>2. c \in Breaker
    BY <1>0, <2>1, SoundParts DEF Breaker
  <2>3. b.saved = [state |-> b.saved.state, failures |-> b.saved.failures]
    BY <1>0
  <2> HIDE DEF c, pm
  <2>4. c.state = b.saved.state /\ c.failures = b.saved.failures /\ c.saved = b.saved
    BY <2>1
  <2> QED BY <2>2, <2>3, <2>4, SoundParts DEF Sound, c
<1>2. CASE ~b.db
  <2>1. c = [state |-> "CLOSED", failures |-> 0, permits |-> 0, cooled |-> FALSE,
             saved |-> b.saved, behind |-> TRUE, db |-> FALSE]
    BY <1>2 DEF Restore, NewBreaker
  <2>2. c \in Breaker
    BY <1>0, <2>1, ClosedFits DEF Breaker
  <2> HIDE DEF c
  <2> QED BY <2>1, <2>2, ClosedFits, SoundParts DEF Sound, c
<1> QED BY <1>1, <1>2

LEMMA EnterSound == ASSUME NEW b, Sound(b), CanExecute(b) PROVE Sound(Enter(b))
<1>1. CASE b.state = "HALF_OPEN"
  <2>1. b.permits - 1 \in 0..HalfOpenRequests
    BY <1>1, SoundParts, BreakerAssumption DEF CanExecute
  <2>2. [b EXCEPT !.permits = b.permits - 1] \in Breaker
    BY <2>1 DEF Sound, Breaker
  <2> QED BY <1>1, <2>2 DEF Sound, Enter, Breaker
<1> QED BY <1>1 DEF Enter

\* What a request may have the breaker told keeps it sound.
LEMMA MethodsSound ==
  ASSUME NEW b, Sound(b)
  PROVE  /\ Sound(Refresh(b)) /\ Sound(OnSuccess(b)) /\ Sound(OnFailure(b))
         /\ Sound(RecordFailure(b)) /\ Sound(RecordSuccess(b))
         /\ Sound(RecordFailure(OnFailure(b)))
<1>1. ASSUME NEW c, Sound(c) PROVE Sound(RecordFailure(c))
  BY <1>1, RefreshSound, OnFailureSound DEF RecordFailure
<1>2. Sound(RecordSuccess(b))
  BY RefreshSound, OnSuccessSound DEF RecordSuccess
<1> QED BY <1>1, <1>2, RefreshSound, OnSuccessSound, OnFailureSound

\* A HALF_OPEN breaker is left as it is, or leaves HALF_OPEN.
Leaves(b, c) == b.state = "HALF_OPEN" /\ c.state = "HALF_OPEN" => c = b

LEMMA MethodsLeave ==
  ASSUME NEW b
  PROVE  /\ Leaves(b, Refresh(b)) /\ Leaves(b, OnSuccess(b)) /\ Leaves(b, OnFailure(b))
         /\ Leaves(b, RecordFailure(b)) /\ Leaves(b, RecordSuccess(b))
         /\ Leaves(b, RecordFailure(OnFailure(b))) /\ Leaves(b, ResetBreaker(b)) /\ Leaves(b, b)
<1> USE DEF Leaves
<1>1. b.state = "HALF_OPEN" => Refresh(b) = b
  BY DEF Refresh
<1>2. b.state = "HALF_OPEN" => OnSuccess(b).state = "CLOSED" /\ OnFailure(b).state = "OPEN"
  BY DEF OnSuccess, OnFailure, Persisted
<1>3. OnFailure(b).state = "OPEN" => RecordFailure(OnFailure(b)) = OnFailure(b)
  <2> DEFINE c == OnFailure(b)
  <2>1. c.cooled = FALSE
    BY DEF OnFailure, Persisted
  <2> HIDE DEF c
  <2>2. c.state = "OPEN" => Refresh(c) = c /\ ~CanExecute(c)
    BY <2>1 DEF Refresh, CanExecute
  <2>3. c.state = "OPEN" => RecordFailure(c) = c
    BY <2>2 DEF RecordFailure
  <2> QED BY <2>3 DEF c
<1>4. b.state = "HALF_OPEN" => RecordFailure(b) \in {b, OnFailure(b)} /\ RecordSuccess(b) = OnSuccess(b)
  BY <1>1 DEF RecordFailure, RecordSuccess
<1>5. ResetBreaker(b).state = "CLOSED"
  BY DEF ResetBreaker, Persisted
<1> QED BY <1>1, <1>2, <1>3, <1>4, <1>5

-----------------------------------------------------------------------------
(* The gateway. *)

\* The inductive invariant.
GatewayInv ==
  /\ SlotsInv
  /\ Sound(brk)
  /\ phase \in [Requests -> Phase]
  /\ probe \in [Requests -> BOOLEAN]
  /\ ProbesWithinLimit

Probes(prb) == {r \in Requests : prb[r]}

\* A step that tells the breaker something, and gives up some probes.
LEMMA BreakerStep ==
  ASSUME GatewayInv, NEW b, Sound(b), Leaves(brk, b),
         NEW prb \in [Requests -> BOOLEAN], \A r \in Requests : prb[r] => probe[r],
         BreakerIs(b, prb)
  PROVE  Sound(brk)' /\ probe' \in [Requests -> BOOLEAN] /\ ProbesWithinLimit'
<1> USE DEF GatewayInv
<1>1. brk' = b /\ probe' \in [Requests -> BOOLEAN]
  BY DEF BreakerIs
<1>2. ASSUME b.state = "HALF_OPEN"
      PROVE  b.permits + Cardinality({r \in Requests : probe'[r]}) <= HalfOpenRequests
  <2>1. b.permits \in 0..HalfOpenRequests /\ brk.permits \in 0..HalfOpenRequests
    BY SoundParts
  <2>2. CASE brk.state = "HALF_OPEN"
    <3>1. b = brk /\ probe' = prb
      BY <1>2, <2>2 DEF Leaves, BreakerIs
    <3>2. {r \in Requests : probe'[r]} \in SUBSET {r \in Requests : probe[r]}
      BY <3>1
    <3>3. {r \in Requests : probe[r]} \in SUBSET Requests
      OBVIOUS
    <3>4. /\ Cardinality({r \in Requests : probe'[r]}) <= Cardinality({r \in Requests : probe[r]})
          /\ Cardinality({r \in Requests : probe'[r]}) \in Nat
          /\ Cardinality({r \in Requests : probe[r]}) \in Nat
      BY <3>2, <3>3, Counting
    <3>5. brk.permits + Cardinality({r \in Requests : probe[r]}) <= HalfOpenRequests
      BY <2>2 DEF ProbesWithinLimit
    <3> QED BY <2>1, <3>1, <3>4, <3>5, BreakerAssumption
  <2>3. CASE brk.state # "HALF_OPEN"
    <3>1. {r \in Requests : probe'[r]} = {}
      BY <1>2, <2>3 DEF BreakerIs
    <3> QED BY <2>1, <3>1, FS_EmptySet, BreakerAssumption
  <2> QED BY <2>2, <2>3
<1> QED BY <1>1, <1>2 DEF ProbesWithinLimit

\* The attempt that the breaker lets through.
LEMMA EnterStep ==
  ASSUME GatewayInv, NEW r \in Requests, CanExecute(Refresh(brk)),
         brk' = Enter(Refresh(brk)),
         probe' = [q \in Requests |->
                     IF q = r THEN Refresh(brk).state = "HALF_OPEN"
                     ELSE probe[q] /\ ~(brk.state # "HALF_OPEN" /\ Refresh(brk).state = "HALF_OPEN")]
  PROVE  Sound(brk)' /\ probe' \in [Requests -> BOOLEAN] /\ ProbesWithinLimit'
<1> DEFINE b == Refresh(brk)
           old == {q \in Requests : probe[q] /\ brk.state = "HALF_OPEN"}
<1>1. Sound(b)
  BY RefreshSound DEF GatewayInv
<1>2. Sound(brk')
  BY <1>1, EnterSound
<1>3. probe' \in [Requests -> BOOLEAN]
  BY DEF GatewayInv
<1>4. ASSUME brk'.state = "HALF_OPEN"
      PROVE  brk'.permits + Cardinality({q \in Requests : probe'[q]}) <= HalfOpenRequests
  <2>1. b.state = "HALF_OPEN" /\ brk'.permits = b.permits - 1
    <3>1. b \in Breaker
      BY <1>1 DEF Sound
    <3>2. b.state = "HALF_OPEN"
      BY <1>4 DEF Enter
    <3>3. Enter(b) = [b EXCEPT !.permits = b.permits - 1]
      BY <3>2 DEF Enter
    <3> HIDE DEF b
    <3>4. [b EXCEPT !.permits = b.permits - 1].permits = b.permits - 1
      BY <3>1 DEF Breaker
    <3> QED BY <3>2, <3>3, <3>4 DEF b
  <2>2. {q \in Requests : probe'[q]} \in SUBSET (old \cup {r})
    BY <2>1
  <2>3. old \in SUBSET Requests /\ old \cup {r} \in SUBSET Requests
    OBVIOUS
  <2>4. Cardinality(old \cup {r}) <= Cardinality(old) + 1
    <3> HIDE DEF old
    <3>1. IsFiniteSet(old) /\ Cardinality(old) \in Nat
      BY <2>3, Counting
    <3>2. Cardinality(old \cup {r}) = IF r \in old THEN Cardinality(old) ELSE Cardinality(old) + 1
      BY <3>1, FS_AddElement
    <3> QED BY <3>1, <3>2
  <2>5. b.permits + Cardinality(old) <= HalfOpenRequests
    <3>1. CASE brk.state = "HALF_OPEN"
      <4>1. b = brk /\ old = {q \in Requests : probe[q]}
        BY <3>1 DEF Refresh
      <4> QED BY <3>1, <4>1 DEF GatewayInv, ProbesWithinLimit
    <3>2. CASE brk.state # "HALF_OPEN"
      <4>1. old = {}
        BY <3>2
      <4>2. b.permits \in 0..HalfOpenRequests /\ Cardinality(old) = 0
        BY <1>1, <4>1, SoundParts, FS_EmptySet
      <4> HIDE DEF old, b
      <4> QED BY <4>2, BreakerAssumption
    <3> QED BY <3>1, <3>2
  <2>6. b.permits \in 0..HalfOpenRequests
    BY <1>1, SoundParts
  <2>7. /\ Cardinality({q \in Requests : probe'[q]}) <= Cardinality(old \cup {r})
        /\ Cardinality({q \in Requests : probe'[q]}) \in Nat
        /\ Cardinality(old \cup {r}) \in Nat /\ Cardinality(old) \in Nat
    BY <2>2, <2>3, Counting
  <2> HIDE DEF old, b
  <2> QED BY <2>1, <2>4, <2>5, <2>6, <2>7, BreakerAssumption
<1> QED BY <1>2, <1>3, <1>4 DEF ProbesWithinLimit

LEMMA GatewayInit == Init => GatewayInv
<1> SUFFICES ASSUME Init PROVE GatewayInv
  OBVIOUS
<1>1. SlotsInv
  BY InitKeeps DEF Init
<1>2. Sound(brk) /\ brk.state = "CLOSED"
  <2>1. 0 \in 0..HalfOpenRequests
    BY BreakerAssumption
  <2>2. NewBreaker \in Breaker
    BY <2>1, ClosedFits DEF NewBreaker, Breaker
  <2> QED BY <2>2, ClosedFits DEF Init, NewBreaker, Sound
<1> QED BY <1>1, <1>2 DEF Init, GatewayInv, ProbesWithinLimit, Phase

\* The breaker and the requests, in every step.
LEMMA GatewayStep ==
  ASSUME GatewayInv, [Next]_vars
  PROVE  /\ Sound(brk)' /\ probe' \in [Requests -> BOOLEAN] /\ ProbesWithinLimit'
         /\ phase' \in [Requests -> Phase]
<1> DEFINE Goal == /\ Sound(brk)' /\ probe' \in [Requests -> BOOLEAN] /\ ProbesWithinLimit'
                   /\ phase' \in [Requests -> Phase]
<1>0. Sound(brk) /\ probe \in [Requests -> BOOLEAN] /\ phase \in [Requests -> Phase]
  BY DEF GatewayInv
<1>a. ASSUME NEW r \in Requests, NEW p \in Phase, Moves(r, p) PROVE phase' \in [Requests -> Phase]
  BY <1>0, <1>a DEF Moves
<1>b. ASSUME NEW r \in Requests, NEW b, Sound(b), Leaves(brk, b),
             BreakerIs(b, [probe EXCEPT ![r] = FALSE])
      PROVE  Sound(brk)' /\ probe' \in [Requests -> BOOLEAN] /\ ProbesWithinLimit'
  <2> DEFINE prb == [probe EXCEPT ![r] = FALSE]
  <2>1. prb \in [Requests -> BOOLEAN] /\ \A q \in Requests : prb[q] => probe[q]
    BY <1>0
  <2> HIDE DEF prb
  <2> QED BY <1>b, <2>1, BreakerStep DEF prb
<1>c. ASSUME NEW b, Sound(b), Leaves(brk, b), BreakerIs(b, probe)
      PROVE  Sound(brk)' /\ probe' \in [Requests -> BOOLEAN] /\ ProbesWithinLimit'
  BY <1>0, <1>c, BreakerStep
<1>1. ASSUME NEW r \in Requests, Arrive(r) PROVE Goal
  <2>1. BreakerIs(Refresh(brk), probe) /\ \E p \in Phase : Moves(r, p)
    BY <1>1 DEF Arrive, Phase
  <2> QED BY <1>0, <1>a, <1>c, <2>1, RefreshSound, MethodsLeave
<1>2. ASSUME NEW r \in Requests, Dispatch(r) PROVE Goal
  <2>1. \E p \in Phase : Moves(r, p)
    BY <1>2 DEF Dispatch, Phase
  <2>2. \/ BreakerIs(brk, probe)
        \/ BreakerIs(Refresh(brk), probe)
        \/ /\ CanExecute(Refresh(brk))
           /\ brk' = Enter(Refresh(brk))
           /\ probe' = [q \in Requests |->
                          IF q = r THEN Refresh(brk).state = "HALF_OPEN"
                          ELSE probe[q] /\ ~(brk.state # "HALF_OPEN" /\ Refresh(brk).state = "HALF_OPEN")]
    BY <1>2 DEF Dispatch
  <2>3. Sound(brk)' /\ probe' \in [Requests -> BOOLEAN] /\ ProbesWithinLimit'
    BY <1>0, <1>c, <2>2, RefreshSound, MethodsLeave, EnterStep
  <2> QED BY <1>a, <2>1, <2>3
<1>3. ASSUME NEW r \in Requests, Enqueue(r) PROVE Goal
  <2>1. (\E p \in Phase : Moves(r, p)) /\ BreakerIs(brk, probe)
    BY <1>3 DEF Enqueue, Phase, BreakerIs
  <2> QED BY <1>0, <1>a, <1>c, <2>1, MethodsLeave
<1>4. ASSUME NEW r \in Requests, GivenUp(r) PROVE Goal
  <2>1. (\E p \in Phase : Moves(r, p)) /\ BreakerIs(brk, [probe EXCEPT ![r] = FALSE])
    BY <1>4 DEF GivenUp, Phase, BreakerIs
  <2> QED BY <1>0, <1>a, <1>b, <2>1, MethodsLeave
<1>5. ASSUME NEW r \in Requests, GiveBack(r) PROVE Goal
  <2>1. BreakerIs(brk, probe) /\ phase' \in [Requests -> Phase]
    BY <1>0, <1>5 DEF GiveBack, Phase, BreakerIs
  <2> QED BY <1>0, <1>c, <2>1, MethodsLeave
<1>6. ASSUME NEW r \in Requests, Settle(r) PROVE Goal
  <2>1. \E p \in Phase : Moves(r, p)
    BY <1>6 DEF Settle, Phase
  <2>2. PICK b : /\ BreakerIs(b, [probe EXCEPT ![r] = FALSE])
                 /\ b \in {OnSuccess(brk), RecordSuccess(brk), OnFailure(brk), RecordFailure(brk),
                           RecordFailure(OnFailure(brk)), brk}
    BY <1>6 DEF Settle, Accounts
  <2>3. Sound(b) /\ Leaves(brk, b)
    BY <1>0, <2>2, MethodsSound, MethodsLeave
  <2> QED BY <1>a, <1>b, <2>1, <2>2, <2>3
<1>7. ASSUME Cooldown PROVE Goal
  <2>1. brk' = [brk EXCEPT !.cooled = TRUE] /\ brk.state = "OPEN" /\ UNCHANGED <<phase, probe>>
    BY <1>7 DEF Cooldown
  <2>2. Sound(brk') /\ brk'.state = "OPEN"
    BY <1>0, <2>1 DEF Sound, Breaker
  <2> QED BY <1>0, <2>1, <2>2 DEF ProbesWithinLimit
<1>d. ASSUME DatabaseTurns PROVE Goal
  <2>1. brk' = [brk EXCEPT !.db = ~@] /\ UNCHANGED <<phase, probe>>
    BY <1>d DEF DatabaseTurns
  <2>2. Sound(brk') /\ brk'.state = brk.state /\ brk'.permits = brk.permits
    BY <1>0, <2>1 DEF Sound, Breaker
  <2> QED BY <1>0, <2>1, <2>2 DEF ProbesWithinLimit, GatewayInv
<1>8. ASSUME OperatorResets \/ Looked PROVE Goal
  <2>1. \/ BreakerIs(ResetBreaker(brk), probe)
        \/ BreakerIs(Refresh(brk), probe)
    BY <1>8 DEF OperatorResets, Looked
  <2>2. UNCHANGED phase
    BY <1>8 DEF OperatorResets, Looked
  <2> QED BY <1>0, <1>c, <2>1, <2>2, RefreshSound, ResetSound, MethodsLeave
<1>9. ASSUME Restart PROVE Goal
  <2>1. Sound(brk')
    <3>1. brk.cooled \in BOOLEAN /\ brk.behind \in BOOLEAN
      BY <1>0 DEF Sound, Breaker
    <3>2. PICK over \in BOOLEAN : brk' = Restore(brk, over)
      BY <1>9, <3>1 DEF Restart
    <3> QED BY <1>0, <3>2, RestoreSound
  <2>2. {r \in Requests : probe'[r]} = {} /\ probe' \in [Requests -> BOOLEAN]
    BY <1>9 DEF Restart
  <2>3. phase' \in [Requests -> Phase]
    BY <1>9 DEF Restart, Phase
  <2>4. brk'.permits \in 0..HalfOpenRequests
    BY <2>1, SoundParts
  <2>5. ProbesWithinLimit'
    BY <2>2, <2>4, FS_EmptySet, BreakerAssumption DEF ProbesWithinLimit
  <2> QED BY <2>1, <2>2, <2>3, <2>5
<1>10. ASSUME NEW g \in Gates, Blocks(g) PROVE Goal
  BY <1>0, <1>10 DEF Blocks, ProbesWithinLimit, GatewayInv
<1>11. ASSUME UNCHANGED vars PROVE Goal
  BY <1>0, <1>11 DEF vars, ProbesWithinLimit, GatewayInv
<1> HIDE DEF Goal
<1>12. Goal
  BY <1>1, <1>2, <1>3, <1>4, <1>5, <1>6, <1>7, <1>8, <1>9, <1>10, <1>11, <1>d DEF Next
<1> QED BY <1>12 DEF Goal

LEMMA GatewayInvariant == Spec => []GatewayInv
<1>1. GatewayInv /\ [Next]_vars /\ SlotsInv' => GatewayInv'
  BY GatewayStep DEF GatewayInv
<1> QED BY <1>1, GatewayInit, GatewaySlots, SlotsInvariant, PTL DEF Spec

\* Every variable of the gateway keeps its type: no count goes below zero, no
\* permit beyond the limit.
THEOREM TypeCorrect == Spec => []TypeOK
<1>1. GatewayInv => TypeOK
  BY DEF GatewayInv, TypeOK, SlotsInv, Sound
<1> QED BY <1>1, GatewayInvariant, PTL

\* The state of the circuit, its count and its permits agree, and its row with
\* them unless the database failed the last time, over restarts (_onSuccess,
\* _onFailure, _refreshOpenState, reset, _persistToDb, _restoreFromDb).
THEOREM BreakerConsistentHolds == Spec => []BreakerConsistent
<1>1. GatewayInv => BreakerConsistent
  BY DEF GatewayInv, Sound, Fits, BreakerConsistent
<1> QED BY <1>1, GatewayInvariant, PTL

\* A HALF_OPEN breaker lets no more attempts through than it has permits, although
\* the pipeline gate and execute ask it at different times (execute, canExecute).
THEOREM ProbesWithinLimitHolds == Spec => []ProbesWithinLimit
<1>1. GatewayInv => ProbesWithinLimit
  BY DEF GatewayInv
<1> QED BY <1>1, GatewayInvariant, PTL

=============================================================================
