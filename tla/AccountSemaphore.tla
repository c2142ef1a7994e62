-------------------------- MODULE AccountSemaphore --------------------------
(***************************************************************************)
(* Concurrency admission of the bundled gateway                            *)
(* (open-sse/services/accountSemaphore.ts): a request is admitted when all *)
(* the gates it needs (global, provider, account) have room, and waits in  *)
(* all their queues otherwise.                                             *)
(*                                                                         *)
(* A request that waits is in queuedRequests and in the queue of each of   *)
(* its gates; it enters and leaves them together.  Their common order is   *)
(* kept as the requests ahead of each.  A gate that is absent from the map *)
(* is one that nobody uses, with nothing to remember.                      *)
(*                                                                         *)
(* unblock, reset and resetAll are called by tests only.                   *)
(***************************************************************************)
EXTENDS Naturals, FiniteSets

CONSTANTS Requests,
          Gates,    \* numbered in the order acquireMany sorts the keys
          Needs,    \* bound: the sets of gates that requests need
          Limits,   \* bound: the limits that requests come with
          MaxQueue  \* maxQueueSize

ASSUME SemaphoreAssumption == /\ IsFiniteSet(Requests)
                              /\ Gates \subseteq Nat
                              /\ Needs \subseteq SUBSET Gates
                              /\ Limits \subseteq Nat \ {0}
                              /\ MaxQueue \in Nat \ {0}

VARIABLES
  slot,     \* "none", "waiting" or "held"
  need,     \* the gates a request waits for or holds
  ahead,    \* the waiting requests that came before one that waits
  running,  \* gate.running
  limit,    \* gate.maxConcurrency, as the last request gave it
  blocked   \* gate.blockedUntil lies ahead

slots == <<slot, need, ahead, running, limit, blocked>>

SlotsTypeOK ==
  /\ slot \in [Requests -> {"none", "waiting", "held"}]
  /\ need \in [Requests -> SUBSET Gates]
  /\ ahead \in [Requests -> SUBSET Requests]
  /\ running \in [Gates -> Nat]
  /\ limit \in [Gates -> Nat]
  /\ blocked \in [Gates -> BOOLEAN]

Waiting == {r \in Requests : slot[r] = "waiting"}
Holders(g) == {r \in Requests : slot[r] = "held" /\ g \in need[r]}
Queue(g) == {r \in Waiting : g \in need[r]}

\* canAcquire: the request heads all its queues, and all its gates have room.
CanAcquire(r) ==
  /\ r \in Waiting
  /\ \A g \in need[r] : /\ ~blocked[g]
                        /\ running[g] < limit[g]
                        /\ ahead[r] \cap Queue(g) = {}

-----------------------------------------------------------------------------
\* drainQueues: of the requests W that wait, those in G are admitted, each in
\* its turn: it has room when those admitted before it have theirs, and everyone
\* ahead of it in a queue was admitted.  run, lim, ahd and ned are the gates and
\* requests as they are when the queues are drained.
Admits(G, W, run, lim, ahd, ned) ==
  /\ G \subseteq W
  /\ \A r \in W : r \in G <=>
       \A g \in ned[r] :
         LET before == {q \in ahd[r] \cap W : g \in ned[q]}
         IN  /\ ~blocked[g]
             /\ before \subseteq G
             /\ run[g] + Cardinality(before) < lim[g]

\* Mutant: who is admitted from a queue is not counted.
Drain_uncounted(W, base, run, lim, ahd, ned) ==
  \E G \in SUBSET W :
    /\ Admits(G, W, run, lim, ahd, ned)
    /\ slot' = [r \in Requests |-> IF r \in G THEN "held"
                                   ELSE IF r \in W THEN "waiting" ELSE base[r]]
    /\ running' = run
    /\ ahead' = [r \in Requests |-> IF r \in W \ G THEN (ahd[r] \cap W) \ G ELSE {}]
    /\ limit' = lim
    /\ need' = ned

\* The state after the queues were drained; base is what the requests that do
\* not wait have.
Drain(W, base, run, lim, ahd, ned) ==
  \E G \in SUBSET W :
    /\ Admits(G, W, run, lim, ahd, ned)
    /\ slot' = [r \in Requests |-> IF r \in G THEN "held"
                                   ELSE IF r \in W THEN "waiting" ELSE base[r]]
    /\ running' = [g \in Gates |-> run[g] + Cardinality({r \in G : g \in ned[r]})]
    /\ ahead' = [r \in Requests |-> IF r \in W \ G THEN (ahd[r] \cap W) \ G ELSE {}]
    /\ limit' = lim
    /\ need' = ned

Taken(set) == [g \in Gates |-> running[g] + (IF g \in set THEN 1 ELSE 0)]

\* acquireMany when the queue of a gate is full: the limits of the gates up to
\* the first full one are set all the same.
Refuse(r) ==
  /\ slot[r] = "none"
  /\ \E n \in Needs, wanted \in [Gates -> Limits], full \in Gates :
       /\ full \in n
       /\ Cardinality(Queue(full)) >= MaxQueue
       /\ \A g \in n : g < full => Cardinality(Queue(g)) < MaxQueue
       /\ limit' = [g \in Gates |-> IF g \in n /\ g <= full THEN wanted[g] ELSE limit[g]]
  /\ UNCHANGED <<slot, need, ahead, running, blocked>>

\* Mutant: a request is admitted past the queues.
Acquire_past(r) ==
  /\ slot[r] = "none"
  /\ \E n \in Needs, wanted \in [Gates -> Limits] :
       LET lim == [g \in Gates |-> IF g \in n THEN wanted[g] ELSE limit[g]]
           ned == [need EXCEPT ![r] = n]
           ahd == [ahead EXCEPT ![r] = Waiting]
           atOnce == \A g \in n : running[g] < lim[g] /\ ~blocked[g]
       IN  /\ \A g \in n : Cardinality(Queue(g)) < MaxQueue
           /\ \/ /\ atOnce
                 /\ slot' = [slot EXCEPT ![r] = "held"]
                 /\ need' = ned
                 /\ running' = Taken(n)
                 /\ limit' = lim
                 /\ UNCHANGED ahead
              \/ /\ ~atOnce
                 /\ Drain(Waiting \cup {r}, slot, running, lim, ahd, ned)
  /\ UNCHANGED blocked

\* acquireMany otherwise: admitted at once, or queued.
Acquire(r) ==
  /\ slot[r] = "none"
  /\ \E n \in Needs, wanted \in [Gates -> Limits] :
       LET lim == [g \in Gates |-> IF g \in n THEN wanted[g] ELSE limit[g]]
           ned == [need EXCEPT ![r] = n]
           ahd == [ahead EXCEPT ![r] = Waiting]
           atOnce == \A g \in n : Queue(g) = {} /\ running[g] < lim[g] /\ ~blocked[g]
       IN  /\ \A g \in n : Cardinality(Queue(g)) < MaxQueue
           /\ \/ /\ atOnce
                 /\ slot' = [slot EXCEPT ![r] = "held"]
                 /\ need' = ned
                 /\ running' = Taken(n)
                 /\ limit' = lim
                 /\ UNCHANGED ahead
              \/ /\ ~atOnce
                 /\ Drain(Waiting \cup {r}, slot, running, lim, ahd, ned)
  /\ UNCHANGED blocked

\* Mutant: the queues are not drained when a request gives up.
GiveUp_silent(r) ==
  /\ slot[r] = "waiting"
  /\ slot' = [slot EXCEPT ![r] = "none"]
  /\ ahead' = [q \in Requests |-> IF q = r THEN {} ELSE ahead[q] \ {r}]
  /\ need' = [need EXCEPT ![r] = {}]
  /\ UNCHANGED <<running, limit, blocked>>

\* The timer of a waiting request, or the abort of its caller.
GiveUp(r) ==
  /\ slot[r] = "waiting"
  /\ Drain(Waiting \ {r}, [slot EXCEPT ![r] = "none"], running, limit, ahead,
           [need EXCEPT ![r] = {}])
  /\ UNCHANGED blocked

\* The release function of an admitted request; it works once.
Release(r) ==
  /\ slot[r] = "held"
  /\ LET run == [g \in Gates |-> IF g \in need[r] THEN running[g] - 1 ELSE running[g]]
     IN  Drain(Waiting, [slot EXCEPT ![r] = "none"], run, limit, ahead,
               [need EXCEPT ![r] = {}])
  /\ UNCHANGED blocked

\* markBlocked, after a 429 that names an exhausted quota, and the end of the
\* block, which nobody is told of.
MarkBlocked(g) == /\ ~blocked[g]
                  /\ blocked' = [blocked EXCEPT ![g] = TRUE]
                  /\ UNCHANGED <<slot, need, ahead, running, limit>>

BlockEnds(g) == /\ blocked[g]
                /\ blocked' = [blocked EXCEPT ![g] = FALSE]
                /\ UNCHANGED <<slot, need, ahead, running, limit>>

\* The map of gates is empty in a new process.
SlotsInit ==
  /\ slot = [r \in Requests |-> "none"]
  /\ need = [r \in Requests |-> {}]
  /\ ahead = [r \in Requests |-> {}]
  /\ running = [g \in Gates |-> 0]
  /\ limit = [g \in Gates |-> 1]
  /\ blocked = [g \in Gates |-> FALSE]

SlotsLost ==
  /\ slot' = [r \in Requests |-> "none"]
  /\ need' = [r \in Requests |-> {}]
  /\ ahead' = [r \in Requests |-> {}]
  /\ running' = [g \in Gates |-> 0]
  /\ limit' = [g \in Gates |-> 1]
  /\ blocked' = [g \in Gates |-> FALSE]

SlotsNext ==
  \/ \E r \in Requests : Refuse(r) \/ Acquire(r) \/ GiveUp(r) \/ Release(r)
  \/ \E g \in Gates : MarkBlocked(g) \/ BlockEnds(g)
  \/ SlotsLost

SlotsSpec == SlotsInit /\ [][SlotsNext]_slots

-----------------------------------------------------------------------------
(* Properties. *)

\* The count of a gate is the number of requests that hold it, through every
\* refusal, timeout, abort and drain; and those that wait stand in one line, so
\* that the first of them is at the head of all its queues and no two wait for
\* each other.
HoldersCounted ==
  /\ \A g \in Gates : running[g] = Cardinality(Holders(g))
  /\ \A r, q \in Waiting : r # q => (q \in ahead[r] <=> r \notin ahead[q])
  /\ \A r \in Waiting : r \notin ahead[r] /\ \A q \in ahead[r] : ahead[q] \subseteq ahead[r]

\* Whoever is admitted finds room in all its gates: none is blocked and none
\* holds more than its limit, whatever was set in between; and nobody who came
\* before it still waits for one of them.
AdmittedInTurn ==
  [][\A r \in Requests : slot[r] # "held" /\ slot'[r] = "held" =>
       \A g \in need'[r] :
         /\ ~blocked[g]
         /\ Cardinality(Holders(g)') <= limit'[g]
         /\ \A q \in Waiting \ {r} : (slot[r] = "none" \/ q \in ahead[r]) /\ g \in need[q]
                                       => slot'[q] # "waiting"]_slots

\* No step leaves a request waiting that it has just made possible to admit, but
\* for two: the end of a block, and a refused request that raised a limit on its
\* way.  The queues are drained by neither.
NotLeftWaiting ==
  [][(\E r \in Waiting' : CanAcquire(r)' /\ ~CanAcquire(r)) =>
       slot' = slot /\ (blocked' # blocked \/ limit' # limit)]_slots
=============================================================================
