---------------------------- MODULE TokenRefresh ----------------------------
(***************************************************************************)
(* OAuth token refresh of the bundled gateway                              *)
(* (open-sse/services/tokenRefresh.ts, refreshSerializer.ts,               *)
(* tokenRefresh/rotationMap.ts, tokenRefresh/casGuard.ts, and the callers  *)
(* in chatCore.ts, src/sse/services/tokenRefresh.ts and the on-demand      *)
(* quota page, credentialRefresh.ts) for connections of one rotation       *)
(* group, whose refresh tokens are good for one use.                       *)
(*                                                                         *)
(* The tokens of a connection are numbered in the order of their issue.    *)
(* The provider takes a token that was used before for theft and revokes   *)
(* the whole family.  JavaScript runs one handler at a time; what happens  *)
(* between two network or timer waits is one action.                       *)
(***************************************************************************)
EXTENDS Naturals, FiniteSets

CONSTANTS Callers,      \* requests, pages and sweeps that want a refresh
          Guarded,      \* those of the reactive path of chatCore.ts (401, 403)
          Pages,        \* those of the on-demand quota page
          Connections,
          Uses,         \* the connections a caller may want
          None,
          MaxToken      \* bound: tokens issued to a connection

ASSUME CallersAssumption == /\ Guarded \subseteq Callers /\ Pages \subseteq Callers \ Guarded
                            /\ Uses \in [Callers -> SUBSET Connections]
                            /\ None \notin Callers
                            /\ MaxToken \in Nat \ {0}

VARIABLES
  \* The provider.
  live,        \* the token it accepts
  revoked,     \* it has revoked the family
  \* The database.
  row,         \* the refresh token of the connection row
  fresh,       \* the row's access token is good for more than a minute
  \* The process.
  owner,       \* connectionRefreshMutex: the caller whose refresh is in flight
  remembered,  \* the rotation map: tokens whose successor is remembered
  tail,        \* groupTail: the last caller in the lane
  ahead,       \* the callers a caller in the lane waits for
  pc,          \* where a caller is
  conn,        \* its connection
  asked,       \* the token it loaded
  held,        \* the token it presents
  result,      \* the token it got or is being sent; 0 is none
  \* History.
  excused      \* connections whose rotation was lost, or row set back

provider == <<live, revoked>>
database == <<row, fresh>>
lane == <<tail, ahead>>
caller == <<pc, conn, asked, held, result>>
vars == <<provider, database, owner, remembered, lane, caller, excused>>

Token == 1..MaxToken

\* sharing: waits for the owner's promise; checking: reads the row; lane, posted,
\* answered: in serializeRefresh; got: about to persist.  A quota page takes the
\* lane before all this (outer), keeps it meanwhile, and has it still when it is
\* answered (gap).
Place == {"idle", "loaded", "outer", "sharing", "checking", "lane", "posted", "answered",
          "got", "gap"}

TypeOK ==
  /\ live \in [Connections -> Token]
  /\ revoked \in [Connections -> BOOLEAN]
  /\ row \in [Connections -> Token]
  /\ fresh \in [Connections -> BOOLEAN]
  /\ owner \in [Connections -> Callers \cup {None}]
  /\ remembered \in [Connections -> SUBSET Token]
  /\ tail \in Callers \cup {None}
  /\ ahead \in [Callers -> SUBSET Callers]
  /\ pc \in [Callers -> Place]
  /\ conn \in [Callers -> Connections \cup {None}]
  /\ asked \in [Callers -> Token \cup {0}]
  /\ held \in [Callers -> Token \cup {0}]
  /\ result \in [Callers -> Token \cup {0}]
  /\ excused \in [Connections -> BOOLEAN]

Goto(r, place) == pc' = [pc EXCEPT ![r] = place]

Excuse(c, when) == excused' = [excused EXCEPT ![c] = @ \/ when]

\* r goes to place; the callers in S are answered, their local variables gone; the
\* pages in P have the result of r and the lane.
Ended(S, P, r, place) ==
  /\ pc' = [q \in Callers |-> IF q = r THEN place
                              ELSE IF q \in P THEN "gap" ELSE IF q \in S THEN "idle" ELSE pc[q]]
  /\ conn' = [q \in Callers |-> IF q \in S THEN None ELSE conn[q]]
  /\ asked' = [q \in Callers |-> IF q \in S THEN 0 ELSE asked[q]]
  /\ held' = [q \in Callers |-> IF q \in S THEN 0 ELSE held[q]]
  /\ result' = [q \in Callers |-> IF q \in P THEN result[r] ELSE IF q \in S THEN 0 ELSE result[q]]

Sharers(r) == {q \in Callers : pc[q] = "sharing" /\ conn[q] = conn[r]}

\* The promise of r is settled: the mutex is free, and all who share it go on.
Settled(r, place) ==
  /\ owner' = [owner EXCEPT ![conn[r]] = None]
  /\ Ended((Sharers(r) \ Pages) \cup (IF place = "idle" THEN {r} ELSE {}),
           Sharers(r) \cap Pages, r, place)

-----------------------------------------------------------------------------
\* A caller reads the credentials of a connection, maybe long before it finds
\* that they need a refresh.  (Bound: a connection whose family is revoked is
\* left alone; it has to be authorized again.)
Load(r, c) ==
  /\ pc[r] = "idle" /\ ~revoked[c]
  /\ Goto(r, "loaded")
  /\ conn' = [conn EXCEPT ![r] = c]
  /\ asked' = [asked EXCEPT ![r] = IF r \in Guarded THEN row[c] ELSE 0]
  /\ held' = [held EXCEPT ![r] = row[c]]
  /\ result' = [result EXCEPT ![r] = 0]
  /\ UNCHANGED <<provider, database, owner, remembered, lane, excused>>

\* serializeRefresh: the caller chains itself to the tail of the lane.  A page that
\* has the lane chains itself behind itself.
Enqueue(r) ==
  /\ ahead' = [ahead EXCEPT ![r] = IF tail = None THEN {} ELSE ahead[tail] \cup {tail}]
  /\ tail' = r

\* refreshAndUpdateCredentialsWithResolver: a quota page takes the lane around the
\* executor's refreshCredentials.
EnqueuePage(r) ==
  /\ r \in Pages /\ pc[r] = "loaded"
  /\ Enqueue(r)
  /\ Goto(r, "outer")
  /\ UNCHANGED <<provider, database, owner, remembered, conn, asked, held, result, excused>>

\* getAccessToken: share the refresh in flight, or start one, which the rotation
\* map may answer.
Begin(r) ==
  /\ IF r \in Pages THEN pc[r] = "outer" /\ ahead[r] = {} ELSE pc[r] = "loaded"
  /\ \/ /\ owner[conn[r]] # None
        /\ Goto(r, "sharing")
        /\ UNCHANGED <<owner, result>>
     \/ /\ owner[conn[r]] = None
        /\ owner' = [owner EXCEPT ![conn[r]] = r]
        /\ IF held[r] \in remembered[conn[r]]
           THEN Goto(r, "got") /\ result' = [result EXCEPT ![r] = held[r] + 1]
           ELSE Goto(r, "checking") /\ UNCHANGED result
  /\ UNCHANGED <<provider, database, remembered, lane, conn, asked, held, excused>>

\* Mutant: the row's expiry is not looked at, its token not taken over.
CheckRow_keeps(r) ==
  /\ pc[r] = "checking"
  /\ Enqueue(r) /\ Goto(r, "lane")
  /\ UNCHANGED <<held, result, excused>>
  /\ UNCHANGED <<provider, database, owner, remembered, conn, asked>>

\* _getAccessTokenWithStalenessCheck: a row that has moved on is taken as it is,
\* or its token is the one to present; a read that fails is passed over.
CheckRow(r) ==
  LET c == conn[r] IN
  /\ pc[r] = "checking"
  /\ \/ /\ row[c] # held[r] /\ fresh[c]
        /\ result' = [result EXCEPT ![r] = row[c]]
        /\ Goto(r, "got")
        /\ UNCHANGED <<lane, held, excused>>
     \/ /\ row[c] = held[r] \/ ~fresh[c]
        /\ held' = [held EXCEPT ![r] = row[c]]
        /\ Enqueue(r) /\ Goto(r, "lane")
        /\ UNCHANGED <<result, excused>>
     \/ /\ Enqueue(r) /\ Goto(r, "lane")
        /\ Excuse(c, row[c] # held[r])
        /\ UNCHANGED <<held, result>>
  /\ UNCHANGED <<provider, database, owner, remembered, conn, asked>>

\* Its turn: the request is sent and carried out by the provider.
Post(r) ==
  LET c == conn[r] IN
  /\ pc[r] = "lane" /\ ahead[r] = {}
  /\ \/ /\ held[r] = live[c] /\ ~revoked[c] /\ live[c] < MaxToken
        /\ live' = [live EXCEPT ![c] = @ + 1]
        /\ result' = [result EXCEPT ![r] = live[c] + 1]
        /\ UNCHANGED revoked
     \/ /\ held[r] # live[c] \/ revoked[c]
        /\ revoked' = [revoked EXCEPT ![c] = TRUE]
        /\ UNCHANGED <<live, result>>
  /\ Goto(r, "posted")
  /\ UNCHANGED <<database, owner, remembered, lane, conn, asked, held, excused>>

\* The provider cannot be reached, or is at fault.
PostFails(r) ==
  /\ pc[r] = "lane" /\ ahead[r] = {}
  /\ Goto(r, "answered")
  /\ UNCHANGED <<provider, database, owner, remembered, lane, conn, asked, held, result, excused>>

Answer(r) ==
  /\ pc[r] = "posted"
  /\ Goto(r, "answered")
  /\ UNCHANGED <<provider, database, owner, remembered, lane, conn, asked, held, result, excused>>

\* The answer gets lost, and with it the token it carried.
AnswerLost(r) ==
  /\ pc[r] = "posted"
  /\ Goto(r, "answered")
  /\ result' = [result EXCEPT ![r] = 0]
  /\ Excuse(conn[r], result[r] # 0)
  /\ UNCHANGED <<provider, database, owner, remembered, lane, conn, asked, held>>

\* Mutants: a failure is remembered as a rotation; the lane is forgotten while
\* others wait in it; it is kept by a refresh that failed.
LeaveLane_records(r) ==
  /\ pc[r] = "answered"
  /\ ahead' = [q \in Callers |-> ahead[q] \ {r}]
  /\ tail' = IF tail = r THEN None ELSE tail
  /\ remembered' = [remembered EXCEPT ![conn[r]] = @ \cup {held[r]}]
  /\ \/ /\ result[r] # 0
        /\ Goto(r, "got")
        /\ UNCHANGED <<owner, conn, asked, held, result>>
     \/ /\ result[r] = 0
        /\ Settled(r, "idle")
  /\ UNCHANGED <<provider, database, excused>>

LeaveLane_forgets(r) ==
  /\ pc[r] = "answered"
  /\ ahead' = [q \in Callers |-> ahead[q] \ {r}]
  /\ tail' = None
  /\ \/ /\ result[r] # 0
        /\ remembered' = [remembered EXCEPT ![conn[r]] = @ \cup {held[r]}]
        /\ Goto(r, "got")
        /\ UNCHANGED <<owner, conn, asked, held, result>>
     \/ /\ result[r] = 0
        /\ Settled(r, "idle")
        /\ UNCHANGED remembered
  /\ UNCHANGED <<provider, database, excused>>

LeaveLane_onSuccess(r) ==
  /\ pc[r] = "answered"
  /\ \/ /\ result[r] # 0
        /\ ahead' = [q \in Callers |-> ahead[q] \ {r}]
        /\ tail' = IF tail = r THEN None ELSE tail
        /\ remembered' = [remembered EXCEPT ![conn[r]] = @ \cup {held[r]}]
        /\ Goto(r, "got")
        /\ UNCHANGED <<owner, conn, asked, held, result>>
     \/ /\ result[r] = 0
        /\ Settled(r, "idle")
        /\ UNCHANGED <<remembered, lane>>
  /\ UNCHANGED <<provider, database, excused>>

\* After a gap, if somebody waits behind it, the caller leaves the lane; a
\* rotation is remembered, a failure ends the refresh.
LeaveLane(r) ==
  /\ pc[r] = "answered"
  /\ ahead' = [q \in Callers |-> ahead[q] \ {r}]
  /\ tail' = IF tail = r THEN None ELSE tail
  /\ \/ /\ result[r] # 0
        /\ remembered' = [remembered EXCEPT ![conn[r]] = @ \cup {held[r]}]
        /\ Goto(r, "got")
        /\ UNCHANGED <<owner, conn, asked, held, result>>
     \/ /\ result[r] = 0
        /\ Settled(r, "idle")
        /\ UNCHANGED remembered
  /\ UNCHANGED <<provider, database, excused>>

\* casGuardShouldSkipPersist: the row does not hold the token the caller loaded.
Skips(r) == r \in Guarded /\ row[conn[r]] # asked[r]

\* updateProviderCredentials with the result; setting the row back is an excuse.
Written(r) ==
  /\ row' = [row EXCEPT ![conn[r]] = result[r]]
  /\ fresh' = [fresh EXCEPT ![conn[r]] = TRUE]
  /\ Excuse(conn[r], result[r] < row[conn[r]])

\* The end of the mutex closure.  A write that fails is logged and passed over.
\* Sharers that write the result once more write the same in the same turn.
Persist(r) ==
  /\ pc[r] = "got" /\ r \notin Pages /\ ~Skips(r)
  /\ \/ Written(r)
     \/ Excuse(conn[r], result[r] # row[conn[r]]) /\ UNCHANGED database
  /\ Settled(r, "idle")
  /\ UNCHANGED <<provider, remembered, lane>>

\* The guard keeps the result from being persisted: persistFnRan is false, so
\* chatCore writes it itself in the same turn, or nobody does, when the attempts of
\* refreshWithRetry have timed out.
Rewrite(r) ==
  /\ pc[r] = "got" /\ Skips(r)
  /\ \/ Written(r)
     \/ Excuse(conn[r], result[r] # row[conn[r]]) /\ UNCHANGED database
  /\ Settled(r, "idle")
  /\ UNCHANGED <<provider, remembered, lane>>

\* The closure of a page ends without a write, unless one who shares it writes the
\* result (chatCore, whose persistFn did not run).
PersistNothing(r) ==
  /\ r \in Pages /\ pc[r] = "got"
  /\ Settled(r, "gap")
  /\ \/ UNCHANGED <<database, excused>>
     \/ Sharers(r) # {} /\ Written(r)
  /\ UNCHANGED <<provider, remembered, lane>>

\* After the gap, if somebody waits behind it, the page gives the lane back and
\* then writes what it got, outside the mutex and without a guard.
EndPage(r) ==
  /\ pc[r] = "gap"
  /\ ahead' = [q \in Callers |-> ahead[q] \ {r}]
  /\ tail' = IF tail = r THEN None ELSE tail
  /\ \/ UNCHANGED <<database, excused>>
     \/ result[r] # 0 /\ Written(r)
  /\ Ended({r}, {}, r, "idle")
  /\ UNCHANGED <<provider, owner, remembered>>

\* refreshWithRetry: the attempt of a request that shares a refresh times out; it
\* tries again or gives up.
TimeOut(r) ==
  /\ r \in Guarded /\ pc[r] = "sharing"
  /\ \/ Goto(r, "loaded") /\ UNCHANGED <<conn, asked, held, result>>
     \/ Ended({r}, {}, r, "idle")
  /\ UNCHANGED <<provider, database, owner, remembered, lane, excused>>

-----------------------------------------------------------------------------
\* The oldest entry of the rotation map times out.
Forget(c) ==
  /\ \E k \in remembered[c] :
       /\ \A j \in remembered[c] : k <= j
       /\ remembered' = [remembered EXCEPT ![c] = @ \ {k}]
  /\ UNCHANGED <<provider, database, owner, lane, caller, excused>>

\* The access token of the row nears its end.
Expire(c) ==
  /\ fresh[c]
  /\ fresh' = [fresh EXCEPT ![c] = FALSE]
  /\ UNCHANGED <<provider, row, owner, remembered, lane, caller, excused>>

\* The process ends and another one begins; a token that is not in the row by
\* now is lost.
Crash ==
  /\ owner' = [c \in Connections |-> None]
  /\ remembered' = [c \in Connections |-> {}]
  /\ tail' = None
  /\ ahead' = [r \in Callers |-> {}]
  /\ Ended(Callers, {}, None, "idle")
  /\ excused' = [c \in Connections |-> excused[c] \/ row[c] # live[c]]
  /\ UNCHANGED <<provider, database>>

Init ==
  /\ live = [c \in Connections |-> 1]
  /\ revoked = [c \in Connections |-> FALSE]
  /\ row = [c \in Connections |-> 1]
  /\ fresh = [c \in Connections |-> TRUE]
  /\ owner = [c \in Connections |-> None]
  /\ remembered = [c \in Connections |-> {}]
  /\ tail = None
  /\ ahead = [r \in Callers |-> {}]
  /\ pc = [r \in Callers |-> "idle"]
  /\ conn = [r \in Callers |-> None]
  /\ asked = [r \in Callers |-> 0]
  /\ held = [r \in Callers |-> 0]
  /\ result = [r \in Callers |-> 0]
  /\ excused = [c \in Connections |-> FALSE]

Refresh(r) == CheckRow(r) \/ Post(r) \/ PostFails(r) \/ Answer(r) \/ AnswerLost(r)
                \/ LeaveLane(r) \/ Persist(r) \/ Rewrite(r)
                \/ (r \in Pages /\ Begin(r)) \/ PersistNothing(r) \/ EndPage(r)

Next == \/ \E r \in Callers : \/ Begin(r) \/ Refresh(r) \/ EnqueuePage(r) \/ TimeOut(r)
                              \/ \E c \in Uses[r] : Load(r, c)
        \/ \E c \in Connections : Forget(c) \/ Expire(c)
        \/ Crash

Spec == Init /\ [][Next]_vars

\* Every wait of a refresh ends: a read, a request (answered, failed or timed
\* out), a gap.
FairSpec == Spec /\ \A r \in Callers : WF_vars(Refresh(r))

-----------------------------------------------------------------------------
(* Properties. *)

\* A used token is not presented, however old the credentials of a caller are:
\* the family of a connection lives, and the token of its row is the one the
\* provider accepts or the owner of the mutex is bringing it.  The exceptions
\* are a rotation whose answer or write was lost, a row that could not be read,
\* and a row set back (see RowNeverReverts).
RowIsUsable ==
  \A c \in Connections : ~excused[c] =>
    /\ ~revoked[c]
    /\ \/ row[c] = live[c]
       \/ \E r \in Callers : /\ owner[c] = r /\ conn[r] = c /\ result[r] = live[c]
                             /\ pc[r] \in {"posted", "answered", "got"}

\* No two refreshes of the group are on the network at a time, on one connection
\* or on two (refreshSerializer.ts: "concurrency=1 across every connection in a
\* rotation group"), whoever chains himself to a lane that is being given up.
OneInFlight ==
  \A r, q \in Callers :
    pc[r] \in {"posted", "answered"} /\ pc[q] \in {"posted", "answered"} => r = q

\* A page waits behind itself: it has the lane, and its own refresh, or the one it
\* shares, stands in the lane behind it (credentialRefresh.ts takes the lane, and
\* getAccessToken takes it again).
Jammed == \E p \in Pages : \/ pc[p] = "lane"
                           \/ pc[p] = "sharing" /\ p \in ahead[owner[conn[p]]]

\* Whoever asks for a refresh gets an answer: no failure, loss or crash leaves a
\* lane or a mutex behind that nobody gives back.  The one exception is a page that
\* waits behind itself (see QueueFlows).
RefreshEnds ==
  \A r \in Callers : pc[r] \in Place \ {"idle", "loaded"} ~> pc[r] \in {"idle", "loaded"} \/ Jammed

\* What refreshSerializer.ts says of the lane: "its `finally` still releases the
\* lane, so the queue keeps flowing even after a failed refresh".
QueueFlows == \A r \in Callers : pc[r] \in {"outer", "lane"} ~> pc[r] \notin {"outer", "lane"}

\* What the guard is for: a token that was rotated is not written over a later
\* one ("SKIPS the persist so the DB stays at the fresher state").
RowNeverReverts == [][\A c \in Connections : row'[c] >= row[c]]_vars
=============================================================================
