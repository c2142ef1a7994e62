------------------------------ MODULE D1Outbox ------------------------------
(***************************************************************************)
(* D1DatabaseClient (core/d1_client.py): writes are committed to the local *)
(* SQLite file together with an outbox row; a background thread per client *)
(* replays the outbox to Cloudflare D1 in order of id, over HTTP; reads go *)
(* to the remote database only when nothing is pending.                    *)
(*                                                                         *)
(* A client is a process; several may share the local file.  All of them   *)
(* have the same credentials, so the outbox's target column is left out.   *)
(* A local transaction is one step, and so is the execution of a request   *)
(* by the remote database.  A request whose answer the client did not get  *)
(* was executed before the client sends the next one, or never.            *)
(***************************************************************************)
EXTENDS D1Tables, Sequences, FiniteSets

CONSTANTS Clients,
          ForeignKeys,  \* does the remote database enforce foreign keys?
          MaxWrites     \* bound on the writes of a behaviour

ASSUME ForeignKeysAssumption == ForeignKeys \in BOOLEAN
ASSUME MaxWritesAssumption == MaxWrites \in Nat

VARIABLES
  log,      \* every committed write, in order (the outbox's AUTOINCREMENT ids)
  local,    \* the local database
  outbox,   \* ids of the writes still in _kratos_d1_outbox
  past,     \* history: the local database at first and after each write
  remote,   \* the remote database
  landed,   \* history: ids of the writes the remote database has executed
  pc,       \* where each client's sync thread is
  job,      \* the outbox row it took
  backoff,  \* _remote_retry_at lies in the future
  closed,   \* _closed
  read      \* 0, or 1 + the number of writes before a query now on its way

file == <<log, local, outbox, past>>
vars == <<file, remote, landed, pc, job, backoff, closed, read>>

Place == {"off", "none", "wait", "take", "post", "ack"}

TypeOK ==
  /\ log \in Seq(Statements) /\ Len(log) <= MaxWrites
  /\ local \in Tables /\ remote \in Tables
  /\ past \in Seq(Tables) /\ Len(past) = Len(log) + 1
  /\ outbox \subseteq 1..Len(log) /\ landed \subseteq 1..Len(log)
  /\ pc \in [Clients -> Place]
  /\ job \in [Clients -> 0..MaxWrites]
  /\ \A c \in Clients : pc[c] \in {"post", "ack"} => job[c] \in 1..Len(log)
  /\ backoff \in [Clients -> BOOLEAN] /\ closed \in [Clients -> BOOLEAN]
  /\ read \in [Clients -> 0..MaxWrites + 1]

Up(c) == pc[c] # "off"
Goto(c, p) == pc' = [pc EXCEPT ![c] = p]

-----------------------------------------------------------------------------
(* The process.                                                            *)

\* __init__ and the first init_schema, which starts the sync thread.
Boot(c) ==
  /\ ~Up(c)
  /\ Goto(c, "wait")
  /\ UNCHANGED <<file, remote, landed, job, backoff, closed, read>>

\* close(): the thread is given half a second, then abandoned.
Close(c) ==
  /\ Up(c) /\ ~closed[c]
  /\ closed' = [closed EXCEPT ![c] = TRUE]
  /\ UNCHANGED <<file, remote, landed, pc, job, backoff, read>>

Exit(c) ==
  /\ Up(c)
  /\ Goto(c, "off")
  /\ job' = [job EXCEPT ![c] = 0]
  /\ backoff' = [backoff EXCEPT ![c] = FALSE]
  /\ closed' = [closed EXCEPT ![c] = FALSE]
  /\ read' = [read EXCEPT ![c] = 0]
  /\ UNCHANGED <<file, remote, landed>>

-----------------------------------------------------------------------------
(* execute.                                                                *)

\* Session ids come from create_session, which saves the session.
Known(s) == \E k \in DOMAIN log : log[k] = [op |-> "save", of |-> s]

\* A write: the statement and its outbox row in one transaction.  (The file
\* takes writes also after close.)
Write(c, w) ==
  /\ Up(c) /\ Len(log) < MaxWrites
  /\ w.op = "save" \/ Known(w.of)
  /\ log' = Append(log, w)
  /\ local' = Effect(local, w, Len(log) + 1, FALSE)
  /\ outbox' = outbox \cup {Len(log) + 1}
  /\ past' = Append(past, local')
  /\ UNCHANGED <<remote, landed, pc, job, backoff, closed, read>>

\* Mutant: a read goes to the remote database whatever is pending.
ReadCheck_always(c) ==
  /\ Up(c) /\ read[c] = 0 /\ ~backoff[c]
  /\ read' = [read EXCEPT ![c] = 1 + Len(log)]
  /\ UNCHANGED <<file, remote, landed, pc, job, backoff, closed>>

\* A read outside a turn, when nothing is pending and the remote database
\* is not known to fail.  Every other read is a query of the local file.
ReadCheck(c) ==
  /\ Up(c) /\ read[c] = 0
  /\ outbox = {} /\ ~backoff[c]
  /\ read' = [read EXCEPT ![c] = 1 + Len(log)]
  /\ UNCHANGED <<file, remote, landed, pc, job, backoff, closed>>

\* The remote query answers, or it fails and the local file is read.
ReadRemote(c) ==
  /\ read[c] > 0
  /\ read' = [read EXCEPT ![c] = 0]
  /\ \/ UNCHANGED backoff
     \/ backoff' = [backoff EXCEPT ![c] = TRUE]
  /\ UNCHANGED <<file, remote, landed, pc, job, closed>>

\* Thirty seconds after a failure.
RetryDue(c) ==
  /\ backoff[c]
  /\ backoff' = [backoff EXCEPT ![c] = FALSE]
  /\ UNCHANGED <<file, remote, landed, pc, job, closed, read>>

-----------------------------------------------------------------------------
(* _sync_remote.                                                           *)

\* The waits, for the event or 30 s and then for the retry time, are finite.
Wake(c) ==
  /\ pc[c] = "wait"
  /\ Goto(c, IF closed[c] THEN "none" ELSE "take")
  /\ UNCHANGED <<file, remote, landed, job, backoff, closed, read>>

\* An exception: the records remain in the outbox.
Defer(c) == /\ Goto(c, "wait")
            /\ backoff' = [backoff EXCEPT ![c] = TRUE]

\* Mutant: the thread goes on with the row it had.
Take_same(c) ==
  /\ pc[c] = "take"
  /\ Goto(c, IF closed[c] THEN "none" ELSE IF outbox = {} THEN "wait" ELSE "post")
  /\ UNCHANGED <<file, remote, landed, job, backoff, closed, read>>

\* Mutant: the outbox is read without ORDER BY.
Take_unordered(c) ==
  /\ pc[c] = "take"
  /\ IF closed[c] THEN Goto(c, "none") /\ UNCHANGED job
     ELSE IF outbox = {} THEN Goto(c, "wait") /\ UNCHANGED job
     ELSE \E i \in outbox : job' = [job EXCEPT ![c] = i] /\ Goto(c, "post")
  /\ UNCHANGED <<file, remote, landed, backoff, closed, read>>

\* Mutant: the row is deleted when it is taken.
Take_pops(c) ==
  /\ pc[c] = "take" /\ ~closed[c]
  /\ \E i \in outbox : /\ \A k \in outbox : i <= k
                        /\ outbox' = outbox \ {i}
                        /\ job' = [job EXCEPT ![c] = i]
  /\ Goto(c, "post")
  /\ UNCHANGED <<log, local, past, remote, landed, backoff, closed, read>>

\* The head of the inner loop: the oldest row of the outbox.
Take(c) ==
  /\ pc[c] = "take"
  /\ IF closed[c] THEN Goto(c, "none") /\ UNCHANGED job
     ELSE IF outbox = {} THEN Goto(c, "wait") /\ UNCHANGED job
     ELSE \E i \in outbox : /\ \A k \in outbox : i <= k
                            /\ job' = [job EXCEPT ![c] = i]
                            /\ Goto(c, "post")
  /\ UNCHANGED <<file, remote, landed, backoff, closed, read>>

\* Mutant: INSERT is sent as it was written.
Deliverable_plain(i) ==
  /\ Accepts(remote, log[i], ForeignKeys)
  /\ log[i].op = "add" => <<log[i].of, i>> \notin remote.rows

\* INSERT is sent as INSERT OR IGNORE: a row that is there already is no error.
Deliverable(i) == Accepts(remote, log[i], ForeignKeys)

Execute(c) == /\ Deliverable(job[c])
              /\ remote' = Effect(remote, log[job[c]], job[c], ForeignKeys)
              /\ landed' = landed \cup {job[c]}

\* _execute_remote: the statement is executed and acknowledged.
Post(c) ==
  /\ pc[c] = "post"
  /\ Execute(c)
  /\ Goto(c, "ack")
  /\ UNCHANGED <<file, job, backoff, closed, read>>

\* Executed, but the acknowledgement is lost.
AckLost(c) ==
  /\ pc[c] = "post"
  /\ Execute(c)
  /\ Defer(c)
  /\ UNCHANGED <<file, job, closed, read>>

\* Mutant: a row that cannot be delivered is given up.
SyncFails_drops(c) ==
  /\ pc[c] \in {"take", "post", "ack"}
  /\ Defer(c)
  /\ outbox' = outbox \ {job[c]}
  /\ UNCHANGED <<log, local, past, remote, landed, job, closed, read>>

\* Not executed: offline, refused, or a local error before or after.
SyncFails(c) ==
  /\ pc[c] \in {"take", "post", "ack"}
  /\ Defer(c)
  /\ UNCHANGED <<file, remote, landed, job, closed, read>>

\* A client closed meanwhile leaves the row for the next one to repeat.
Remove(c) ==
  /\ pc[c] = "ack"
  /\ IF closed[c]
     THEN Goto(c, "none") /\ UNCHANGED <<outbox, backoff>>
     ELSE /\ outbox' = outbox \ {job[c]}
          /\ backoff' = [backoff EXCEPT ![c] = FALSE]
          /\ Goto(c, "take")
  /\ UNCHANGED <<log, local, past, remote, landed, job, closed, read>>

-----------------------------------------------------------------------------
Sync(c) == Wake(c) \/ Take(c) \/ Post(c) \/ AckLost(c) \/ SyncFails(c) \/ Remove(c)

Caller(c) == \/ \E w \in Statements : Write(c, w)
             \/ ReadCheck(c) \/ ReadRemote(c)

Init ==
  /\ log = <<>> /\ local = NoRows /\ outbox = {} /\ past = <<NoRows>>
  /\ remote = NoRows /\ landed = {}
  /\ pc = [c \in Clients |-> "off"] /\ job = [c \in Clients |-> 0]
  /\ backoff = [c \in Clients |-> FALSE] /\ closed = [c \in Clients |-> FALSE]
  /\ read = [c \in Clients |-> 0]

Next == \E c \in Clients : Boot(c) \/ Close(c) \/ Exit(c) \/ RetryDue(c) \/ Caller(c) \/ Sync(c)

Spec == Init /\ [][Next]_vars

\* The thread goes on, and a remote database that is asked again and again
\* answers at last.  Nothing is assumed of the process or of the caller.
FairSpec ==
  Spec /\ \A c \in Clients : /\ WF_vars(Sync(c))
                             /\ SF_vars(Take(c)) /\ SF_vars(Post(c)) /\ SF_vars(Remove(c))

-----------------------------------------------------------------------------
(* Properties.                                                             *)

\* README.md: the retry queue is durable.  A write leaves the outbox only
\* after the remote database executed it, over lost requests, lost
\* acknowledgements, closed clients and crashes, also with two processes.
NothingLost == \A i \in 1..Len(log) : i \in outbox \cup landed

\* What the sync thread holds was not removed by anyone before it was executed.
AckMeansLanded == \A c \in Clients : pc[c] = "ack" => job[c] \in landed

\* What a database that enforces foreign keys still has of the tables: a session's
\* child rows that are younger than its row, since every save of it cascades
\* (INSERT OR REPLACE), and none of a session that was dropped.
Mirrored(t) ==
  [sess |-> t.sess,
   rows |-> {r \in t.rows : ForeignKeys => t.sess[r[1]] # 0 /\ t.sess[r[1]] < r[2]}]

\* With one client, an empty outbox means that the remote database is the local
\* one, but for exactly the rows that foreign keys took from it.
SyncedCopyAgrees == outbox = {} => remote = Mirrored(local)

\* With one client, a query of the remote database does not go back behind what the
\* local file held when the client found nothing pending, whatever is sent again
\* while it is on its way: it sees the local tables after some number of writes, at
\* least those committed by then, but for the rows that foreign keys took.  A write
\* committed between that look and the query it may miss.
ReadsAreCurrent ==
  \A c \in Clients : read[c] > 0 => \E k \in read[c]..Len(past) : remote = Mirrored(past[k])

\* With one client the remote database is the result of a prefix of the
\* writes, each executed once although requests are repeated.
Log == INSTANCE MirrorLog WITH done <- Cardinality(landed), copy <- remote

ImplementsLog == Log!LogSpec

\* The oldest row is one that the remote database does not take: a child of a
\* session that is not there.  Nothing passes it (_sync_remote stops at it).
Refused == \E i \in outbox : /\ \A k \in outbox : i <= k
                             /\ ~Accepts(remote, log[i], ForeignKeys)

\* A client that keeps running empties the outbox or comes to a refused row,
\* although any number of requests and acknowledgements may be lost.
OutboxDrains ==
  \A c \in Clients : <>[](Up(c) /\ ~closed[c]) => []<>(outbox = {} \/ Refused)
=============================================================================
