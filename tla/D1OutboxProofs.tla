--------------------------- MODULE D1OutboxProofs ---------------------------
(***************************************************************************)
(* Proofs about D1Outbox, for any number of clients and sessions, any      *)
(* bound on the writes, and a remote database that enforces foreign keys   *)
(* or does not.                                                            *)
(***************************************************************************)
EXTENDS D1Outbox, TLAPS

\* While a query is on its way to the remote database, every write that was
\* committed when the client found nothing pending has been executed there.  That
\* a repeated statement of another client has not undone it is not said: see
\* ReadsAreCurrent, which holds with one client.
EarlierWritesLanded == \A c \in Clients : read[c] > 0 => 1..(read[c] - 1) \subseteq landed

\* NothingLost needs to know what a thread may remove: a write that it saw
\* executed.  That EarlierWritesLanded holds when the client looks, with an empty
\* outbox, is NothingLost.
Inv == TypeOK /\ AckMeansLanded /\ NothingLost /\ EarlierWritesLanded

-----------------------------------------------------------------------------
\* The effect of a statement on well-formed tables is a pair of well-formed
\* tables.
LEMMA EffectType ==
  ASSUME NEW t \in Tables, NEW w \in Statements, NEW i \in Nat, NEW fk \in BOOLEAN
  PROVE  Effect(t, w, i, fk) \in Tables
<1>1. w.op \in {"save", "add", "clear", "drop"} /\ w.of \in Sessions
  BY DEF Statements
<1>2. t.sess \in [Sessions -> Nat] /\ t.rows \subseteq Sessions \X Nat
  BY DEF Tables
<1>3. [t.sess EXCEPT ![w.of] = i] \in [Sessions -> Nat]
  BY <1>1, <1>2
<1>4. [t.sess EXCEPT ![w.of] = 0] \in [Sessions -> Nat]
  BY <1>1, <1>2
<1>5. t.rows \cup {<<w.of, i>>} \subseteq Sessions \X Nat
  BY <1>1, <1>2
<1>6. t.rows \ Children(t, w.of) \subseteq Sessions \X Nat
  BY <1>2
<1> QED
  BY <1>1, <1>2, <1>3, <1>4, <1>5, <1>6 DEF Effect, Tables

\* The initial state satisfies the invariant.
LEMMA InitInv == Init => Inv
<1> SUFFICES ASSUME Init PROVE Inv
  OBVIOUS
<1>1. NoRows \in Tables
  BY DEF NoRows, Tables
<1>2. TypeOK
  <2>1. <<NoRows>> \in Seq(Tables) /\ Len(<<NoRows>>) = 1
    BY <1>1
  <2> QED
    BY <1>1, <2>1, MaxWritesAssumption DEF Init, TypeOK, Place
<1>3. AckMeansLanded /\ NothingLost /\ EarlierWritesLanded
  BY DEF Init, AckMeansLanded, NothingLost, EarlierWritesLanded
<1> QED
  BY <1>2, <1>3 DEF Inv

\* Every step preserves the type invariant.
LEMMA TypeStep ==
  ASSUME TypeOK, [Next]_vars
  PROVE  TypeOK'
<1> USE MaxWritesAssumption DEF TypeOK, Place
<1>1. CASE UNCHANGED vars
  BY <1>1 DEF vars, file
<1>2. ASSUME NEW c \in Clients, Boot(c) PROVE TypeOK'
  BY <1>2 DEF Boot, Up, Goto, file
<1>3. ASSUME NEW c \in Clients, Close(c) PROVE TypeOK'
  BY <1>3 DEF Close, Up, file
<1>4. ASSUME NEW c \in Clients, Exit(c) PROVE TypeOK'
  BY <1>4 DEF Exit, Up, Goto, file
<1>5. ASSUME NEW c \in Clients, RetryDue(c) PROVE TypeOK'
  BY <1>5 DEF RetryDue, file
<1>6. ASSUME NEW c \in Clients, NEW w \in Statements, Write(c, w) PROVE TypeOK'
  <2>1. log' \in Seq(Statements) /\ Len(log') = Len(log) + 1
    BY <1>6 DEF Write
  <2>2. local' \in Tables
    <3>1. Len(log) + 1 \in Nat /\ FALSE \in BOOLEAN /\ local \in Tables
      OBVIOUS
    <3>2. local' = Effect(local, w, Len(log) + 1, FALSE)
      BY <1>6 DEF Write
    <3> QED
      BY <3>1, <3>2, EffectType
  <2>3. Len(log) \in Nat /\ Len(log) < MaxWrites
    BY <1>6 DEF Write
  <2>4. /\ outbox' = outbox \cup {Len(log) + 1} /\ landed' = landed /\ remote' = remote
        /\ pc' = pc /\ job' = job /\ backoff' = backoff /\ closed' = closed /\ read' = read
    BY <1>6 DEF Write
  <2>5. outbox' \subseteq 1..Len(log') /\ landed' \subseteq 1..Len(log')
    <3>1. 1..Len(log') = 1..Len(log) \cup {Len(log) + 1}
      BY <2>1, <2>3
    <3>2. outbox \subseteq 1..Len(log) /\ landed \subseteq 1..Len(log)
      OBVIOUS
    <3> QED
      BY <3>1, <3>2, <2>4, Zenon
  <2>6. \A d \in Clients : pc'[d] \in {"post", "ack"} => job'[d] \in 1..Len(log')
    BY <2>1, <2>3, <2>4
  <2>7. log' \in Seq(Statements) /\ Len(log') <= MaxWrites /\ remote' \in Tables
    BY <2>1, <2>3, <2>4
  <2>9. past' = Append(past, local') /\ past' \in Seq(Tables) /\ Len(past') = Len(log') + 1
    <3>1. past' = Append(past, local')
      BY <1>6 DEF Write
    <3>2. past \in Seq(Tables) /\ Len(past) = Len(log) + 1
      OBVIOUS
    <3> HIDE DEF TypeOK
    <3> QED
      BY <2>1, <2>2, <3>1, <3>2
  <2>8. /\ pc' \in [Clients -> Place] /\ job' \in [Clients -> 0..MaxWrites]
        /\ backoff' \in [Clients -> BOOLEAN] /\ closed' \in [Clients -> BOOLEAN]
        /\ read' \in [Clients -> 0..MaxWrites + 1]
    BY <2>4
  <2> QED
    BY <2>2, <2>5, <2>6, <2>7, <2>8, <2>9
<1>7. ASSUME NEW c \in Clients, ReadCheck(c) PROVE TypeOK'
  BY <1>7 DEF ReadCheck, Up, file
<1>8. ASSUME NEW c \in Clients, ReadRemote(c) PROVE TypeOK'
  <2>1. backoff' = backoff \/ backoff' = [backoff EXCEPT ![c] = TRUE]
    BY <1>8, Zenon DEF ReadRemote
  <2>2. backoff \in [Clients -> BOOLEAN] /\ [backoff EXCEPT ![c] = TRUE] \in [Clients -> BOOLEAN]
    OBVIOUS
  <2>3. backoff' \in [Clients -> BOOLEAN]
    BY <2>1, <2>2, Zenon
  <2>4. /\ read' = [read EXCEPT ![c] = 0]
        /\ UNCHANGED <<log, local, outbox, past, remote, landed, pc, job, closed>>
    BY <1>8, Zenon DEF ReadRemote, file
  <2> QED
    BY <2>3, <2>4
<1>9. ASSUME NEW c \in Clients, Wake(c) PROVE TypeOK'
  BY <1>9 DEF Wake, Goto, file
<1>10. ASSUME NEW c \in Clients, Take(c) PROVE TypeOK'
  <2>1. CASE closed[c]
    <3>1. pc' = [pc EXCEPT ![c] = "none"] /\ job' = job
      BY <1>10, <2>1, Zenon DEF Take, Goto
    <3> QED
      BY <1>10, <3>1 DEF Take, file
  <2>2. CASE ~closed[c] /\ outbox = {}
    <3>1. pc' = [pc EXCEPT ![c] = "wait"] /\ job' = job
      BY <1>10, <2>2, Zenon DEF Take, Goto
    <3> QED
      BY <1>10, <3>1 DEF Take, file
  <2>3. CASE ~closed[c] /\ outbox # {}
    <3>1. PICK i \in outbox : pc' = [pc EXCEPT ![c] = "post"] /\ job' = [job EXCEPT ![c] = i]
      BY <1>10, <2>3, Zenon DEF Take, Goto
    <3>2. i \in 1..Len(log) /\ i \in 0..MaxWrites
      BY <3>1
    <3> QED
      BY <1>10, <3>1, <3>2 DEF Take, file
  <2> QED
    BY <2>1, <2>2, <2>3
<1>11. ASSUME NEW c \in Clients, pc[c] = "post", Execute(c)
       PROVE  remote' \in Tables /\ landed' \subseteq 1..Len(log)
  <2>1. job[c] \in 1..Len(log) /\ log[job[c]] \in Statements
    BY <1>11
  <2>2. job[c] \in Nat /\ remote \in Tables
    BY <2>1
  <2>3. Effect(remote, log[job[c]], job[c], ForeignKeys) \in Tables
    BY <2>1, <2>2, EffectType, ForeignKeysAssumption
  <2> QED
    BY <1>11, <2>1, <2>3 DEF Execute
<1>12. ASSUME NEW c \in Clients, Post(c) PROVE TypeOK'
  BY <1>12, <1>11 DEF Post, Goto, file
<1>13. ASSUME NEW c \in Clients, AckLost(c) PROVE TypeOK'
  BY <1>13, <1>11 DEF AckLost, Defer, Goto, file
<1>14. ASSUME NEW c \in Clients, SyncFails(c) PROVE TypeOK'
  BY <1>14 DEF SyncFails, Defer, Goto, file
<1>15. ASSUME NEW c \in Clients, Remove(c) PROVE TypeOK'
  BY <1>15 DEF Remove, Goto
<1> QED
  BY <1>1, <1>2, <1>3, <1>4, <1>5, <1>6, <1>7, <1>8, <1>9, <1>10, <1>12, <1>13, <1>14, <1>15
  DEF Next, Caller, Sync

\* Every step preserves the three other conjuncts.
LEMMA InvStep ==
  ASSUME Inv, [Next]_vars
  PROVE  Inv'
<1> USE MaxWritesAssumption DEF Inv, TypeOK, Place, AckMeansLanded, NothingLost, EarlierWritesLanded
<1>t. TypeOK'
  BY TypeStep
<1>s. SUFFICES AckMeansLanded' /\ NothingLost' /\ EarlierWritesLanded'
  BY <1>t
<1> DEFINE Rest == AckMeansLanded' /\ NothingLost' /\ EarlierWritesLanded'
<1>1. CASE UNCHANGED vars
  BY <1>1 DEF vars, file
<1>2. ASSUME NEW c \in Clients, Boot(c) PROVE Rest
  BY <1>2 DEF Boot, Up, Goto, file
<1>3. ASSUME NEW c \in Clients, Close(c) PROVE Rest
  BY <1>3 DEF Close, Up, file
<1>4. ASSUME NEW c \in Clients, Exit(c) PROVE Rest
  BY <1>4 DEF Exit, Up, Goto, file
<1>5. ASSUME NEW c \in Clients, RetryDue(c) PROVE Rest
  BY <1>5 DEF RetryDue, file
<1>6. ASSUME NEW c \in Clients, NEW w \in Statements, Write(c, w) PROVE Rest
  <2>1. Len(log') = Len(log) + 1 /\ outbox' = outbox \cup {Len(log) + 1} /\ landed' = landed
    BY <1>6 DEF Write
  <2> QED
    BY <1>6, <2>1 DEF Write
<1>7. ASSUME NEW c \in Clients, ReadCheck(c) PROVE Rest
  <2>1. 1..Len(log) \subseteq landed
    BY <1>7 DEF ReadCheck
  <2> QED
    BY <1>7, <2>1 DEF ReadCheck, Up, file
<1>8. ASSUME NEW c \in Clients, ReadRemote(c) PROVE Rest
  BY <1>8 DEF ReadRemote, file
<1>9. ASSUME NEW c \in Clients, Wake(c) PROVE Rest
  BY <1>9 DEF Wake, Goto, file
<1>10. ASSUME NEW c \in Clients, Take(c) PROVE Rest
  BY <1>10 DEF Take, Goto, file
<1>12. ASSUME NEW c \in Clients, Post(c) PROVE Rest
  BY <1>12 DEF Post, Execute, Goto, file
<1>13. ASSUME NEW c \in Clients, AckLost(c) PROVE Rest
  BY <1>13 DEF AckLost, Execute, Defer, Goto, file
<1>14. ASSUME NEW c \in Clients, SyncFails(c) PROVE Rest
  BY <1>14 DEF SyncFails, Defer, Goto, file
<1>15. ASSUME NEW c \in Clients, Remove(c) PROVE Rest
  BY <1>15 DEF Remove, Goto
<1> QED
  BY <1>1, <1>2, <1>3, <1>4, <1>5, <1>6, <1>7, <1>8, <1>9, <1>10, <1>12, <1>13, <1>14, <1>15
  DEF Next, Caller, Sync

\* The invariant holds in every reachable state.
LEMMA InvHolds == Spec => []Inv
<1>1. Init => Inv
  BY InitInv
<1>2. Inv /\ [Next]_vars => Inv'
  BY InvStep
<1> QED
  BY <1>1, <1>2, PTL DEF Spec

\* D1DatabaseClient and its sync threads keep their state well-formed.
THEOREM OutboxTypeCorrect == Spec => []TypeOK
<1>1. Inv => TypeOK
  BY DEF Inv
<1> QED
  BY <1>1, InvHolds, PTL

\* A write leaves the outbox only after the remote database executed it.
THEOREM Durable == Spec => []NothingLost
<1>1. Inv => NothingLost
  BY DEF Inv
<1> QED
  BY <1>1, InvHolds, PTL

\* No query goes to a remote database that has yet to execute a write committed
\* before the client looked whether anything is pending (execute), with any number
\* of clients.
THEOREM FreshReads == Spec => []EarlierWritesLanded
<1>1. Inv => EarlierWritesLanded
  BY DEF Inv
<1> QED
  BY <1>1, InvHolds, PTL
=============================================================================
