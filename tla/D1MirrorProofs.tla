--------------------------- MODULE D1MirrorProofs ---------------------------
(***************************************************************************)
(* Proofs about D1Outbox with one client, whether the remote database      *)
(* enforces foreign keys or not, for any sessions and any bound on the     *)
(* writes: the remote database follows the log write by write, and when    *)
(* the outbox is empty it is the local one, but for exactly the rows that  *)
(* the foreign keys took.                                                  *)
(***************************************************************************)
EXTENDS D1OutboxProofs, FiniteSetTheorems

Single == \A c, d \in Clients : c = d

\* The first n writes have landed, the first r have left the outbox, and the
\* thread works on the one after those.
Order(n, r) ==
  /\ n \in 0..Len(log) /\ r \in 0..n /\ n <= r + 1
  /\ landed = 1..n
  /\ outbox = (r + 1)..Len(log)
  /\ \A c \in Clients : pc[c] = "post" => job[c] = r + 1
  /\ \A c \in Clients : pc[c] = "ack" => job[c] = r + 1 /\ n = r + 1

\* No version and no row of the tables is younger than the k-th write.
Dated(t, k) == /\ \A s \in Sessions : t.sess[s] <= k
               /\ \A p \in t.rows : p[2] <= k

\* S is the local database after each of the writes, as past records it.
History(S) ==
  /\ S \in [0..Len(log) -> Tables]
  /\ S[0] = NoRows
  /\ \A k \in 1..Len(log) : S[k] = Effect(S[k - 1], log[k], k, FALSE)
  /\ \A k \in 0..Len(log) : Dated(S[k], k)
  /\ S[Len(log)] = local
  /\ \A k \in 0..Len(log) : past[k + 1] = S[k]

Mirror(n, r, S) == Order(n, r) /\ History(S) /\ remote = Mirrored(S[n])

\* The inductive invariant.
MInv == \E n, r, S : Mirror(n, r, S)

-----------------------------------------------------------------------------
(* What a statement does to a mirrored table.                              *)

\* A row of a table is a pair of a session and a number.
LEMMA RowsArePairs ==
  ASSUME NEW t \in Tables, NEW p \in t.rows
  PROVE  p[1] \in Sessions /\ p[2] \in Nat /\ p = <<p[1], p[2]>>
BY DEF Tables

LEMMA EffectDated ==
  ASSUME NEW t \in Tables, NEW w \in Statements, NEW k \in Nat, NEW i \in Nat, i = k + 1, Dated(t, k)
  PROVE  Dated(Effect(t, w, i, FALSE), i)
<1> DEFINE u == Effect(t, w, i, FALSE)
<1>1. t.sess \in [Sessions -> Nat] /\ w.of \in Sessions
  BY DEF Tables, Statements
<1>2. \A s \in Sessions : u.sess[s] \in {t.sess[s], i, 0}
  BY <1>1 DEF Effect
<1>3. \A s \in Sessions : u.sess[s] <= i
  <2> SUFFICES ASSUME NEW s \in Sessions PROVE u.sess[s] <= i
    OBVIOUS
  <2> DEFINE x == t.sess[s]
             y == u.sess[s]
  <2>1. x \in Nat /\ x <= k
    BY <1>1 DEF Dated
  <2>2. y \in {x, i, 0}
    BY <1>2
  <2> HIDE DEF x, y
  <2>3. y <= i
    BY <2>1, <2>2
  <2> QED BY <2>3 DEF y
<1>4. u.rows \subseteq t.rows \cup {<<w.of, i>>}
  BY DEF Effect
<1>5. \A p \in u.rows : p[2] <= i
  <2>1. \A p \in t.rows : p[2] <= i
    BY RowsArePairs DEF Dated
  <2> HIDE DEF u
  <2> QED BY <1>4, <2>1
<1> QED BY <1>3, <1>5 DEF Dated

\* A statement that the mirror accepts does there what it does locally: REPLACE
\* takes the children that are older than the new row, and so does Mirrored.
LEMMA MirrorEffect ==
  ASSUME NEW t \in Tables, NEW w \in Statements, NEW k \in Nat, NEW i \in Nat, i = k + 1, Dated(t, k),
         Accepts(Mirrored(t), w, ForeignKeys)
  PROVE  Effect(Mirrored(t), w, i, ForeignKeys) = Mirrored(Effect(t, w, i, FALSE))
<1> DEFINE m == Mirrored(t)
           u == Effect(t, w, i, FALSE)
           v == Effect(m, w, i, ForeignKeys)
           Stays(f, p) == ForeignKeys => f[p[1]] # 0 /\ f[p[1]] < p[2]
<1>1. w.op \in {"save", "add", "clear", "drop"} /\ w.of \in Sessions
  BY DEF Statements
<1>2. t.sess \in [Sessions -> Nat] /\ m.sess = t.sess /\ m.rows = {p \in t.rows : Stays(t.sess, p)}
  BY DEF Tables, Mirrored
<1>3. \A p \in t.rows : p[1] \in Sessions /\ p[2] \in Nat /\ p[2] < i
  BY RowsArePairs DEF Dated
<1>4. /\ v.sess = u.sess
      /\ v = [sess |-> v.sess, rows |-> v.rows]
  BY <1>2 DEF Effect
<1>5. Mirrored(u) = [sess |-> u.sess, rows |-> {p \in u.rows : Stays(u.sess, p)}]
  BY DEF Mirrored
<1>6. v.rows = {p \in u.rows : Stays(u.sess, p)}
  <2>1. CASE w.op = "save"
    <3>1. u.sess = [t.sess EXCEPT ![w.of] = i] /\ u.rows = t.rows
      BY <2>1 DEF Effect, Cascades
    <3>2. v.rows = IF ForeignKeys /\ t.sess[w.of] # 0 THEN m.rows \ Children(m, w.of) ELSE m.rows
      BY <1>2, <2>1 DEF Effect, Cascades
    <3>3. ASSUME NEW p \in t.rows PROVE p \in v.rows <=> Stays(u.sess, p)
      <4>1. CASE ~ForeignKeys
        BY <1>2, <3>2, <4>1
      <4>2. CASE ForeignKeys /\ p[1] = w.of
        <5>1. ~Stays(u.sess, p)
          <6>1. u.sess[p[1]] = i
            BY <1>1, <1>2, <3>1, <4>2
          <6> HIDE DEF u
          <6> QED BY <1>3, <4>2, <6>1
        <5>2. p \notin v.rows
          BY <1>2, <3>2, <4>2 DEF Children
        <5> QED BY <5>1, <5>2
      <4>3. CASE ForeignKeys /\ p[1] # w.of
        <5>1. u.sess[p[1]] = t.sess[p[1]]
          BY <1>2, <1>3, <3>1, <4>3
        <5>2. p \in v.rows <=> p \in m.rows
          BY <3>2, <4>3 DEF Children
        <5> QED BY <1>2, <5>1, <5>2
      <4> QED BY <4>1, <4>2, <4>3
    <3>4. v.rows \subseteq t.rows
      BY <1>2, <3>2
    <3> HIDE DEF u, v, m, Stays
    <3> QED BY <3>1, <3>3, <3>4
  <2>2. CASE w.op = "drop"
    <3>1. u.sess = [t.sess EXCEPT ![w.of] = 0] /\ u.rows = t.rows
      BY <2>2 DEF Effect, Cascades
    <3>2. v.rows = IF ForeignKeys /\ t.sess[w.of] # 0 THEN m.rows \ Children(m, w.of) ELSE m.rows
      BY <1>2, <2>2 DEF Effect, Cascades
    <3>3. ASSUME NEW p \in t.rows PROVE p \in v.rows <=> Stays(u.sess, p)
      <4>1. CASE ~ForeignKeys
        BY <1>2, <3>2, <4>1
      <4>2. CASE ForeignKeys /\ p[1] = w.of
        <5>1. ~Stays(u.sess, p)
          BY <1>1, <1>2, <3>1, <4>2
        <5>2. p \notin v.rows
          BY <1>2, <3>2, <4>2 DEF Children
        <5> QED BY <5>1, <5>2
      <4>3. CASE ForeignKeys /\ p[1] # w.of
        <5>1. u.sess[p[1]] = t.sess[p[1]]
          BY <1>2, <1>3, <3>1, <4>3
        <5>2. p \in v.rows <=> p \in m.rows
          BY <3>2, <4>3 DEF Children
        <5> QED BY <1>2, <5>1, <5>2
      <4> QED BY <4>1, <4>2, <4>3
    <3>4. v.rows \subseteq t.rows
      BY <1>2, <3>2
    <3> HIDE DEF u, v, m, Stays
    <3> QED BY <3>1, <3>3, <3>4
  <2>3. CASE w.op = "add"
    <3>1. u.sess = t.sess /\ u.rows = t.rows \cup {<<w.of, i>>} /\ v.rows = m.rows \cup {<<w.of, i>>}
      BY <2>3 DEF Effect, Cascades
    <3>2. ForeignKeys => t.sess[w.of] # 0
      BY <1>2, <2>3 DEF Accepts
    <3>3. t.sess[w.of] < i
      BY <1>1, <1>2 DEF Dated
    <3>4. Stays(u.sess, <<w.of, i>>)
      BY <3>1, <3>2, <3>3
    <3> HIDE DEF u, v, m, Stays
    <3> QED BY <1>2, <3>1, <3>4
  <2>4. CASE w.op = "clear"
    <3>1. u.sess = t.sess /\ u.rows = t.rows \ Children(t, w.of) /\ v.rows = m.rows \ Children(m, w.of)
      BY <2>4 DEF Effect, Cascades
    <3> HIDE DEF u, v, m, Stays
    <3> QED BY <1>2, <3>1 DEF Children
  <2> QED BY <1>1, <2>1, <2>2, <2>3, <2>4
<1>7. [sess |-> v.sess, rows |-> v.rows] = Mirrored(u)
  <2> HIDE DEF u, v, Stays
  <2> QED BY <1>4, <1>5, <1>6
<1> QED BY <1>4, <1>7

\* A statement that is executed twice has the effect it had the first time, in a
\* database that holds no children of a session that is not there.
LEMMA Idempotent ==
  ASSUME NEW t \in Tables, NEW w \in Statements, NEW i \in Nat, NEW fk \in BOOLEAN,
         fk => \A s \in Sessions : t.sess[s] = 0 => Children(t, s) = {}
  PROVE  Effect(Effect(t, w, i, fk), w, i, fk) = Effect(t, w, i, fk)
<1> DEFINE u == Effect(t, w, i, fk)
<1>1. w.op \in {"save", "add", "clear", "drop"} /\ w.of \in Sessions
  BY DEF Statements
<1>2. t.sess \in [Sessions -> Nat]
  BY DEF Tables
<1>3. CASE w.op \in {"save", "drop"}
  <2> DEFINE x == IF w.op = "save" THEN i ELSE 0
             f == [t.sess EXCEPT ![w.of] = x]
             g == IF fk THEN t.rows \ Children(t, w.of) ELSE t.rows
  <2>1. u = [sess |-> f, rows |-> g]
    <3>1. u.sess = f
      BY <1>3 DEF Effect
    <3>2. u.rows = IF fk /\ t.sess[w.of] # 0 THEN t.rows \ Children(t, w.of) ELSE t.rows
      BY <1>3 DEF Effect, Cascades
    <3>3. u.rows = g
      BY <1>1, <3>2 DEF Children
    <3> QED BY <3>1, <3>3 DEF Effect
  <2>2. [f EXCEPT ![w.of] = x] = f
    BY <1>1, <1>2
  <2>3. fk => Children(u, w.of) = {}
    <3>1. fk => \A p \in g : p[1] # w.of
      BY DEF Children
    <3> HIDE DEF u, g
    <3> QED BY <2>1, <3>1 DEF Children
  <2>4. Effect(u, w, i, fk).sess = f
    <3> HIDE DEF u, f
    <3> QED BY <1>3, <2>1, <2>2 DEF Effect
  <2>5. Effect(u, w, i, fk).rows = g
    <3> HIDE DEF u, f, g
    <3> QED BY <1>3, <2>1, <2>3 DEF Effect, Cascades
  <2> HIDE DEF f, g
  <2> QED BY <2>1, <2>4, <2>5 DEF Effect
<1>4. CASE w.op = "add"
  <2>1. u = [sess |-> t.sess, rows |-> t.rows \cup {<<w.of, i>>}]
    BY <1>4 DEF Effect, Cascades
  <2> QED
    BY <1>4, <2>1 DEF Effect, Cascades
<1>5. CASE w.op = "clear"
  <2> DEFINE g == t.rows \ Children(t, w.of)
  <2>1. u = [sess |-> t.sess, rows |-> g]
    BY <1>5 DEF Effect, Cascades
  <2>2. \A p \in g : p[1] # w.of
    BY DEF Children
  <2>3. Children(u, w.of) = {}
    <3> HIDE DEF u, g
    <3> QED
      BY <2>1, <2>2 DEF Children
  <2> QED
    BY <1>5, <2>1, <2>3 DEF Effect, Cascades
<1> QED
  BY <1>1, <1>3, <1>4, <1>5

\* The mirror holds no children of a session that is not there.
LEMMA MirroredOk ==
  ASSUME NEW t \in Tables
  PROVE  /\ Mirrored(t) \in Tables
         /\ ForeignKeys => \A s \in Sessions : Mirrored(t).sess[s] = 0 => Children(Mirrored(t), s) = {}
BY DEF Tables, Mirrored, Children

LEMMA InitMirror == Init => MInv
<1> SUFFICES ASSUME Init PROVE MInv
  OBVIOUS
<1> DEFINE S == [k \in 0..0 |-> NoRows]
<1>1. Len(log) = 0
  BY DEF Init
<1>2. NoRows \in Tables
  BY DEF NoRows, Tables
<1>3. Dated(NoRows, 0) /\ Mirrored(NoRows) = NoRows
  BY DEF Dated, Mirrored, NoRows
<1>4. History(S)
  BY <1>1, <1>2, <1>3 DEF Init, History
<1>5. Order(0, 0)
  BY <1>1 DEF Init, Order
<1>6. Mirror(0, 0, S)
  BY <1>3, <1>4, <1>5 DEF Init, Mirror
<1> QED
  BY <1>6 DEF MInv

\* The write goes to the end of the log, of the outbox and of the history.
LEMMA WriteMirror ==
  ASSUME TypeOK, NEW n, NEW r, NEW S, Mirror(n, r, S),
         NEW c \in Clients, NEW w \in Statements, Write(c, w)
  PROVE  MInv'
<1> PICK m, v : m = Len(log) + 1 /\ v = local'
  OBVIOUS
<1> DEFINE T == [k \in 0..m |-> IF k = m THEN v ELSE S[k]]
<1>1. /\ log' = Append(log, w) /\ v = Effect(local, w, m, FALSE)
      /\ outbox' = outbox \cup {m}
      /\ UNCHANGED <<remote, landed, pc, job>>
  BY DEF Write
<1>2. Len(log) \in Nat /\ m \in Nat /\ log \in Seq(Statements)
  BY DEF TypeOK
<1>3. Len(log') = m /\ log'[m] = w /\ \A k \in 1..Len(log) : log'[k] = log[k]
  BY <1>1, <1>2
<1>4. v \in Tables
  <2>1. local \in Tables /\ FALSE \in BOOLEAN
    BY DEF TypeOK
  <2> QED
    BY <1>1, <1>2, <2>1, EffectType
<1>5. Order(n, r)'
  <2>1. Order(n, r)
    BY DEF Mirror
  <2>2. n \in 0..m /\ r \in 0..n /\ n <= r + 1
    BY <1>2, <2>1 DEF Order
  <2>3. (r + 1)..m = (r + 1)..Len(log) \cup {m}
    BY <1>2, <2>1 DEF Order
  <2> QED
    BY <1>1, <1>3, <2>1, <2>2, <2>3 DEF Order
<1>6. History(T)'
  <2>1. History(S)
    BY DEF Mirror
  <2>2. T \in [0..m -> Tables]
    BY <1>2, <1>4, <2>1 DEF History
  <2>3. T[0] = NoRows /\ T[m] = v
    BY <1>2, <2>1 DEF History
  <2>4. ASSUME NEW k \in 1..m PROVE T[k] = Effect(T[k - 1], log'[k], k, FALSE)
    <3>1. CASE k = m
      <4>1. T[k - 1] = local /\ T[k] = v
        BY <1>2, <2>1, <3>1 DEF History
      <4> QED
        BY <1>1, <1>3, <3>1, <4>1
    <3>2. CASE k # m
      <4>1. k \in 1..Len(log) /\ k - 1 \in 0..m /\ k - 1 # m /\ k \in 0..m
        BY <1>2, <3>2
      <4> QED
        BY <1>3, <2>1, <3>2, <4>1 DEF History
    <3> QED
      BY <3>1, <3>2
  <2>5. ASSUME NEW k \in 0..m PROVE Dated(T[k], k)
    <3>1. CASE k = m
      <4>1. Dated(local, Len(log)) /\ local \in Tables
        BY <1>2, <2>1 DEF History
      <4>2. Dated(v, m)
        BY <1>1, <1>2, <4>1, EffectDated
      <4> QED BY <3>1, <4>2
    <3>2. CASE k # m
      BY <1>2, <2>1, <3>2 DEF History
    <3> QED BY <3>1, <3>2
  <2>6. ASSUME NEW k \in 0..m PROVE past'[k + 1] = T[k]
    <3>1. past' = Append(past, v) /\ Len(past) = m /\ past \in Seq(Tables)
      BY <1>2 DEF Write, TypeOK
    <3>2. CASE k = m
      BY <1>2, <2>3, <3>1, <3>2
    <3>3. CASE k # m
      <4>1. k \in 0..Len(log) /\ k + 1 \in 1..m /\ T[k] = S[k]
        BY <1>2, <3>3
      <4>2. past'[k + 1] = past[k + 1]
        BY <3>1, <4>1
      <4> QED
        BY <2>1, <4>1, <4>2 DEF History
    <3> QED BY <3>2, <3>3
  <2> HIDE DEF T
  <2> QED
    BY <1>2, <1>3, <2>2, <2>3, <2>4, <2>5, <2>6 DEF History
<1>7. remote' = Mirrored(T[n])
  <2>1. n \in 0..Len(log) /\ remote = Mirrored(S[n])
    BY DEF Mirror, Order
  <2>2. n \in 0..m /\ n # m
    BY <1>2, <2>1
  <2> QED
    BY <1>1, <2>1, <2>2
<1> HIDE DEF T
<1>8. Mirror(n, r, T)'
  BY <1>5, <1>6, <1>7 DEF Mirror
<1> QED
  BY <1>8 DEF MInv

\* The write after those that have left the outbox is executed, for the first
\* time or once more.
LEMMA ExecuteMirror ==
  ASSUME TypeOK, NEW n, NEW r, NEW S, Mirror(n, r, S),
         NEW c \in Clients, pc[c] = "post", Execute(c)
  PROVE  /\ r + 1 \in 1..Len(log) /\ job[c] = r + 1
         /\ landed' = 1..(r + 1)
         /\ remote' = Mirrored(S[r + 1])
         /\ n = r \/ (n = r + 1 /\ remote' = remote)
<1>1. Order(n, r) /\ History(S) /\ remote = Mirrored(S[n])
  BY DEF Mirror
<1>2. job[c] = r + 1 /\ r + 1 \in 1..Len(log) /\ r \in Nat /\ n \in Nat
  BY <1>1 DEF TypeOK, Order
<1>3. landed' = 1..(r + 1)
  BY <1>1, <1>2 DEF Execute, Order
<1>4. /\ remote' = Effect(remote, log[r + 1], r + 1, ForeignKeys)
      /\ Accepts(remote, log[r + 1], ForeignKeys)
  BY <1>2 DEF Execute, Deliverable
<1> PICK t, w, i : t = S[r] /\ w = log[r + 1] /\ i = r + 1
  OBVIOUS
<1>5. /\ S[r + 1] = Effect(t, w, i, FALSE)
      /\ t \in Tables /\ w \in Statements /\ i \in Nat /\ Dated(t, r)
      /\ S[r + 1] \in Tables
  <2>1. (r + 1) - 1 = r /\ r \in 0..Len(log) /\ r + 1 \in 1..Len(log) /\ r + 1 \in 0..Len(log)
    BY <1>2 DEF TypeOK
  <2>2. S[r + 1] = Effect(S[(r + 1) - 1], log[r + 1], r + 1, FALSE)
    BY <1>1, <2>1 DEF History
  <2>3. S[r] \in Tables /\ S[r + 1] \in Tables /\ Dated(S[r], r)
    BY <1>1, <2>1 DEF History
  <2>4. log[r + 1] \in Statements
    BY <2>1 DEF TypeOK
  <2>5. S[r + 1] = Effect(S[r], log[r + 1], r + 1, FALSE)
    BY <2>1, <2>2
  <2>6. S[r + 1] = Effect(t, w, i, FALSE)
    BY <2>5, Zenon
  <2>7. i \in Nat
    BY <1>2
  <2>8. t \in Tables /\ w \in Statements /\ Dated(t, r)
    BY <2>3, <2>4, Zenon
  <2> QED
    BY <2>3, <2>6, <2>7, <2>8
<1>6. n = r \/ n = r + 1
  BY <1>1, <1>2 DEF Order
<1>7. CASE n = r
  <2>1. Effect(Mirrored(t), w, i, ForeignKeys) = Mirrored(Effect(t, w, i, FALSE))
    <3>1. Accepts(Mirrored(t), w, ForeignKeys)
      BY <1>1, <1>4, <1>7
    <3> QED BY <1>2, <1>5, <3>1, MirrorEffect
  <2> QED
    BY <1>1, <1>2, <1>3, <1>4, <1>5, <1>7, <2>1
<1>8. CASE n = r + 1
  \* The statement was executed before, and is repeated.
  <2>1. remote = Mirrored(Effect(t, w, i, FALSE))
    BY <1>1, <1>5, <1>8
  <2>2. Accepts(Mirrored(t), w, ForeignKeys)
    BY <1>4, <2>1 DEF Accepts, Mirrored, Effect
  <2>3. remote = Effect(Mirrored(t), w, i, ForeignKeys)
    BY <1>2, <1>5, <2>1, <2>2, MirrorEffect, ZenonT(30)
  <2>4. Effect(Effect(Mirrored(t), w, i, ForeignKeys), w, i, ForeignKeys)
          = Effect(Mirrored(t), w, i, ForeignKeys)
    BY <1>5, MirroredOk, Idempotent, ForeignKeysAssumption
  <2> QED
    BY <1>1, <1>2, <1>3, <1>4, <1>8, <2>3, <2>4
<1> QED
  BY <1>6, <1>7, <1>8

\* With nothing but a thread's place changed.
LEMMA StillMirror ==
  ASSUME NEW n, NEW r, NEW S, Mirror(n, r, S), UNCHANGED <<log, local, outbox, past, remote, landed>>,
         \A d \in Clients : pc'[d] = "post" => job'[d] = r + 1,
         \A d \in Clients : pc'[d] = "ack" => pc[d] = "ack" /\ job'[d] = job[d]
  PROVE  MInv'
<1>1. Order(n, r)'
  BY DEF Mirror, Order
<1>2. History(S)' /\ remote' = Mirrored(S[n])
  BY DEF Mirror, History
<1>3. Mirror(n, r, S)'
  BY <1>1, <1>2 DEF Mirror
<1> QED
  BY <1>3 DEF MInv

\* The thread takes the oldest row: the one after those that have left.
LEMMA TakeMirror ==
  ASSUME TypeOK, NEW n, NEW r, NEW S, Mirror(n, r, S), NEW c \in Clients, Take(c)
  PROVE  MInv'
<1>1. Order(n, r)
  BY DEF Mirror
<1>2. UNCHANGED <<log, local, outbox, past, remote, landed>>
  BY DEF Take, file
<1>3. CASE pc' = [pc EXCEPT ![c] = "none"] /\ job' = job
  BY <1>1, <1>2, <1>3, StillMirror DEF TypeOK, Order
<1>4. CASE pc' = [pc EXCEPT ![c] = "wait"] /\ job' = job
  BY <1>1, <1>2, <1>4, StillMirror DEF TypeOK, Order
<1>5. ASSUME NEW i \in outbox, \A k \in outbox : i <= k,
             job' = [job EXCEPT ![c] = i], pc' = [pc EXCEPT ![c] = "post"]
      PROVE  MInv'
  <2>1. i = r + 1
    BY <1>1, <1>5 DEF TypeOK, Order
  <2>2. \A d \in Clients : pc'[d] = "post" => job'[d] = r + 1
    BY <1>1, <1>5, <2>1 DEF TypeOK, Order
  <2>3. \A d \in Clients : pc'[d] = "ack" => pc[d] = "ack" /\ job'[d] = job[d]
    BY <1>5 DEF TypeOK
  <2> QED
    BY <1>2, <2>2, <2>3, StillMirror
<1> QED
  BY <1>3, <1>4, <1>5 DEF Take, Goto

\* Every step preserves the invariant.
LEMMA MirrorStep ==
  ASSUME TypeOK, Single, MInv, [Next]_vars
  PROVE  MInv'
<1> PICK n, r, S : Mirror(n, r, S)
  BY DEF MInv
<1>1. Order(n, r) /\ History(S) /\ remote = Mirrored(S[n])
  BY DEF Mirror
<1>2. pc \in [Clients -> Place] /\ job \in [Clients -> 0..MaxWrites]
  BY DEF TypeOK
<1> DEFINE Kept == UNCHANGED <<log, local, outbox, past, remote, landed>>
<1>3. CASE UNCHANGED vars
  BY <1>1, <1>3, StillMirror DEF vars, file, Order
<1>4. ASSUME NEW c \in Clients, Boot(c) PROVE MInv'
  BY <1>1, <1>2, <1>4, StillMirror DEF Boot, Goto, file, Order
<1>5. ASSUME NEW c \in Clients, Close(c) \/ RetryDue(c) \/ ReadCheck(c) PROVE MInv'
  BY <1>1, <1>5, StillMirror DEF Close, RetryDue, ReadCheck, file, Order
<1>6. ASSUME NEW c \in Clients, ReadRemote(c) PROVE MInv'
  BY <1>1, <1>6, StillMirror DEF ReadRemote, file, Order
<1>7. ASSUME NEW c \in Clients, Exit(c) PROVE MInv'
  <2>1. Kept /\ pc' = [pc EXCEPT ![c] = "off"] /\ job' = [job EXCEPT ![c] = 0]
    BY <1>7 DEF Exit, Goto, file
  <2>2. \A d \in Clients : pc'[d] = "post" => job'[d] = r + 1
    BY <1>1, <1>2, <2>1 DEF Order
  <2>3. \A d \in Clients : pc'[d] = "ack" => pc[d] = "ack" /\ job'[d] = job[d]
    BY <1>2, <2>1
  <2> QED
    BY <2>1, <2>2, <2>3, StillMirror
<1>8. ASSUME NEW c \in Clients, NEW w \in Statements, Write(c, w) PROVE MInv'
  BY <1>8, WriteMirror
<1>9. ASSUME NEW c \in Clients, Wake(c) PROVE MInv'
  <2>1. Kept /\ job' = job
        /\ (pc' = [pc EXCEPT ![c] = "none"] \/ pc' = [pc EXCEPT ![c] = "take"])
    BY <1>9 DEF Wake, Goto, file
  <2> QED
    BY <1>1, <1>2, <2>1, StillMirror DEF Order
<1>10. ASSUME NEW c \in Clients, Take(c) PROVE MInv'
  BY <1>10, TakeMirror
<1>11. ASSUME NEW c \in Clients, SyncFails(c) PROVE MInv'
  <2>1. Kept /\ job' = job /\ pc' = [pc EXCEPT ![c] = "wait"]
    BY <1>11 DEF SyncFails, Defer, Goto, file
  <2> QED
    BY <1>1, <1>2, <2>1, StillMirror DEF Order
<1>12. ASSUME NEW c \in Clients, Post(c) \/ AckLost(c) PROVE MInv'
  <2>1. /\ pc[c] = "post" /\ Execute(c) /\ UNCHANGED <<log, local, outbox, past, job>>
        /\ (pc' = [pc EXCEPT ![c] = "ack"] \/ pc' = [pc EXCEPT ![c] = "wait"])
    BY <1>12 DEF Post, AckLost, Defer, Goto, file
  <2>2. /\ r + 1 \in 1..Len(log) /\ job[c] = r + 1
        /\ landed' = 1..(r + 1) /\ remote' = Mirrored(S[r + 1])
    BY <2>1, ExecuteMirror
  <2>3. r \in Nat
    BY <1>1 DEF Order
  <2>4. \A d \in Clients : d = c
    BY DEF Single
  <2>5. Order(r + 1, r)'
    BY <1>1, <1>2, <2>1, <2>2, <2>3, <2>4 DEF Order
  <2>6. History(S)'
    BY <1>1, <2>1 DEF History
  <2>7. Mirror(r + 1, r, S)'
    BY <2>2, <2>5, <2>6 DEF Mirror
  <2> QED
    BY <2>7 DEF MInv
<1>13. ASSUME NEW c \in Clients, Remove(c) PROVE MInv'
  <2>1. CASE closed[c]
    <3>1. Kept /\ job' = job /\ pc' = [pc EXCEPT ![c] = "none"]
      BY <1>13, <2>1 DEF Remove, Goto
    <3> QED
      BY <1>1, <1>2, <3>1, StillMirror DEF Order
  <2>2. CASE ~closed[c]
    <3>1. /\ UNCHANGED <<log, local, past, remote, landed, job>>
          /\ outbox' = outbox \ {job[c]}
          /\ pc' = [pc EXCEPT ![c] = "take"] /\ pc[c] = "ack"
      BY <1>13, <2>2 DEF Remove, Goto
    <3>2. job[c] = r + 1 /\ n = r + 1 /\ n \in 0..Len(log) /\ r \in Nat
      BY <1>1, <3>1 DEF Order
    <3>3. \A d \in Clients : d = c
      BY DEF Single
    <3>4. outbox' = (n + 1)..Len(log)
      BY <1>1, <3>1, <3>2 DEF Order
    <3>5. Order(n, n)'
      BY <1>1, <1>2, <3>1, <3>2, <3>3, <3>4 DEF Order
    <3>6. History(S)' /\ remote' = Mirrored(S[n])
      BY <1>1, <3>1 DEF History
    <3>7. Mirror(n, n, S)'
      BY <3>5, <3>6 DEF Mirror
    <3> QED
      BY <3>7 DEF MInv
  <2> QED
    BY <2>1, <2>2
<1> QED
  BY <1>3, <1>4, <1>5, <1>6, <1>7, <1>8, <1>9, <1>10, <1>11, <1>12, <1>13 DEF Next, Caller, Sync

LEMMA MirrorHolds == Single => (Spec => [](TypeOK /\ MInv))
<1> SUFFICES ASSUME Single PROVE Spec => [](TypeOK /\ MInv)
  OBVIOUS
<1>1. Init => MInv
  BY InitMirror
<1>2. TypeOK /\ MInv /\ [Next]_vars => MInv'
  BY MirrorStep
<1> QED
  BY <1>1, <1>2, OutboxTypeCorrect, PTL DEF Spec

\* With one client, the remote database has of the local file all that the foreign
\* keys leave whenever the outbox is empty, which is everything where they are not
\* enforced, over lost requests, lost acknowledgements and crashes (_sync_remote).
THEOREM SyncedAgrees == Single => (Spec => []SyncedCopyAgrees)
<1> SUFFICES ASSUME Single PROVE Spec => []SyncedCopyAgrees
  OBVIOUS
<1>1. TypeOK /\ MInv => SyncedCopyAgrees
  <2> SUFFICES ASSUME TypeOK, MInv, outbox = {} PROVE remote = Mirrored(local)
    BY DEF SyncedCopyAgrees
  <2> PICK n, r, S : Mirror(n, r, S)
    BY DEF MInv
  <2>1. Len(log) \in Nat /\ n \in 0..Len(log) /\ r \in 0..n /\ (r + 1)..Len(log) = {}
    BY DEF Mirror, Order, TypeOK
  <2>2. r + 1 \notin (r + 1)..Len(log)
    BY <2>1
  <2>3. n = Len(log)
    BY <2>1, <2>2
  <2> QED
    BY <2>3 DEF Mirror, History
<1> QED
  BY <1>1, MirrorHolds, PTL

\* With one client, a query of the remote database sees the local tables as they
\* were when the client found nothing pending or later (execute), but for the rows
\* that the foreign keys took, whatever the thread sends once more meanwhile.
THEOREM ReadsCurrent == Single => (Spec => []ReadsAreCurrent)
<1> SUFFICES ASSUME Single PROVE Spec => []ReadsAreCurrent
  OBVIOUS
<1>1. Inv /\ MInv => ReadsAreCurrent
  <2> SUFFICES ASSUME Inv, MInv, NEW c \in Clients, read[c] > 0
               PROVE  \E k \in read[c]..Len(past) : remote = Mirrored(past[k])
    BY DEF ReadsAreCurrent
  <2> PICK n, r, S : Mirror(n, r, S)
    BY DEF MInv
  <2>1. /\ n \in 0..Len(log) /\ landed = 1..n /\ remote = Mirrored(S[n])
        /\ past[n + 1] = S[n]
    BY DEF Mirror, Order, History
  <2>2. /\ Len(log) \in Nat /\ Len(past) = Len(log) + 1 /\ read[c] \in Nat
        /\ 1..(read[c] - 1) \subseteq landed
    BY DEF Inv, TypeOK, EarlierWritesLanded
  <2>3. read[c] - 1 <= n
    <3>1. CASE read[c] = 1
      BY <2>1, <2>2, <3>1
    <3>2. CASE read[c] > 1
      <4>1. read[c] - 1 \in 1..(read[c] - 1)
        BY <2>2, <3>2
      <4>2. read[c] - 1 \in 1..n
        BY <2>1, <2>2, <4>1
      <4> QED
        BY <2>1, <4>2
    <3> QED
      BY <2>2, <3>1, <3>2
  <2>4. n + 1 \in read[c]..Len(past)
    BY <2>1, <2>2, <2>3
  <2> QED
    BY <2>1, <2>4
<1> QED
  BY <1>1, MirrorHolds, InvHolds, PTL

\* With one client, foreign keys enforced or not, the sync thread delivers the
\* writes one by one in the order of the log: a step of D1Outbox commits a write,
\* delivers the next one, or changes nothing of the log and its copy.
THEOREM MirrorsLog == Single => (Spec => ImplementsLog)
<1> SUFFICES ASSUME Single PROVE Spec => Log!LogSpec
  BY DEF ImplementsLog
<1>1. Init => Log!LogInit
  <2>1. Cardinality({}) = 0
    BY FS_EmptySet
  <2> QED
    BY <2>1 DEF Init, Log!LogInit, Log!NoRows, NoRows
<1>2. TypeOK /\ MInv /\ [Next]_vars => [Log!LogNext]_(Log!logVars)
  <2> SUFFICES ASSUME TypeOK, MInv, [Next]_vars PROVE [Log!LogNext]_(Log!logVars)
    OBVIOUS
  <2> PICK n, r, S : Mirror(n, r, S)
    BY DEF MInv
  <2>1. CASE UNCHANGED <<log, remote, landed>>
    BY <2>1 DEF Log!logVars
  <2>2. ASSUME NEW c \in Clients, NEW w \in Statements, Write(c, w)
        PROVE  Log!LogNext
    <3>1. Log!Commit(w) /\ w \in Log!Statements
      BY <2>2 DEF Write, Log!Commit, Log!Statements, Statements
    <3> QED
      BY <3>1 DEF Log!LogNext
  <2>3. ASSUME NEW c \in Clients, Post(c) \/ AckLost(c)
        PROVE  [Log!LogNext]_(Log!logVars)
    <3>1. pc[c] = "post" /\ Execute(c) /\ UNCHANGED log
      BY <2>3 DEF Post, AckLost, file
    <3>2. /\ r + 1 \in 1..Len(log) /\ job[c] = r + 1 /\ landed' = 1..(r + 1)
          /\ n = r \/ (n = r + 1 /\ remote' = remote)
      BY <3>1, ExecuteMirror
    <3>3. landed = 1..n /\ n \in Nat /\ r \in Nat
      BY DEF Mirror, Order
    <3>4. Cardinality(landed) = n /\ Cardinality(landed') = r + 1
      BY <3>2, <3>3, FS_Interval
    <3>5. CASE n = r + 1
      BY <3>1, <3>2, <3>3, <3>5 DEF Log!logVars
    <3>6. CASE n = r
      <4>1. remote' = Effect(remote, log[n + 1], n + 1, ForeignKeys)
        BY <3>1, <3>2, <3>6 DEF Execute
      <4>2. remote' = Log!Effect(remote, log[n + 1], n + 1, ForeignKeys)
        BY <4>1 DEF Log!Effect, Effect, Log!Cascades, Cascades, Log!Children, Children
      <4>3. n < Len(log) /\ Cardinality(landed') = n + 1
        BY <3>2, <3>3, <3>4, <3>6 DEF TypeOK
      <4>4. Log!Deliver
        BY <3>1, <3>4, <4>2, <4>3 DEF Log!Deliver
      <4> QED
        BY <4>4 DEF Log!LogNext
    <3> QED
      BY <3>2, <3>5, <3>6
  <2> QED
    BY <2>1, <2>2, <2>3 DEF Next, Caller, Sync, vars, file, Boot, Close, Exit, RetryDue,
       ReadCheck, ReadRemote, Wake, Take, SyncFails, Remove
<1> QED
  BY <1>1, <1>2, MirrorHolds, PTL DEF Spec, Log!LogSpec
=============================================================================
