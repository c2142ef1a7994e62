----------------------- MODULE AccountSemaphoreProofs -----------------------
(***************************************************************************)
(* Theorems about AccountSemaphore, for every finite set of requests, all  *)
(* gates, needs and limits, and every length of a queue.                   *)
(***************************************************************************)
EXTENDS AccountSemaphore, FiniteSetTheorems, WellFoundedInduction, TLAPS

\* The requests W stand in one line.
InLine(W, ahd) ==
  /\ \A r, q \in W : r # q => (q \in ahd[r] <=> r \notin ahd[q])
  /\ \A r \in W : /\ r \notin ahd[r]
                  /\ \A q \in ahd[r] \cap W : ahd[q] \cap W \subseteq ahd[r]

\* Only those who wait stand in the line, behind others who wait.
LineIsWaiting ==
  \A r \in Requests : /\ ahead[r] \subseteq Waiting
                      /\ r \notin Waiting => ahead[r] = {}

\* The inductive invariant.
SlotsInv == SlotsTypeOK /\ HoldersCounted /\ LineIsWaiting

\* Requests are counted in natural numbers, a part of them by less.
LEMMA Counting ==
  ASSUME NEW S \in SUBSET Requests
  PROVE  /\ IsFiniteSet(S)
         /\ Cardinality(S) \in Nat
         /\ \A T \in SUBSET S : /\ IsFiniteSet(T)
                                /\ Cardinality(T) \in Nat
                                /\ Cardinality(T) <= Cardinality(S)
<1>1. IsFiniteSet(S)
  BY SemaphoreAssumption, FS_Subset
<1>2. \A T \in SUBSET S : IsFiniteSet(T) /\ Cardinality(T) <= Cardinality(S)
  BY <1>1, FS_Subset
<1> QED BY <1>1, <1>2, FS_CardinalityType

\* Two groups of requests without a common one.
LEMMA CountingTwo ==
  ASSUME NEW S \in SUBSET Requests, NEW T \in SUBSET Requests, S \cap T = {}
  PROVE  Cardinality(S \cup T) = Cardinality(S) + Cardinality(T)
<1>1. IsFiniteSet(S) /\ IsFiniteSet(T)
  BY Counting
<1>2. Cardinality(S \cup T) = Cardinality(S) + Cardinality(T) - Cardinality(S \cap T)
  BY <1>1, FS_Union
<1>3. Cardinality(S \cap T) = 0
  BY FS_EmptySet
<1> QED BY <1>2, <1>3, Counting

\* Those who are left when some of a line were admitted still stand in one line.
LEMMA ShorterLine ==
  ASSUME NEW W, NEW G, NEW ahd, InLine(W, ahd)
  PROVE  InLine(W \ G, [r \in W \ G |-> (ahd[r] \cap W) \ G])
BY DEF InLine

\* What drainQueues leaves behind when the count of every gate was right for
\* those who do not wait.
LEMMA DrainKeeps ==
  ASSUME NEW W \in SUBSET Requests,
         NEW base \in [Requests -> {"none", "waiting", "held"}],
         NEW run \in [Gates -> Nat], NEW lim \in [Gates -> Nat],
         NEW ahd \in [Requests -> SUBSET Requests],
         NEW ned \in [Requests -> SUBSET Gates],
         \A r \in Requests \ W : base[r] # "waiting",
         \A g \in Gates :
           run[g] = Cardinality({r \in Requests \ W : base[r] = "held" /\ g \in ned[r]}),
         InLine(W, ahd),
         Drain(W, base, run, lim, ahd, ned),
         blocked' \in [Gates -> BOOLEAN]
  PROVE  SlotsInv'
<1>1. PICK G \in SUBSET W :
        /\ Admits(G, W, run, lim, ahd, ned)
        /\ slot' = [r \in Requests |-> IF r \in G THEN "held"
                                       ELSE IF r \in W THEN "waiting" ELSE base[r]]
        /\ running' = [g \in Gates |-> run[g] + Cardinality({r \in G : g \in ned[r]})]
        /\ ahead' = [r \in Requests |-> IF r \in W \ G THEN (ahd[r] \cap W) \ G ELSE {}]
        /\ limit' = lim
        /\ need' = ned
  BY DEF Drain
<1>2. Waiting' = W \ G
  BY <1>1 DEF Waiting
<1>3. SlotsTypeOK'
  <2>1. running' \in [Gates -> Nat]
    <3>1. \A g \in Gates : Cardinality({r \in G : g \in ned[r]}) \in Nat
      BY Counting
    <3> QED BY <1>1, <3>1
  <2>2. slot' \in [Requests -> {"none", "waiting", "held"}]
    BY <1>1
  <2>3. ahead' \in [Requests -> SUBSET Requests]
    BY <1>1
  <2> QED BY <1>1, <2>1, <2>2, <2>3 DEF SlotsTypeOK
<1>4. \A g \in Gates : running'[g] = Cardinality(Holders(g)')
  <2> TAKE g \in Gates
  <2> DEFINE old == {r \in Requests \ W : base[r] = "held" /\ g \in ned[r]}
             new == {r \in G : g \in ned[r]}
  <2>1. Holders(g)' = old \cup new
    BY <1>1 DEF Holders
  <2>2. Cardinality(old \cup new) = Cardinality(old) + Cardinality(new)
    <3>1. old \in SUBSET Requests /\ new \in SUBSET Requests /\ old \cap new = {}
      OBVIOUS
    <3> HIDE DEF old, new
    <3> QED BY <3>1, CountingTwo
  <2> QED BY <1>1, <2>1, <2>2
<1>5. InLine(Waiting', ahead')
  <2>1. \A r \in W \ G : ahead'[r] = (ahd[r] \cap W) \ G
    BY <1>1
  <2> QED BY <1>2, <2>1, ShorterLine DEF InLine
<1>6. LineIsWaiting'
  BY <1>1, <1>2 DEF LineIsWaiting
<1>7. HoldersCounted'
  <2>1. \A r \in Waiting' : ahead'[r] \subseteq Waiting'
    BY <1>6 DEF LineIsWaiting, Waiting
  <2>2. \A r, q \in Waiting' : r # q => (q \in ahead'[r] <=> r \notin ahead'[q])
    BY <1>5 DEF InLine
  <2>3. \A r \in Waiting' : r \notin ahead'[r] /\ \A q \in ahead'[r] : ahead'[q] \subseteq ahead'[r]
    BY <1>5, <2>1 DEF InLine
  <2> QED BY <1>4, <2>2, <2>3 DEF HoldersCounted
<1> QED BY <1>3, <1>6, <1>7 DEF SlotsInv

\* The line of the present state.
LEMMA PresentLine ==
  ASSUME SlotsInv PROVE InLine(Waiting, ahead)
BY DEF SlotsInv, HoldersCounted, InLine

\* A request that joins behind everybody who waits.
LEMMA LongerLine ==
  ASSUME SlotsInv, NEW r \in Requests, slot[r] = "none"
  PROVE  InLine(Waiting \cup {r}, [ahead EXCEPT ![r] = Waiting])
<1> DEFINE ahd == [ahead EXCEPT ![r] = Waiting]
<1>1. r \notin Waiting /\ ahd[r] = Waiting /\ \A q \in Waiting : ahd[q] = ahead[q]
  BY DEF SlotsInv, SlotsTypeOK, Waiting
<1>2. \A q \in Waiting : ahead[q] \subseteq Waiting
  BY DEF SlotsInv, LineIsWaiting, Waiting
<1> DEFINE W == Waiting
<1>3. /\ \A p, q \in W : p # q => (q \in ahd[p] <=> p \notin ahd[q])
      /\ \A p \in W : p \notin ahd[p] /\ \A q \in ahd[p] \cap W : ahd[q] \cap W \subseteq ahd[p]
  BY <1>1, PresentLine DEF InLine
<1>4. r \notin W /\ ahd[r] = W /\ \A q \in W : r \notin ahd[q] /\ ahd[q] \subseteq W
  BY <1>1, <1>2
<1> HIDE DEF ahd, W
<1>5. InLine(W \cup {r}, ahd)
  BY <1>3, <1>4 DEF InLine
<1> QED BY <1>5 DEF ahd, W

-----------------------------------------------------------------------------
(* The steps. *)

LEMMA InitKeeps == SlotsInit => SlotsInv
<1> SUFFICES ASSUME SlotsInit PROVE SlotsInv
  OBVIOUS
<1>1. SlotsTypeOK
  BY DEF SlotsInit, SlotsTypeOK
<1>2. Waiting = {} /\ \A g \in Gates : Holders(g) = {}
  BY DEF SlotsInit, Waiting, Holders
<1>3. HoldersCounted
  BY <1>2, FS_EmptySet DEF SlotsInit, HoldersCounted
<1> QED BY <1>1, <1>2, <1>3 DEF SlotsInv, LineIsWaiting, SlotsInit

\* The same in another process.
LEMMA LostKeeps == SlotsLost => SlotsInv'
<1> SUFFICES ASSUME SlotsLost PROVE SlotsInv'
  OBVIOUS
<1>1. SlotsTypeOK'
  BY DEF SlotsLost, SlotsTypeOK
<1>2. Waiting' = {} /\ \A g \in Gates : Holders(g)' = {}
  BY DEF SlotsLost, Waiting, Holders
<1>3. HoldersCounted'
  BY <1>2, FS_EmptySet DEF SlotsLost, HoldersCounted
<1> QED BY <1>1, <1>2, <1>3 DEF SlotsInv, LineIsWaiting, SlotsLost

\* Steps that leave the requests and the counts alone.
LEMMA SameLineKeeps ==
  ASSUME SlotsInv, UNCHANGED <<slot, need, ahead, running>>,
         limit' \in [Gates -> Nat], blocked' \in [Gates -> BOOLEAN]
  PROVE  SlotsInv'
<1>1. Waiting' = Waiting /\ \A g \in Gates : Holders(g)' = Holders(g)
  BY DEF Waiting, Holders
<1> QED BY <1>1 DEF SlotsInv, SlotsTypeOK, HoldersCounted, LineIsWaiting

\* The limits as a request sets them.
LEMMA NewLimits ==
  ASSUME SlotsInv, NEW S, NEW wanted \in [Gates -> Limits]
  PROVE  [g \in Gates |-> IF g \in S THEN wanted[g] ELSE limit[g]] \in [Gates -> Nat]
BY SemaphoreAssumption DEF SlotsInv, SlotsTypeOK

LEMMA RefuseKeeps ==
  ASSUME SlotsInv, NEW r \in Requests, Refuse(r) PROVE SlotsInv'
<1>1. PICK n \in Needs, wanted \in [Gates -> Limits], full \in Gates :
        limit' = [g \in Gates |-> IF g \in n /\ g <= full THEN wanted[g] ELSE limit[g]]
  BY DEF Refuse
<1>2. limit' \in [Gates -> Nat]
  BY <1>1, SemaphoreAssumption DEF SlotsInv, SlotsTypeOK
<1> QED BY <1>2, SameLineKeeps DEF Refuse, SlotsInv, SlotsTypeOK

LEMMA AcquireKeeps ==
  ASSUME SlotsInv, NEW r \in Requests, Acquire(r) PROVE SlotsInv'
<1> USE DEF SlotsInv, SlotsTypeOK
<1>0. slot[r] = "none" /\ UNCHANGED blocked
  BY DEF Acquire
<1>1. PICK n \in Needs, wanted \in [Gates -> Limits] :
        LET lim == [g \in Gates |-> IF g \in n THEN wanted[g] ELSE limit[g]]
            ned == [need EXCEPT ![r] = n]
        IN  \/ /\ slot' = [slot EXCEPT ![r] = "held"]
               /\ need' = ned
               /\ running' = Taken(n)
               /\ limit' = lim
               /\ UNCHANGED ahead
            \/ Drain(Waiting \cup {r}, slot, running, lim, [ahead EXCEPT ![r] = Waiting], ned)
  BY DEF Acquire
<1> DEFINE lim == [g \in Gates |-> IF g \in n THEN wanted[g] ELSE limit[g]]
           ned == [need EXCEPT ![r] = n]
<1>2. lim \in [Gates -> Nat]
  BY NewLimits
<1>3. n \subseteq Gates /\ ned \in [Requests -> SUBSET Gates]
  BY SemaphoreAssumption
<1>4. ASSUME slot' = [slot EXCEPT ![r] = "held"], need' = ned, running' = Taken(n),
             limit' = lim, UNCHANGED ahead
      PROVE  SlotsInv'
  <2>1. Waiting' = Waiting
    BY <1>0, <1>4 DEF Waiting
  <2>2. \A g \in Gates : running'[g] = Cardinality(Holders(g)') /\ running'[g] \in Nat
    <3> TAKE g \in Gates
    <3>1. Holders(g)' = Holders(g) \cup (IF g \in n THEN {r} ELSE {})
      BY <1>0, <1>4 DEF Holders
    <3>2. r \notin Holders(g) /\ Holders(g) \in SUBSET Requests
      BY <1>0 DEF Holders
    <3>3. running[g] = Cardinality(Holders(g))
      BY DEF HoldersCounted
    <3>4. Cardinality(Holders(g) \cup {r}) = Cardinality(Holders(g)) + 1
      BY <3>2, Counting, FS_AddElement
    <3>5. running[g] \in Nat
      OBVIOUS
    <3>6. CASE g \in n
      <4>1. Holders(g)' = Holders(g) \cup {r} /\ running'[g] = running[g] + 1
        BY <1>4, <3>1, <3>6 DEF Taken
      <4> QED BY <4>1, <3>3, <3>4, <3>5
    <3>7. CASE g \notin n
      <4>1. Holders(g)' = Holders(g) /\ running'[g] = running[g]
        BY <1>4, <3>1, <3>5, <3>7 DEF Taken
      <4> QED BY <4>1, <3>3, <3>5
    <3> QED BY <3>6, <3>7
  <2>3. SlotsTypeOK'
    BY <1>0, <1>2, <1>3, <1>4, <2>2 DEF Taken
  <2>4. HoldersCounted'
    BY <1>4, <2>1, <2>2 DEF HoldersCounted
  <2>5. LineIsWaiting'
    BY <1>4, <2>1 DEF LineIsWaiting
  <2> QED BY <2>3, <2>4, <2>5
<1>5. ASSUME Drain(Waiting \cup {r}, slot, running, lim, [ahead EXCEPT ![r] = Waiting], ned)
      PROVE  SlotsInv'
  <2> DEFINE W == Waiting \cup {r}
             ahd == [ahead EXCEPT ![r] = Waiting]
  <2>1. W \in SUBSET Requests /\ \A q \in Requests \ W : slot[q] # "waiting"
    BY DEF Waiting
  <2>2. ahd \in [Requests -> SUBSET Requests]
    BY DEF Waiting
  <2>3. \A g \in Gates :
          running[g] = Cardinality({q \in Requests \ W : slot[q] = "held" /\ g \in ned[q]})
    <3> TAKE g \in Gates
    <3>1. {q \in Requests \ W : slot[q] = "held" /\ g \in ned[q]} = Holders(g)
      BY <1>0 DEF Holders, Waiting
    <3> QED BY <3>1 DEF HoldersCounted
  <2>4. InLine(W, ahd)
    BY <1>0, LongerLine
  <2>5. blocked' \in [Gates -> BOOLEAN] /\ running \in [Gates -> Nat]
        /\ slot \in [Requests -> {"none", "waiting", "held"}]
    BY <1>0
  <2>6. Drain(W, slot, running, lim, ahd, ned)
    BY <1>5
  <2> HIDE DEF W, ahd, lim, ned, SlotsInv
  <2> QED BY <1>2, <1>3, <2>1, <2>2, <2>3, <2>4, <2>5, <2>6, DrainKeeps
<1> QED BY <1>1, <1>4, <1>5

LEMMA GiveUpKeeps ==
  ASSUME SlotsInv, NEW r \in Requests, GiveUp(r) PROVE SlotsInv'
<1> USE DEF SlotsInv, SlotsTypeOK
<1> DEFINE W == Waiting \ {r}
           base == [slot EXCEPT ![r] = "none"]
           ned == [need EXCEPT ![r] = {}]
<1>1. W \in SUBSET Requests /\ \A q \in Requests \ W : base[q] # "waiting"
  BY DEF Waiting
<1>2. base \in [Requests -> {"none", "waiting", "held"}] /\ ned \in [Requests -> SUBSET Gates]
  OBVIOUS
<1>3. \A g \in Gates :
        running[g] = Cardinality({q \in Requests \ W : base[q] = "held" /\ g \in ned[q]})
  <2> TAKE g \in Gates
  <2>1. {q \in Requests \ W : base[q] = "held" /\ g \in ned[q]} = Holders(g)
    BY DEF Holders, Waiting, GiveUp
  <2> QED BY <2>1 DEF HoldersCounted
<1>4. InLine(W, ahead)
  BY PresentLine DEF InLine
<1>5. Drain(W, base, running, limit, ahead, ned) /\ blocked' \in [Gates -> BOOLEAN]
  BY DEF GiveUp
<1>6. /\ running \in [Gates -> Nat] /\ limit \in [Gates -> Nat]
      /\ ahead \in [Requests -> SUBSET Requests]
  OBVIOUS
<1> HIDE DEF W, base, ned, SlotsInv
<1> QED BY <1>1, <1>2, <1>3, <1>4, <1>5, <1>6, DrainKeeps

LEMMA ReleaseKeeps ==
  ASSUME SlotsInv, NEW r \in Requests, Release(r) PROVE SlotsInv'
<1> USE DEF SlotsInv, SlotsTypeOK
<1> DEFINE W == Waiting
           base == [slot EXCEPT ![r] = "none"]
           ned == [need EXCEPT ![r] = {}]
           run == [g \in Gates |-> IF g \in need[r] THEN running[g] - 1 ELSE running[g]]
<1>1. W \in SUBSET Requests /\ \A q \in Requests \ W : base[q] # "waiting"
  BY DEF Waiting
<1>2. base \in [Requests -> {"none", "waiting", "held"}] /\ ned \in [Requests -> SUBSET Gates]
  OBVIOUS
<1>3. \A g \in Gates :
        /\ run[g] = Cardinality({q \in Requests \ W : base[q] = "held" /\ g \in ned[q]})
        /\ run[g] \in Nat
  <2> TAKE g \in Gates
  <2>1. {q \in Requests \ W : base[q] = "held" /\ g \in ned[q]} = Holders(g) \ {r}
    BY DEF Holders, Waiting, Release
  <2>2. Holders(g) \in SUBSET Requests /\ (r \in Holders(g) <=> g \in need[r])
    BY DEF Holders, Release
  <2>3. Cardinality(Holders(g) \ {r})
          = IF g \in need[r] THEN Cardinality(Holders(g)) - 1 ELSE Cardinality(Holders(g))
    BY <2>2, Counting, FS_RemoveElement
  <2>4. Cardinality(Holders(g) \ {r}) \in Nat
    BY <2>2, Counting
  <2>5. running[g] = Cardinality(Holders(g))
    BY DEF HoldersCounted
  <2>6. run[g] = Cardinality(Holders(g) \ {r})
    BY <2>3, <2>5
  <2> QED BY <2>1, <2>4, <2>6
<1>4. InLine(W, ahead)
  BY PresentLine
<1>5. Drain(W, base, run, limit, ahead, ned) /\ blocked' \in [Gates -> BOOLEAN]
  BY DEF Release
<1>6. /\ run \in [Gates -> Nat] /\ limit \in [Gates -> Nat]
      /\ ahead \in [Requests -> SUBSET Requests]
  BY <1>3
<1> HIDE DEF W, base, ned, run, SlotsInv
<1> QED BY <1>1, <1>2, <1>3, <1>4, <1>5, <1>6, DrainKeeps

\* Every step keeps the inductive invariant.
LEMMA SlotsStep == SlotsInv /\ [SlotsNext]_slots => SlotsInv'
<1> SUFFICES ASSUME SlotsInv, [SlotsNext]_slots PROVE SlotsInv'
  OBVIOUS
<1>1. CASE \E r \in Requests : Refuse(r) \/ Acquire(r) \/ GiveUp(r) \/ Release(r)
  BY <1>1, RefuseKeeps, AcquireKeeps, GiveUpKeeps, ReleaseKeeps
<1>2. ASSUME NEW g \in Gates, MarkBlocked(g) \/ BlockEnds(g) PROVE SlotsInv'
  BY <1>2, SameLineKeeps DEF MarkBlocked, BlockEnds, SlotsInv, SlotsTypeOK
<1>3. CASE SlotsLost
  BY <1>3, LostKeeps
<1>4. CASE UNCHANGED slots
  BY <1>4, SameLineKeeps DEF slots, SlotsInv, SlotsTypeOK
<1> QED BY <1>1, <1>2, <1>3, <1>4 DEF SlotsNext

LEMMA SlotsInvariant == SlotsSpec => []SlotsInv
<1> QED BY InitKeeps, SlotsStep, PTL DEF SlotsSpec

\* The count of a gate is right in every state, and the waiting requests stand in
\* one line, so a slot is neither leaked nor given back twice
\* (createCompositeReleaseFn, removeRequest, drainQueues).
THEOREM HoldersCountedHolds == SlotsSpec => []HoldersCounted
<1>1. SlotsInv => HoldersCounted
  BY DEF SlotsInv
<1> QED BY <1>1, SlotsInvariant, PTL

-----------------------------------------------------------------------------
(* Who is admitted. *)

\* Somebody is the last of a line: everyone else in it is ahead of him.
LEMMA LastOfLine ==
  ASSUME NEW S \in SUBSET Requests, S # {}, NEW ahd, InLine(S, ahd)
  PROVE  \E m \in S : Cardinality(ahd[m] \cap S) = Cardinality(S) - 1
<1> DEFINE n == Cardinality(S)
           f == [m \in S |-> Cardinality(ahd[m] \cap S)]
<1>1. IsFiniteSet(S) /\ n \in Nat /\ n # 0
  BY Counting, FS_EmptySet
<1>2. \A m \in S : f[m] \in 0 .. n - 1
  <2> TAKE m \in S
  <2>1. ahd[m] \cap S \in SUBSET (S \ {m}) /\ S \ {m} \in SUBSET Requests
    BY DEF InLine
  <2>2. /\ Cardinality(ahd[m] \cap S) <= Cardinality(S \ {m})
        /\ Cardinality(ahd[m] \cap S) \in Nat
    BY <2>1, Counting
  <2>3. Cardinality(S \ {m}) = n - 1
    BY <1>1, FS_RemoveElement
  <2> HIDE DEF n
  <2> QED BY <2>2, <2>3, <1>1
<1>3. \A x, y \in S : x # y => f[x] # f[y]
  <2>1. ASSUME NEW x \in S, NEW y \in S, x \in ahd[y] PROVE f[x] < f[y]
    <3>1. (ahd[x] \cap S) \cup {x} \in SUBSET (ahd[y] \cap S) /\ x \notin ahd[x]
      BY <2>1 DEF InLine
    <3>2. ahd[y] \cap S \in SUBSET Requests /\ ahd[x] \cap S \in SUBSET Requests
      OBVIOUS
    <3>3. Cardinality((ahd[x] \cap S) \cup {x}) <= Cardinality(ahd[y] \cap S)
      BY <3>1, <3>2, Counting
    <3>4. Cardinality((ahd[x] \cap S) \cup {x}) = Cardinality(ahd[x] \cap S) + 1
      BY <3>1, <3>2, Counting, FS_AddElement
    <3>5. f[x] = Cardinality(ahd[x] \cap S) /\ f[y] = Cardinality(ahd[y] \cap S)
      OBVIOUS
    <3>6. Cardinality(ahd[x] \cap S) \in Nat /\ Cardinality(ahd[y] \cap S) \in Nat
      BY <3>2, Counting
    <3> HIDE DEF f
    <3> QED BY <3>3, <3>4, <3>5, <3>6
  <2> SUFFICES ASSUME NEW x \in S, NEW y \in S, x # y PROVE f[x] # f[y]
    OBVIOUS
  <2>2. x \in ahd[y] \/ y \in ahd[x]
    BY DEF InLine
  <2>3. f[x] \in Nat /\ f[y] \in Nat
    BY <1>2
  <2> HIDE DEF f
  <2> QED BY <2>1, <2>2, <2>3
<1>4. SUFFICES ASSUME \A m \in S : f[m] # n - 1 PROVE FALSE
  OBVIOUS
<1> HIDE DEF f, n
<1>5. f \in [S -> 0 .. n - 2]
  <2>1. \A m \in S : f[m] \in 0 .. n - 2
    BY <1>1, <1>2, <1>4
  <2>2. f = [m \in S |-> f[m]]
    BY DEF f
  <2> QED BY <2>1, <2>2
<1>6. IsFiniteSet(0 .. n - 2) /\ Cardinality(0 .. n - 2) < n
  <2>1. IsFiniteSet(0 .. n - 2) /\ Cardinality(0 .. n - 2) = IF 0 > n - 2 THEN 0 ELSE n - 2 - 0 + 1
    BY <1>1, FS_Interval
  <2> QED BY <1>1, <2>1
<1>7. \E x, y \in S : x # y /\ f[x] = f[y]
  BY <1>1, <1>5, <1>6, FS_PigeonHole DEF n
<1> QED BY <1>3, <1>7

\* When the queues have been drained, nobody who waits could be admitted.
LEMMA DrainLeavesNone ==
  ASSUME NEW W \in SUBSET Requests, NEW base,
         NEW run \in [Gates -> Nat], NEW lim \in [Gates -> Nat],
         NEW ahd \in [Requests -> SUBSET Requests],
         NEW ned \in [Requests -> SUBSET Gates],
         \A r \in Requests \ W : base[r] # "waiting",
         Drain(W, base, run, lim, ahd, ned),
         UNCHANGED blocked,
         NEW r \in Requests, CanAcquire(r)'
  PROVE  FALSE
<1>1. PICK G \in SUBSET W :
        /\ Admits(G, W, run, lim, ahd, ned)
        /\ slot' = [q \in Requests |-> IF q \in G THEN "held"
                                       ELSE IF q \in W THEN "waiting" ELSE base[q]]
        /\ running' = [g \in Gates |-> run[g] + Cardinality({q \in G : g \in ned[q]})]
        /\ ahead' = [q \in Requests |-> IF q \in W \ G THEN (ahd[q] \cap W) \ G ELSE {}]
        /\ limit' = lim
        /\ need' = ned
  BY DEF Drain
<1>2. r \in W \ G /\ Waiting' = W \ G
  BY <1>1 DEF CanAcquire, Waiting
<1>3. PICK g \in ned[r] :
        LET before == {q \in ahd[r] \cap W : g \in ned[q]}
        IN  blocked[g] \/ ~(before \subseteq G) \/ ~(run[g] + Cardinality(before) < lim[g])
  BY <1>1, <1>2 DEF Admits
<1> DEFINE before == {q \in ahd[r] \cap W : g \in ned[q]}
           mine == {q \in G : g \in ned[q]}
<1>4. /\ g \in Gates /\ ~blocked[g] /\ running'[g] < lim[g]
      /\ ahead'[r] \cap Queue(g)' = {}
  BY <1>1 DEF CanAcquire
<1>5. before \subseteq G
  <2> SUFFICES ASSUME NEW q \in before, q \notin G PROVE FALSE
    OBVIOUS
  <2>1. q \in ahead'[r] /\ q \in Queue(g)'
    BY <1>1, <1>2 DEF Queue
  <2> QED BY <1>4, <2>1
<1>6. before \in SUBSET mine /\ mine \in SUBSET Requests
  BY <1>5
<1>7. Cardinality(before) <= Cardinality(mine) /\ Cardinality(before) \in Nat /\ Cardinality(mine) \in Nat
  BY <1>6, Counting
<1>8. running'[g] = run[g] + Cardinality(mine)
  BY <1>1, <1>4
<1>9. ~(run[g] + Cardinality(before) < lim[g])
  BY <1>3, <1>4, <1>5
<1>10. run[g] \in Nat /\ lim[g] \in Nat
  BY <1>4
<1> HIDE DEF before, mine
<1> QED BY <1>4, <1>7, <1>8, <1>9, <1>10

\* Whoever is admitted from the queues has room, and nobody ahead is passed.
AdmittedFrom(W, ahd, ned) ==
  \A r \in W : slot'[r] = "held" => \A g \in need'[r] :
    /\ ~blocked[g]
    /\ Cardinality(Holders(g)') <= limit'[g]
    /\ \A q \in ahd[r] \cap W : g \in ned[q] => slot'[q] = "held"

LEMMA DrainAdmits ==
  ASSUME NEW W \in SUBSET Requests,
         NEW base \in [Requests -> {"none", "waiting", "held"}],
         NEW run \in [Gates -> Nat], NEW lim \in [Gates -> Nat],
         NEW ahd \in [Requests -> SUBSET Requests],
         NEW ned \in [Requests -> SUBSET Gates],
         \A q \in Requests \ W : base[q] # "waiting",
         \A g \in Gates :
           run[g] = Cardinality({q \in Requests \ W : base[q] = "held" /\ g \in ned[q]}),
         InLine(W, ahd),
         Drain(W, base, run, lim, ahd, ned),
         blocked' \in [Gates -> BOOLEAN]
  PROVE  AdmittedFrom(W, ahd, ned)
<1> SUFFICES ASSUME NEW r \in W, slot'[r] = "held", NEW g \in need'[r]
             PROVE  /\ ~blocked[g]
                    /\ Cardinality(Holders(g)') <= limit'[g]
                    /\ \A q \in ahd[r] \cap W : g \in ned[q] => slot'[q] = "held"
  BY DEF AdmittedFrom
<1>1. PICK G \in SUBSET W :
        /\ Admits(G, W, run, lim, ahd, ned)
        /\ slot' = [q \in Requests |-> IF q \in G THEN "held"
                                       ELSE IF q \in W THEN "waiting" ELSE base[q]]
        /\ running' = [h \in Gates |-> run[h] + Cardinality({q \in G : h \in ned[q]})]
        /\ limit' = lim
        /\ need' = ned
  BY DEF Drain
<1>2. r \in G /\ g \in ned[r] /\ g \in Gates
  BY <1>1
<1> DEFINE mine == {q \in G : g \in ned[q]}
<1>3. PICK m \in mine : Cardinality(ahd[m] \cap mine) = Cardinality(mine) - 1
  <2>1. mine \in SUBSET Requests /\ mine # {}
    BY <1>2
  <2>2. InLine(mine, ahd)
    BY DEF InLine
  <2> HIDE DEF mine
  <2> QED BY <2>1, <2>2, LastOfLine
<1>4. LET before == {q \in ahd[m] \cap W : g \in ned[q]}
      IN  before \subseteq G /\ run[g] + Cardinality(before) < lim[g]
  BY <1>1 DEF Admits
<1>5. {q \in ahd[m] \cap W : g \in ned[q]} = ahd[m] \cap mine
  BY <1>4
<1>6. run[g] + (Cardinality(mine) - 1) < lim[g]
  BY <1>3, <1>4, <1>5
<1>7. running'[g] = run[g] + Cardinality(mine)
  BY <1>1, <1>2
<1>8. Cardinality(mine) \in Nat /\ run[g] \in Nat /\ lim[g] \in Nat
  <2>1. mine \in SUBSET Requests
    OBVIOUS
  <2> QED BY <2>1, <1>2, Counting
<1>9. running'[g] <= lim[g]
  <2> HIDE DEF mine
  <2> QED BY <1>6, <1>7, <1>8
<1>10. Cardinality(Holders(g)') = running'[g]
  <2>1. SlotsInv'
    BY DrainKeeps
  <2> QED BY <1>2, <2>1 DEF SlotsInv, HoldersCounted
<1>11. ~blocked[g] /\ \A q \in ahd[r] \cap W : g \in ned[q] => q \in G
  BY <1>1, <1>2 DEF Admits
<1> QED BY <1>1, <1>9, <1>10, <1>11

\* What the line of a step is: those who wait, with the newcomer behind them.
InTurn(r) ==
  \A g \in need'[r] :
    /\ ~blocked[g]
    /\ Cardinality(Holders(g)') <= limit'[g]
    /\ \A q \in Waiting \ {r} : (slot[r] = "none" \/ q \in ahead[r]) /\ g \in need[q]
                                  => slot'[q] # "waiting"

LEMMA AcquireInTurn ==
  ASSUME SlotsInv, NEW x \in Requests, Acquire(x),
         NEW r \in Requests, slot[r] # "held", slot'[r] = "held"
  PROVE  InTurn(r)
<1> USE DEF SlotsInv, SlotsTypeOK
<1>0. slot[x] = "none" /\ UNCHANGED blocked
  BY DEF Acquire
<1>1. PICK n \in Needs, wanted \in [Gates -> Limits] :
        LET lim == [g \in Gates |-> IF g \in n THEN wanted[g] ELSE limit[g]]
            ned == [need EXCEPT ![x] = n]
        IN  \/ /\ \A g \in n : Queue(g) = {} /\ running[g] < lim[g] /\ ~blocked[g]
               /\ slot' = [slot EXCEPT ![x] = "held"]
               /\ need' = ned
               /\ running' = Taken(n)
               /\ limit' = lim
            \/ Drain(Waiting \cup {x}, slot, running, lim, [ahead EXCEPT ![x] = Waiting], ned)
  BY ZenonT(30) DEF Acquire
<1> DEFINE lim == [g \in Gates |-> IF g \in n THEN wanted[g] ELSE limit[g]]
           ned == [need EXCEPT ![x] = n]
<1>2. lim \in [Gates -> Nat]
  BY NewLimits
<1>3. n \subseteq Gates /\ ned \in [Requests -> SUBSET Gates]
  BY SemaphoreAssumption
<1>4. ASSUME \A g \in n : Queue(g) = {} /\ running[g] < lim[g] /\ ~blocked[g],
             slot' = [slot EXCEPT ![x] = "held"], need' = ned, running' = Taken(n),
             limit' = lim
      PROVE  InTurn(r)
  <2>1. r = x /\ need'[r] = n
    BY <1>0, <1>4
  <2>2. ASSUME NEW g \in n
        PROVE  /\ Cardinality(Holders(g)') <= limit'[g]
               /\ \A q \in Waiting \ {r} : g \notin need[q]
    <3>1. SlotsInv'
      BY AcquireKeeps
    <3>2. Cardinality(Holders(g)') = running'[g] /\ g \in Gates
      BY <1>3, <3>1 DEF HoldersCounted
    <3>3. running'[g] = running[g] + 1 /\ running[g] < lim[g] /\ limit'[g] = lim[g]
      BY <1>4, <3>2 DEF Taken
    <3>4. running[g] \in Nat /\ lim[g] \in Nat
      BY <1>2, <3>2
    <3>5. Cardinality(Holders(g)') <= limit'[g]
      <4> HIDE DEF lim
      <4> QED BY <3>2, <3>3, <3>4
    <3> QED BY <1>4, <3>5 DEF Queue
  <2> QED BY <1>4, <2>1, <2>2 DEF InTurn
<1>5. ASSUME Drain(Waiting \cup {x}, slot, running, lim, [ahead EXCEPT ![x] = Waiting], ned)
      PROVE  InTurn(r)
  <2> DEFINE W == Waiting \cup {x}
             ahd == [ahead EXCEPT ![x] = Waiting]
  <2>1. W \in SUBSET Requests /\ \A q \in Requests \ W : slot[q] # "waiting"
    BY DEF Waiting
  <2>2. ahd \in [Requests -> SUBSET Requests]
    BY DEF Waiting
  <2>3. \A g \in Gates :
          running[g] = Cardinality({q \in Requests \ W : slot[q] = "held" /\ g \in ned[q]})
    <3> TAKE g \in Gates
    <3>1. {q \in Requests \ W : slot[q] = "held" /\ g \in ned[q]} = Holders(g)
      BY <1>0 DEF Holders, Waiting
    <3> QED BY <3>1 DEF HoldersCounted
  <2>4. InLine(W, ahd)
    BY <1>0, LongerLine
  <2>5. blocked' \in [Gates -> BOOLEAN] /\ running \in [Gates -> Nat]
        /\ slot \in [Requests -> {"none", "waiting", "held"}]
    BY <1>0
  <2>6. Drain(W, slot, running, lim, ahd, ned)
    BY <1>5
  <2>7. r \in W
    BY <2>6, <2>1 DEF Drain
  <2>8. \A g \in need'[r] :
          /\ ~blocked[g]
          /\ Cardinality(Holders(g)') <= limit'[g]
          /\ \A q \in ahd[r] \cap W : g \in ned[q] => slot'[q] = "held"
    <3> HIDE DEF W, ahd, lim, ned, SlotsInv
    <3>1. AdmittedFrom(W, ahd, ned)
      BY <1>2, <1>3, <2>1, <2>2, <2>3, <2>4, <2>5, <2>6, DrainAdmits
    <3> QED BY <2>7, <3>1 DEF AdmittedFrom
  <2>9. \A q \in Waiting \ {r} : /\ slot[r] = "none" \/ q \in ahead[r] => q \in ahd[r] \cap W
                                 /\ ned[q] = need[q]
    BY <1>0, <2>7 DEF Waiting
  <2> HIDE DEF ahd, W, ned
  <2> QED BY <2>8, <2>9 DEF InTurn
<1> QED BY <1>1, <1>4, <1>5

\* The steps of GiveUp and Release admit from the line as it is.
LEMMA DrainInTurn ==
  ASSUME SlotsInv, NEW x \in Requests,
         NEW W \in SUBSET Waiting, \A q \in Waiting \ W : q = x,
         NEW run \in [Gates -> Nat],
         \A g \in Gates :
           run[g] = Cardinality({q \in Requests \ W :
                                   /\ [slot EXCEPT ![x] = "none"][q] = "held"
                                   /\ g \in [need EXCEPT ![x] = {}][q]}),
         Drain(W, [slot EXCEPT ![x] = "none"], run, limit, ahead, [need EXCEPT ![x] = {}]),
         x \notin W,
         UNCHANGED blocked,
         NEW r \in Requests, slot[r] # "held", slot'[r] = "held"
  PROVE  InTurn(r)
<1> USE DEF SlotsInv, SlotsTypeOK
<1> DEFINE base == [slot EXCEPT ![x] = "none"]
           ned == [need EXCEPT ![x] = {}]
<1>1. W \in SUBSET Requests /\ \A q \in Requests \ W : base[q] # "waiting"
  BY DEF Waiting
<1>2. base \in [Requests -> {"none", "waiting", "held"}] /\ ned \in [Requests -> SUBSET Gates]
  OBVIOUS
<1>3. InLine(W, ahead)
  BY PresentLine DEF InLine
<1>4. /\ limit \in [Gates -> Nat] /\ ahead \in [Requests -> SUBSET Requests]
      /\ blocked' \in [Gates -> BOOLEAN]
  OBVIOUS
<1>5. Drain(W, base, run, limit, ahead, ned)
  OBVIOUS
<1>6. r \in W /\ r # x
  BY <1>5, <1>1 DEF Drain
<1>7. \A g \in need'[r] :
        /\ ~blocked[g]
        /\ Cardinality(Holders(g)') <= limit'[g]
        /\ \A q \in ahead[r] \cap W : g \in ned[q] => slot'[q] = "held"
  <2>1. \A g \in Gates :
          run[g] = Cardinality({q \in Requests \ W : base[q] = "held" /\ g \in ned[q]})
    OBVIOUS
  <2> HIDE DEF base, ned, SlotsInv
  <2>2. AdmittedFrom(W, ahead, ned)
    BY <2>1, <1>1, <1>2, <1>3, <1>4, <1>5, DrainAdmits
  <2> QED BY <1>6, <2>2 DEF AdmittedFrom
<1>8. slot[r] = "waiting"
  BY <1>6 DEF Waiting
<1>9. slot'[x] # "waiting"
  BY <1>5, <1>6 DEF Drain
<1>10. \A q \in Waiting \ {r} : q = x \/ (q \in W /\ ned[q] = need[q])
  BY DEF Waiting
<1> HIDE DEF base, ned
<1> QED BY <1>7, <1>8, <1>9, <1>10 DEF InTurn

LEMMA GiveUpInTurn ==
  ASSUME SlotsInv, NEW x \in Requests, GiveUp(x),
         NEW r \in Requests, slot[r] # "held", slot'[r] = "held"
  PROVE  InTurn(r)
<1> USE DEF SlotsInv, SlotsTypeOK
<1>1. slot[x] = "waiting" /\ x \in Waiting
  BY DEF GiveUp, Waiting
<1> DEFINE W == Waiting \ {x}
<1>2. \A g \in Gates :
        running[g] = Cardinality({q \in Requests \ W :
                                    /\ [slot EXCEPT ![x] = "none"][q] = "held"
                                    /\ g \in [need EXCEPT ![x] = {}][q]})
  <2> TAKE g \in Gates
  <2>1. {q \in Requests \ W : /\ [slot EXCEPT ![x] = "none"][q] = "held"
                              /\ g \in [need EXCEPT ![x] = {}][q]} = Holders(g)
    BY <1>1 DEF Holders, Waiting
  <2> QED BY <2>1 DEF HoldersCounted
<1>3. Drain(W, [slot EXCEPT ![x] = "none"], running, limit, ahead, [need EXCEPT ![x] = {}])
      /\ UNCHANGED blocked
  BY DEF GiveUp
<1>4. W \in SUBSET Waiting /\ (\A q \in Waiting \ W : q = x) /\ x \notin W
  OBVIOUS
<1>5. running \in [Gates -> Nat]
  OBVIOUS
<1> HIDE DEF W, SlotsInv, SlotsTypeOK
<1> QED BY <1>2, <1>3, <1>4, <1>5, DrainInTurn

LEMMA ReleaseInTurn ==
  ASSUME SlotsInv, NEW x \in Requests, Release(x),
         NEW r \in Requests, slot[r] # "held", slot'[r] = "held"
  PROVE  InTurn(r)
<1> USE DEF SlotsInv, SlotsTypeOK
<1> DEFINE run == [g \in Gates |-> IF g \in need[x] THEN running[g] - 1 ELSE running[g]]
<1>1. \A g \in Gates :
        /\ run[g] \in Nat
        /\ run[g] = Cardinality({q \in Requests \ Waiting :
                                   /\ [slot EXCEPT ![x] = "none"][q] = "held"
                                   /\ g \in [need EXCEPT ![x] = {}][q]})
  <2> TAKE g \in Gates
  <2>1. {q \in Requests \ Waiting : /\ [slot EXCEPT ![x] = "none"][q] = "held"
                                    /\ g \in [need EXCEPT ![x] = {}][q]} = Holders(g) \ {x}
    BY DEF Holders, Waiting, Release
  <2>2. Holders(g) \in SUBSET Requests /\ (x \in Holders(g) <=> g \in need[x])
    BY DEF Holders, Release
  <2>3. Cardinality(Holders(g) \ {x})
          = IF g \in need[x] THEN Cardinality(Holders(g)) - 1 ELSE Cardinality(Holders(g))
    BY <2>2, Counting, FS_RemoveElement
  <2>4. Cardinality(Holders(g) \ {x}) \in Nat
    BY <2>2, Counting
  <2>5. running[g] = Cardinality(Holders(g))
    BY DEF HoldersCounted
  <2>6. run[g] = Cardinality(Holders(g) \ {x})
    BY <2>3, <2>5
  <2> QED BY <2>1, <2>4, <2>6
<1>2. Drain(Waiting, [slot EXCEPT ![x] = "none"], run, limit, ahead, [need EXCEPT ![x] = {}])
      /\ UNCHANGED blocked
  BY DEF Release
<1>3. x \notin Waiting
  BY DEF Release, Waiting
<1>4. run \in [Gates -> Nat]
  BY <1>1
<1> HIDE DEF run, SlotsInv, SlotsTypeOK
<1> QED BY <1>1, <1>2, <1>3, <1>4, DrainInTurn

\* Whoever is admitted has room in all his gates and passes nobody, in the steps
\* that admit: an acquire, a release, and a request that gives up (acquireMany,
\* canAcquire, drainQueues).
THEOREM AdmittedInTurnHolds == SlotsSpec => AdmittedInTurn
<1>1. SlotsInv /\ [SlotsNext]_slots =>
        [\A r \in Requests : slot[r] # "held" /\ slot'[r] = "held" =>
           \A g \in need'[r] :
             /\ ~blocked[g]
             /\ Cardinality(Holders(g)') <= limit'[g]
             /\ \A q \in Waiting \ {r} : (slot[r] = "none" \/ q \in ahead[r]) /\ g \in need[q]
                                           => slot'[q] # "waiting"]_slots
  <2> SUFFICES ASSUME SlotsInv, SlotsNext,
                      NEW r \in Requests, slot[r] # "held", slot'[r] = "held"
               PROVE  InTurn(r)
    BY DEF InTurn
  <2>1. ASSUME NEW x \in Requests, Refuse(x) \/ Acquire(x) \/ GiveUp(x) \/ Release(x)
        PROVE  InTurn(r)
    BY <2>1, AcquireInTurn, GiveUpInTurn, ReleaseInTurn DEF Refuse
  <2>2. ASSUME NEW g \in Gates, MarkBlocked(g) \/ BlockEnds(g) PROVE FALSE
    BY <2>2 DEF MarkBlocked, BlockEnds
  <2>3. ~SlotsLost
    BY DEF SlotsLost
  <2> QED BY <2>1, <2>2, <2>3 DEF SlotsNext
<1> QED BY <1>1, SlotsInvariant, PTL DEF SlotsSpec, AdmittedInTurn

\* When the queues were drained nobody is left who could be admitted.
LEMMA GiveUpLeavesNone ==
  ASSUME SlotsInv, NEW x \in Requests, GiveUp(x), NEW r \in Requests, CanAcquire(r)'
  PROVE  FALSE
<1> USE DEF SlotsInv, SlotsTypeOK
<1> DEFINE W == Waiting \ {x}
           base == [slot EXCEPT ![x] = "none"]
           ned == [need EXCEPT ![x] = {}]
<1>1. /\ W \in SUBSET Requests /\ \A q \in Requests \ W : base[q] # "waiting"
      /\ running \in [Gates -> Nat] /\ limit \in [Gates -> Nat]
      /\ ahead \in [Requests -> SUBSET Requests] /\ ned \in [Requests -> SUBSET Gates]
  BY DEF Waiting
<1>2. Drain(W, base, running, limit, ahead, ned) /\ UNCHANGED blocked
  BY DEF GiveUp
<1> HIDE DEF W, base, ned, SlotsInv
<1> QED BY <1>1, <1>2, DrainLeavesNone

LEMMA ReleaseLeavesNone ==
  ASSUME SlotsInv, NEW x \in Requests, Release(x), NEW r \in Requests, CanAcquire(r)'
  PROVE  FALSE
<1> USE DEF SlotsInv, SlotsTypeOK
<1> DEFINE base == [slot EXCEPT ![x] = "none"]
           ned == [need EXCEPT ![x] = {}]
           run == [g \in Gates |-> IF g \in need[x] THEN running[g] - 1 ELSE running[g]]
<1>1. run \in [Gates -> Nat]
  <2> SUFFICES ASSUME NEW g \in Gates, g \in need[x] PROVE running[g] - 1 \in Nat
    OBVIOUS
  <2>1. Holders(g) \in SUBSET Requests /\ x \in Holders(g)
    BY DEF Holders, Release
  <2>2. IsFiniteSet(Holders(g)) /\ Cardinality(Holders(g)) # 0 /\ Cardinality(Holders(g)) \in Nat
    BY <2>1, Counting, FS_EmptySet
  <2>3. running[g] = Cardinality(Holders(g))
    BY DEF HoldersCounted
  <2> QED BY <2>2, <2>3
<1>2. /\ Waiting \in SUBSET Requests /\ \A q \in Requests \ Waiting : base[q] # "waiting"
      /\ limit \in [Gates -> Nat]
      /\ ahead \in [Requests -> SUBSET Requests] /\ ned \in [Requests -> SUBSET Gates]
  BY DEF Waiting
<1>3. Drain(Waiting, base, run, limit, ahead, ned) /\ UNCHANGED blocked
  BY DEF Release
<1> HIDE DEF base, ned, run, SlotsInv
<1> QED BY <1>1, <1>2, <1>3, DrainLeavesNone

LEMMA AcquireLeavesNone ==
  ASSUME SlotsInv, NEW x \in Requests, slot[x] = "none", UNCHANGED blocked,
         NEW n \in Needs, NEW wanted \in [Gates -> Limits],
         Drain(Waiting \cup {x}, slot, running,
               [g \in Gates |-> IF g \in n THEN wanted[g] ELSE limit[g]],
               [ahead EXCEPT ![x] = Waiting], [need EXCEPT ![x] = n]),
         NEW r \in Requests, CanAcquire(r)'
  PROVE  FALSE
<1> USE DEF SlotsInv, SlotsTypeOK
<1> DEFINE lim == [g \in Gates |-> IF g \in n THEN wanted[g] ELSE limit[g]]
           ned == [need EXCEPT ![x] = n]
           W == Waiting \cup {x}
           ahd == [ahead EXCEPT ![x] = Waiting]
<1>1. lim \in [Gates -> Nat] /\ ned \in [Requests -> SUBSET Gates]
  BY NewLimits, SemaphoreAssumption
<1>2. /\ W \in SUBSET Requests /\ \A q \in Requests \ W : slot[q] # "waiting"
      /\ ahd \in [Requests -> SUBSET Requests] /\ running \in [Gates -> Nat]
  BY DEF Waiting
<1>3. Drain(W, slot, running, lim, ahd, ned)
  OBVIOUS
<1> HIDE DEF W, ahd, lim, ned, SlotsInv
<1> QED BY <1>1, <1>2, <1>3, DrainLeavesNone

\* Nobody is left waiting by a step that makes room for him, but for the two
\* steps that drain nothing (drainQueues is called by release, by a request that
\* gives up and by one that queues).
THEOREM NotLeftWaitingHolds == SlotsSpec => NotLeftWaiting
<1>1. SlotsInv /\ [SlotsNext]_slots =>
        [(\E r \in Waiting' : CanAcquire(r)' /\ ~CanAcquire(r)) =>
           slot' = slot /\ (blocked' # blocked \/ limit' # limit)]_slots
  <2> SUFFICES ASSUME SlotsInv, SlotsNext,
                      NEW r \in Requests, CanAcquire(r)', ~CanAcquire(r)
               PROVE  slot' = slot /\ (blocked' # blocked \/ limit' # limit)
    BY DEF Waiting
  <2> USE DEF SlotsInv, SlotsTypeOK
  <2>1. ASSUME NEW x \in Requests, Refuse(x)
        PROVE  slot' = slot /\ (blocked' # blocked \/ limit' # limit)
    BY <2>1 DEF Refuse, CanAcquire, Waiting, Queue
  <2>2. ASSUME NEW x \in Requests, Acquire(x) PROVE FALSE
    <3>0. slot[x] = "none" /\ UNCHANGED blocked
      BY <2>2 DEF Acquire
    <3>1. PICK n \in Needs, wanted \in [Gates -> Limits] :
            LET lim == [g \in Gates |-> IF g \in n THEN wanted[g] ELSE limit[g]]
                ned == [need EXCEPT ![x] = n]
            IN  \/ /\ \A g \in n : Queue(g) = {}
                   /\ slot' = [slot EXCEPT ![x] = "held"]
                   /\ need' = ned
                   /\ running' = Taken(n)
                   /\ limit' = lim
                   /\ UNCHANGED ahead
                \/ Drain(Waiting \cup {x}, slot, running, lim, [ahead EXCEPT ![x] = Waiting], ned)
      BY <2>2 DEF Acquire
    <3> DEFINE lim == [g \in Gates |-> IF g \in n THEN wanted[g] ELSE limit[g]]
               ned == [need EXCEPT ![x] = n]
               W == Waiting \cup {x}
               ahd == [ahead EXCEPT ![x] = Waiting]
    <3>2. ASSUME \A g \in n : Queue(g) = {}, slot' = [slot EXCEPT ![x] = "held"],
                 need' = ned, running' = Taken(n), limit' = lim, UNCHANGED ahead
          PROVE  FALSE
      <4>1. r \in Waiting /\ r # x /\ need'[r] = need[r] /\ Waiting' = Waiting
        BY <3>0, <3>2 DEF CanAcquire, Waiting
      <4>2. ASSUME NEW g \in need[r]
            PROVE  /\ running'[g] = running[g] /\ limit'[g] = limit[g]
                   /\ Queue(g)' = Queue(g)
        <5>1. g \notin n /\ g \in Gates
          BY <3>2, <4>1 DEF Queue
        <5> QED BY <3>2, <4>1, <5>1 DEF Taken, Queue, Waiting
      <4> QED BY <3>0, <3>2, <4>1, <4>2 DEF CanAcquire
    <3>3. ASSUME Drain(W, slot, running, lim, ahd, ned) PROVE FALSE
      BY <3>0, <3>3, AcquireLeavesNone
    <3> QED BY <3>1, <3>2, <3>3
  <2>3. ASSUME NEW x \in Requests, GiveUp(x) PROVE FALSE
    BY <2>3, GiveUpLeavesNone
  <2>4. ASSUME NEW x \in Requests, Release(x) PROVE FALSE
    BY <2>4, ReleaseLeavesNone
  <2>5. ASSUME NEW g \in Gates, MarkBlocked(g) \/ BlockEnds(g)
        PROVE  slot' = slot /\ blocked' # blocked
    BY <2>5 DEF MarkBlocked, BlockEnds
  <2>6. ~SlotsLost
    BY DEF SlotsLost, CanAcquire, Waiting
  <2> QED BY <2>1, <2>2, <2>3, <2>4, <2>5, <2>6 DEF SlotsNext
<1> QED BY <1>1, SlotsInvariant, PTL DEF SlotsSpec, NotLeftWaiting

-----------------------------------------------------------------------------
(* The drain as a loop.  Admits says who is admitted when the queues are    *)
(* drained; drainQueues finds them one at a time, from the front of the     *)
(* line, and starts again after each.  The set is one and only one, and the *)
(* loop ends with it.                                                       *)

\* Induction over the parts of a finite set, without an operator for the
\* statement: a family of parts has a smallest member.
LEMMA SmallestPart ==
  ASSUME NEW S, IsFiniteSet(S), NEW F \in SUBSET (SUBSET S), F # {}
  PROVE  \E A \in F : \A B \in F : B \subseteq A => B = A
<1>1. IsWellFoundedOn(StrictSubsetOrdering(S), FiniteSubsetsOf(S))
  BY FS_StrictSubsetOrderingWellFounded
<1>2. FiniteSubsetsOf(S) = SUBSET S
  BY FS_FiniteSubsetsOfFinite
<1>3. \E A \in F : \A B \in F : <<B, A>> \notin StrictSubsetOrdering(S)
  BY <1>1, <1>2, WFMin
<1> QED BY <1>3 DEF StrictSubsetOrdering

\* And a largest one: its complement is the smallest.
LEMMA LargestPart ==
  ASSUME NEW S, IsFiniteSet(S), NEW F \in SUBSET (SUBSET S), F # {}
  PROVE  \E A \in F : \A B \in F : A \subseteq B => B = A
<1> DEFINE C == {S \ A : A \in F}
<1>1. C \in SUBSET (SUBSET S) /\ C # {}
  <2>1. PICK A \in F : TRUE
    OBVIOUS
  <2>2. S \ A \in C
    BY <2>1
  <2>3. \A D \in C : D \subseteq S
    OBVIOUS
  <2> QED BY <2>2, <2>3
<1>2. PICK D \in C : \A E \in C : E \subseteq D => E = D
  <2> HIDE DEF C
  <2> QED BY <1>1, SmallestPart
<1>3. PICK A \in F : D = S \ A
  BY <1>2
<1>4. ASSUME NEW B \in F, A \subseteq B PROVE B = A
  <2>1. S \ B \in C /\ S \ B \subseteq D
    BY <1>3, <1>4
  <2>2. S \ B = S \ A
    BY <1>2, <1>3, <2>1
  <2> QED BY <2>2
<1> QED BY <1>4

\* Somebody is the first of a line.
LEMMA FirstOfLine ==
  ASSUME NEW W \in SUBSET Requests, NEW ahd, InLine(W, ahd),
         NEW S \in SUBSET W, S # {}
  PROVE  \E r \in S : ahd[r] \cap S = {}
<1> DEFINE F == {ahd[r] \cap S : r \in S}
<1>1. IsFiniteSet(S)
  BY SemaphoreAssumption, FS_Subset
<1>2. PICK A \in F : \A B \in F : B \subseteq A => B = A
  <2>1. F \in SUBSET (SUBSET S)
    OBVIOUS
  <2>2. F # {}
    OBVIOUS
  <2> HIDE DEF F
  <2> QED BY <1>1, <2>1, <2>2, SmallestPart
<1>3. PICK r \in S : A = ahd[r] \cap S
  BY <1>2
<1>4. ASSUME NEW q \in ahd[r] \cap S PROVE FALSE
  <2>1. ahd[q] \cap S \subseteq A /\ q \notin ahd[q]
    BY <1>3, <1>4 DEF InLine
  <2>2. ahd[q] \cap S = A
    BY <1>2, <1>4, <2>1
  <2> QED BY <1>3, <1>4, <2>1, <2>2
<1> QED BY <1>3, <1>4

\* What Admits asks of one request when those in A are admitted.
Entitled(r, A, W, run, lim, ahd, ned) ==
  \A g \in ned[r] :
    LET before == {q \in ahd[r] \cap W : g \in ned[q]}
    IN  /\ ~blocked[g]
        /\ before \subseteq A
        /\ run[g] + Cardinality(before) < lim[g]

LEMMA AdmitsTheEntitled ==
  ASSUME NEW W, NEW run, NEW lim, NEW ahd, NEW ned, NEW G
  PROVE  Admits(G, W, run, lim, ahd, ned)
           <=> /\ G \subseteq W
               /\ \A r \in W : r \in G <=> Entitled(r, G, W, run, lim, ahd, ned)
BY DEF Admits, Entitled

\* Whom the loop may admit next when it has admitted those in A: canAcquire with
\* the counts of the moment, and nobody left ahead in any of his queues.
MayBeNext(r, A, W, run, lim, ahd, ned) ==
  /\ r \in W \ A
  /\ \A g \in ned[r] :
       /\ ~blocked[g]
       /\ run[g] + Cardinality({q \in A : g \in ned[q]}) < lim[g]
       /\ {q \in ahd[r] \cap (W \ A) : g \in ned[q]} = {}

\* The invariant of the loop: it has admitted none but those of G, and passed
\* nobody in a queue.
LoopIsAt(A, G, W, ahd, ned) ==
  /\ A \subseteq G
  /\ \A r \in A : \A q \in ahd[r] \cap W : ned[q] \cap ned[r] # {} => q \in A

\* The queues of every line are drained in one way.
THEOREM DrainIsDetermined ==
  ASSUME NEW W \in SUBSET Requests, NEW ahd, InLine(W, ahd),
         NEW run, NEW lim, NEW ned
  PROVE  \E G \in SUBSET W : /\ Admits(G, W, run, lim, ahd, ned)
                             /\ \A H : Admits(H, W, run, lim, ahd, ned) => H = G
<1> DEFINE E(r, A) == Entitled(r, A, W, run, lim, ahd, ned)
           F == {A \in SUBSET W : \A r \in A : E(r, A)}
<1>1. \A r, A, B : A \subseteq B /\ E(r, A) => E(r, B)
  BY DEF Entitled
<1>2. \A H : Admits(H, W, run, lim, ahd, ned)
               <=> H \subseteq W /\ \A r \in W : r \in H <=> E(r, H)
  BY AdmitsTheEntitled
<1>3. \A r \in W : \A A : E(r, A) => \A g \in ned[r] : {q \in ahd[r] \cap W : g \in ned[q]} \subseteq A
  BY DEF Entitled
<1>4. \A r \in W : \A A, B :
                         /\ E(r, A)
                         /\ \A g \in ned[r] : {q \in ahd[r] \cap W : g \in ned[q]} \subseteq B
                         => E(r, B)
  BY DEF Entitled
<1> HIDE DEF E
\* The largest set of requests that are entitled beside one another.
<1>5. PICK G \in F : \A B \in F : G \subseteq B => B = G
  <2>1. F \in SUBSET (SUBSET W) /\ {} \in F
    OBVIOUS
  <2>2. IsFiniteSet(W)
    BY SemaphoreAssumption, FS_Subset
  <2> HIDE DEF F
  <2> QED BY <2>1, <2>2, LargestPart
<1>6. ASSUME NEW r \in W, E(r, G) PROVE r \in G
  <2>1. G \cup {r} \in F
    BY <1>1, <1>6
  <2> QED BY <1>5, <2>1
<1>7. Admits(G, W, run, lim, ahd, ned)
  BY <1>2, <1>5, <1>6
<1>8. ASSUME NEW H, Admits(H, W, run, lim, ahd, ned) PROVE H = G
  <2>1. H \subseteq W /\ G \subseteq W /\ \A r \in W : /\ (r \in H <=> E(r, H))
                                                       /\ (r \in G <=> E(r, G))
    BY <1>2, <1>7, <1>8
  <2> DEFINE S == (G \ H) \cup (H \ G)
  <2>2. SUFFICES ASSUME S # {} PROVE FALSE
    OBVIOUS
  <2>3. PICK r \in S : ahd[r] \cap S = {}
    <3>1. S \in SUBSET W
      BY <2>1
    <3> HIDE DEF S
    <3> QED BY <2>2, <3>1, FirstOfLine
  <2>4. \A g : {q \in ahd[r] \cap W : g \in ned[q]} \subseteq G
                 <=> {q \in ahd[r] \cap W : g \in ned[q]} \subseteq H
    BY <2>3
  <2>5. r \in W
    BY <2>1
  <2>6. E(r, G) => E(r, H)
    BY <1>3, <1>4, <2>4, <2>5
  <2>7. E(r, H) => E(r, G)
    BY <1>3, <1>4, <2>4, <2>5
  <2> QED BY <2>1, <2>5, <2>6, <2>7
<1> QED BY <1>7, <1>8

\* The loop of drainQueues keeps its invariant whomever it admits next, and when
\* there is nobody left to admit it has admitted the set that Admits describes:
\* one step of the model is the whole loop.
THEOREM LoopAdmits ==
  ASSUME NEW W \in SUBSET Requests, NEW ahd, InLine(W, ahd),
         NEW run \in [Gates -> Nat], NEW lim \in [Gates -> Nat],
         NEW ned \in [Requests -> SUBSET Gates],
         NEW G, Admits(G, W, run, lim, ahd, ned)
  PROVE  /\ LoopIsAt({}, G, W, ahd, ned)
         /\ \A A : LoopIsAt(A, G, W, ahd, ned) =>
              /\ \A r : MayBeNext(r, A, W, run, lim, ahd, ned)
                          => LoopIsAt(A \cup {r}, G, W, ahd, ned)
              /\ (\A r : ~MayBeNext(r, A, W, run, lim, ahd, ned)) => A = G
<1> DEFINE before(r, g) == {q \in ahd[r] \cap W : g \in ned[q]}
           taken(A, g) == {q \in A : g \in ned[q]}
<1>1. /\ G \subseteq W
      /\ \A r \in W : r \in G <=>
           \A g \in ned[r] : /\ ~blocked[g]
                             /\ before(r, g) \subseteq G
                             /\ run[g] + Cardinality(before(r, g)) < lim[g]
  BY DEF Admits
<1>2. LoopIsAt({}, G, W, ahd, ned)
  BY DEF LoopIsAt
<1>3. SUFFICES ASSUME NEW A, LoopIsAt(A, G, W, ahd, ned)
               PROVE  /\ \A r : MayBeNext(r, A, W, run, lim, ahd, ned)
                                  => LoopIsAt(A \cup {r}, G, W, ahd, ned)
                      /\ (\A r : ~MayBeNext(r, A, W, run, lim, ahd, ned)) => A = G
  BY <1>2
<1>4. /\ A \subseteq G
      /\ \A r \in A : \A q \in ahd[r] \cap W : ned[q] \cap ned[r] # {} => q \in A
  BY <1>3 DEF LoopIsAt
<1>5. \A r : \A g \in Gates : /\ taken(A, g) \in SUBSET Requests
                              /\ before(r, g) \in SUBSET Requests
  BY <1>1, <1>4
<1>6. ASSUME NEW r, MayBeNext(r, A, W, run, lim, ahd, ned)
      PROVE  LoopIsAt(A \cup {r}, G, W, ahd, ned)
  <2>1. r \in W /\ r \in Requests /\ ned[r] \subseteq Gates
    BY <1>6 DEF MayBeNext
  <2>2. \A g \in ned[r] : before(r, g) \subseteq taken(A, g)
    BY <1>6 DEF MayBeNext
  <2>3. ASSUME NEW g \in ned[r]
        PROVE  run[g] + Cardinality(before(r, g)) < lim[g]
    <3>1. g \in Gates /\ run[g] \in Nat /\ lim[g] \in Nat
      BY <2>1
    <3>2. /\ Cardinality(before(r, g)) <= Cardinality(taken(A, g))
          /\ Cardinality(before(r, g)) \in Nat /\ Cardinality(taken(A, g)) \in Nat
      BY <1>5, <2>2, <3>1, Counting
    <3>3. run[g] + Cardinality(taken(A, g)) < lim[g]
      BY <1>6 DEF MayBeNext
    <3> HIDE DEF before, taken
    <3> QED BY <3>1, <3>2, <3>3
  <2>4. \A g \in ned[r] : ~blocked[g]
    BY <1>6 DEF MayBeNext
  <2>5. r \in G
    <3>1. \A g \in ned[r] : before(r, g) \subseteq G
      BY <1>4, <2>2
    <3> HIDE DEF before
    <3> QED BY <1>1, <2>1, <2>3, <2>4, <3>1
  <2>6. \A q \in ahd[r] \cap W : ned[q] \cap ned[r] # {} => q \in A
    BY <2>2
  <2> QED BY <1>4, <2>5, <2>6 DEF LoopIsAt
<1>7. ASSUME A # G PROVE \E r : MayBeNext(r, A, W, run, lim, ahd, ned)
  <2>1. PICK r \in G \ A : ahd[r] \cap (G \ A) = {}
    <3> DEFINE S == G \ A
    <3>1. S \in SUBSET W /\ S # {}
      BY <1>1, <1>4, <1>7
    <3>2. \E r \in S : ahd[r] \cap S = {}
      <4> HIDE DEF S
      <4> QED BY <3>1, FirstOfLine
    <3> QED BY <3>2
  <2>2. r \in W /\ r \in Requests /\ ned[r] \subseteq Gates
    BY <1>1, <2>1
  <2>3. \A g \in ned[r] : before(r, g) \subseteq A
    BY <1>1, <2>1, <2>2
  <2>4. \A q \in A : ned[q] \cap ned[r] # {} => q \in ahd[r]
    <3> SUFFICES ASSUME NEW q \in A, ned[q] \cap ned[r] # {}, q \notin ahd[r] PROVE FALSE
      OBVIOUS
    <3>1. q \in W /\ q # r
      BY <1>1, <1>4, <2>1
    <3>2. r \in ahd[q] \cap W
      BY <2>2, <3>1 DEF InLine
    <3> QED BY <1>4, <2>1, <3>2
  <2>5. \A g \in ned[r] : taken(A, g) = before(r, g)
    BY <1>1, <1>4, <2>3, <2>4
  <2>6. \A g \in ned[r] : {q \in ahd[r] \cap (W \ A) : g \in ned[q]} = {}
    BY <2>3
  <2>7. \A g \in ned[r] : ~blocked[g] /\ run[g] + Cardinality(taken(A, g)) < lim[g]
    <3> HIDE DEF before, taken
    <3> QED BY <1>1, <2>1, <2>2, <2>5
  <2> QED BY <2>1, <2>2, <2>6, <2>7 DEF MayBeNext
<1> QED BY <1>6, <1>7

\* Every step that drains finds its set, and only one: a release, a request that
\* gives up, and one that queues with any needs and limits.
Drained(W, run, lim, ahd, ned) ==
  \E G \in SUBSET W : /\ Admits(G, W, run, lim, ahd, ned)
                      /\ \A H : Admits(H, W, run, lim, ahd, ned) => H = G

DrainsAreDecided ==
  \A r \in Requests :
    /\ slot[r] = "waiting" =>
         Drained(Waiting \ {r}, running, limit, ahead, [need EXCEPT ![r] = {}])
    /\ slot[r] = "held" =>
         Drained(Waiting,
                 [g \in Gates |-> IF g \in need[r] THEN running[g] - 1 ELSE running[g]],
                 limit, ahead, [need EXCEPT ![r] = {}])
    /\ slot[r] = "none" =>
         \A n \in Needs, wanted \in [Gates -> Limits] :
           Drained(Waiting \cup {r}, running,
                   [g \in Gates |-> IF g \in n THEN wanted[g] ELSE limit[g]],
                   [ahead EXCEPT ![r] = Waiting], [need EXCEPT ![r] = n])

\* In every state the queues can be drained after whatever happens next, with one
\* outcome: no release is held up by a drain, and no drain chooses (drainQueues).
THEOREM DrainsAreDecidedHolds == SlotsSpec => []DrainsAreDecided
<1>1. ASSUME NEW W \in SUBSET Requests, NEW ahd, InLine(W, ahd), NEW run, NEW lim, NEW ned
      PROVE  Drained(W, run, lim, ahd, ned)
  BY <1>1, DrainIsDetermined DEF Drained
<1>2. ASSUME SlotsInv PROVE DrainsAreDecided
  <2> USE DEF DrainsAreDecided
  <2> TAKE r \in Requests
  <2>1. Waiting \in SUBSET Requests /\ InLine(Waiting, ahead)
    BY <1>2, PresentLine DEF Waiting
  <2>2. Waiting \ {r} \in SUBSET Requests /\ InLine(Waiting \ {r}, ahead)
    BY <2>1 DEF InLine
  <2>3. ASSUME slot[r] = "none"
        PROVE  /\ Waiting \cup {r} \in SUBSET Requests
               /\ InLine(Waiting \cup {r}, [ahead EXCEPT ![r] = Waiting])
    BY <1>2, <2>1, <2>3, LongerLine
  <2> QED BY <1>1, <2>1, <2>2, <2>3
<1> QED BY <1>2, SlotsInvariant, PTL

-----------------------------------------------------------------------------
(* The queues do not stall.  A request stands in all its queues at once and *)
(* is admitted by all its gates or by none, so those who wait could block   *)
(* one another although nobody is served.                                   *)

\* Whenever the holders or the queues change and somebody is left waiting, a slot
\* is held, whose release drains the queues again, or a gate is blocked.
NoStall ==
  [][slot' # slot /\ Waiting' # {} =>
       (\E r \in Requests : slot'[r] = "held") \/ (\E g \in Gates : blocked'[g])]_slots

\* No gate is closed by its limit.
LimitsArePositive == \A g \in Gates : limit[g] \in Nat \ {0}

LEMMA LimitsStep ==
  ASSUME LimitsArePositive, [SlotsNext]_slots
  PROVE  LimitsArePositive'
<1>1. CASE UNCHANGED limit
  BY <1>1 DEF LimitsArePositive
<1>2. ASSUME NEW r \in Requests, Refuse(r) PROVE LimitsArePositive'
  BY <1>2, SemaphoreAssumption DEF Refuse, LimitsArePositive
<1>3. ASSUME NEW r \in Requests, Acquire(r) PROVE LimitsArePositive'
  <2>1. PICK n \in Needs, wanted \in [Gates -> Limits] :
          limit' = [g \in Gates |-> IF g \in n THEN wanted[g] ELSE limit[g]]
    BY <1>3 DEF Acquire, Drain
  <2> QED BY <2>1, SemaphoreAssumption DEF LimitsArePositive
<1>4. ASSUME NEW r \in Requests, GiveUp(r) \/ Release(r) PROVE UNCHANGED limit
  BY <1>4 DEF GiveUp, Release, Drain
<1>5. ASSUME NEW g \in Gates, MarkBlocked(g) \/ BlockEnds(g) PROVE UNCHANGED limit
  BY <1>5 DEF MarkBlocked, BlockEnds
<1>6. CASE SlotsLost
  BY <1>6 DEF SlotsLost, LimitsArePositive
<1>7. CASE UNCHANGED slots
  BY <1>1, <1>7 DEF slots
<1> QED BY <1>1, <1>2, <1>3, <1>4, <1>5, <1>6, <1>7 DEF SlotsNext

\* If nobody who waits can be admitted, the first of the line is kept by a block
\* or by a gate that somebody holds.
LEMMA FirstIsHeldUp ==
  ASSUME SlotsInv, LimitsArePositive, Waiting # {}, \A r \in Requests : ~CanAcquire(r)
  PROVE  (\E r \in Requests : slot[r] = "held") \/ (\E g \in Gates : blocked[g])
<1>1. InLine(Waiting, ahead)
  BY PresentLine
<1>2. Waiting \in SUBSET Requests
  BY DEF Waiting
<1>3. PICK r \in Waiting : ahead[r] \cap Waiting = {}
  BY <1>1, <1>2, FirstOfLine
<1>4. \A g \in need[r] : ahead[r] \cap Queue(g) = {}
  BY <1>3 DEF Queue
<1>5. PICK g \in need[r] : blocked[g] \/ ~(running[g] < limit[g])
  BY <1>2, <1>4 DEF CanAcquire
<1>6. g \in Gates /\ running[g] \in Nat /\ limit[g] \in Nat \ {0}
  BY <1>2 DEF SlotsInv, SlotsTypeOK, LimitsArePositive
<1>7. CASE ~blocked[g]
  <2>1. running[g] # 0 /\ running[g] = Cardinality(Holders(g))
    BY <1>5, <1>6, <1>7 DEF SlotsInv, HoldersCounted
  <2>2. Holders(g) # {}
    BY <2>1, FS_EmptySet
  <2> QED BY <2>2 DEF Holders
<1> QED BY <1>6, <1>7

\* Those who wait for several gates never block one another with no slot held and
\* no gate blocked, however they come, give up and release (acquireMany, canAcquire,
\* drainQueues).
THEOREM NoStallHolds == SlotsSpec => NoStall
<1> DEFINE HeldUp == (\E r \in Requests : slot[r] = "held") \/ (\E g \in Gates : blocked[g])
           Stuck == Waiting # {} /\ \A r \in Requests : ~CanAcquire(r)
<1>0. SlotsInv /\ LimitsArePositive /\ Stuck => HeldUp
  BY FirstIsHeldUp
<1>4. SlotsInv' /\ LimitsArePositive' /\ Stuck' => HeldUp'
  BY <1>0, PTL
<1>1. SlotsInv /\ SlotsInv' /\ LimitsArePositive' /\ [SlotsNext]_slots =>
        [slot' # slot /\ Waiting' # {} =>
           (\E r \in Requests : slot'[r] = "held") \/ (\E g \in Gates : blocked'[g])]_slots
  <2> SUFFICES ASSUME SlotsInv, SlotsInv', LimitsArePositive', SlotsNext,
                      slot' # slot, Waiting' # {}
               PROVE  (\E r \in Requests : slot'[r] = "held") \/ (\E g \in Gates : blocked'[g])
    OBVIOUS
  <2> DEFINE Moves == (\E r \in Requests : slot'[r] = "held") \/ (\E g \in Gates : blocked'[g])
  <2>1. CASE \A r \in Requests : ~CanAcquire(r)'
    BY <1>4, <2>1
  <2>2. ASSUME NEW x \in Requests, Refuse(x) PROVE FALSE
    BY <2>2 DEF Refuse
  <2>3. ASSUME NEW x \in Requests, Acquire(x) PROVE Moves
    <3>0. slot[x] = "none" /\ UNCHANGED blocked
      BY <2>3 DEF Acquire
    <3>1. PICK n \in Needs, wanted \in [Gates -> Limits] :
            \/ slot' = [slot EXCEPT ![x] = "held"]
            \/ Drain(Waiting \cup {x}, slot, running,
                     [g \in Gates |-> IF g \in n THEN wanted[g] ELSE limit[g]],
                     [ahead EXCEPT ![x] = Waiting], [need EXCEPT ![x] = n])
      BY <2>3 DEF Acquire
    <3>2. CASE slot' = [slot EXCEPT ![x] = "held"]
      BY <3>2 DEF SlotsInv, SlotsTypeOK
    <3> QED BY <2>1, <3>0, <3>1, <3>2, AcquireLeavesNone
  <2>4. ASSUME NEW x \in Requests, GiveUp(x) PROVE Moves
    BY <2>1, <2>4, GiveUpLeavesNone
  <2>5. ASSUME NEW x \in Requests, Release(x) PROVE Moves
    BY <2>1, <2>5, ReleaseLeavesNone
  <2>6. ASSUME NEW g \in Gates, MarkBlocked(g) \/ BlockEnds(g) PROVE FALSE
    BY <2>6 DEF MarkBlocked, BlockEnds
  <2>7. ~SlotsLost
    BY DEF SlotsLost, Waiting
  <2> QED BY <2>2, <2>3, <2>4, <2>5, <2>6, <2>7 DEF SlotsNext
<1>2. SlotsInit => LimitsArePositive
  BY DEF SlotsInit, LimitsArePositive
<1>3. LimitsArePositive /\ [SlotsNext]_slots => LimitsArePositive'
  BY LimitsStep
<1> QED BY <1>1, <1>2, <1>3, SlotsInvariant, PTL DEF SlotsSpec, NoStall
=============================================================================
