------------------------- MODULE TokenRefreshProofs -------------------------
(***************************************************************************)
(* Theorems about TokenRefresh, for every set of callers and connections,  *)
(* whoever of the callers is guarded or a page, whatever connections they  *)
(* want, and any number of tokens.                                         *)
(***************************************************************************)
EXTENDS TokenRefresh, FiniteSetTheorems, WellFoundedInduction, TLAPS

\* The callers that have the lane, and all that are in it: a page has it while it
\* is in getAccessToken.
HasLane(r) == \/ pc[r] \in {"posted", "answered", "gap"}
              \/ r \in Pages /\ pc[r] \in {"sharing", "checking", "got"}

InLane == {r \in Callers : pc[r] \in {"outer", "lane"} \/ HasLane(r)}

\* The callers in the lane stand in one line, whose last is the tail; who has the
\* lane has nobody ahead, and only a page that takes the lane again, as the first
\* of it, is behind itself.
LaneOrder ==
  /\ \A r \in Callers : ahead[r] \subseteq InLane
  /\ \A r \in Callers : r \notin InLane => ahead[r] = {}
  /\ \A r, q \in InLane : r # q => q \in ahead[r] \/ r \in ahead[q]
  /\ tail = None => InLane = {}
  /\ tail # None => tail \in InLane /\ InLane \ {tail} \subseteq ahead[tail]
  /\ \A r \in Callers : HasLane(r) => ahead[r] = {}
  /\ \A r \in Callers : r \in ahead[r] => r \in Pages /\ pc[r] = "lane"
  /\ \A r \in Pages : pc[r] = "lane" => \A q \in InLane : r \in ahead[q]
  /\ \A r \in Pages : pc[r] \notin {"posted", "answered"}

\* The mutex of a connection belongs to the one caller that refreshes it.
Owning == {"checking", "lane", "posted", "answered", "got"}

Custody ==
  /\ \A r \in Callers : pc[r] # "idle" => conn[r] \in Connections /\ held[r] \in Token
  /\ \A r \in Callers : pc[r] \in Owning => owner[conn[r]] = r
  /\ \A c \in Connections : owner[c] # None => pc[owner[c]] \in Owning /\ conn[owner[c]] = c
  /\ \A r \in Callers : pc[r] \in {"outer", "gap"} => r \in Pages

\* Where the tokens are that a caller, the row and the rotation map know of.
Tokens ==
  /\ \A c \in Connections : row[c] <= live[c] /\ \A k \in remembered[c] : k < live[c]
  /\ \A r \in Callers :
       /\ pc[r] # "idle" => result[r] <= live[conn[r]]
       /\ pc[r] \in {"loaded", "outer", "sharing", "checking", "lane"} => result[r] = 0
       /\ pc[r] \in {"posted", "answered"} /\ result[r] # 0 => result[r] = held[r] + 1
       /\ pc[r] = "got" => result[r] # 0
       /\ pc[r] = "lane" /\ ~excused[conn[r]] => held[r] = row[conn[r]]
       /\ r \in Pages /\ pc[r] = "got" /\ ~excused[conn[r]] => row[conn[r]] = live[conn[r]]

\* The inductive invariant.
IInv == TypeOK /\ LaneOrder /\ Custody /\ Tokens /\ RowIsUsable

LEMMA InitIInv == Init => IInv
BY CallersAssumption
   DEF Init, IInv, TypeOK, LaneOrder, InLane, HasLane, Custody, Owning, Tokens, RowIsUsable, Token, Place

\* The locals of the callers after some of them were answered.
CallersOK ==
  /\ pc \in [Callers -> Place]
  /\ conn \in [Callers -> Connections \cup {None}]
  /\ asked \in [Callers -> Token \cup {0}]
  /\ held \in [Callers -> Token \cup {0}]
  /\ result \in [Callers -> Token \cup {0}]

LEMMA EndedTypes ==
  ASSUME TypeOK, NEW S, NEW P \in SUBSET Callers, NEW r, NEW place \in Place, Ended(S, P, r, place),
         r \in Callers \/ P = {}
  PROVE  CallersOK'
BY DEF TypeOK, Ended, CallersOK, Place

LEMMA LoadKeeps ==
  ASSUME IInv, NEW r \in Callers, NEW c \in Connections, Load(r, c)
  PROVE  IInv'
<1> USE CallersAssumption DEF IInv, provider, database, lane, caller, Load, Goto
<1>1. TypeOK'
  BY DEF TypeOK, Token, Place
<1>2. LaneOrder'
  BY DEF TypeOK, LaneOrder, InLane, HasLane
<1>3. Custody'
  BY DEF TypeOK, Custody, Owning
<1>4. Tokens'
  BY DEF TypeOK, Custody, Owning, Tokens, RowIsUsable, Token
<1>5. RowIsUsable'
  BY DEF TypeOK, Custody, Owning, Tokens, RowIsUsable, Token
<1>6. QED
  BY <1>1, <1>2, <1>3, <1>4, <1>5

LEMMA TimeOutKeeps ==
  ASSUME IInv, NEW r \in Callers, TimeOut(r)
  PROVE  IInv'
<1> USE CallersAssumption DEF IInv, provider, database, lane, caller, TimeOut, Goto, Ended
<1>1. TypeOK'
  BY DEF TypeOK, Token, Place
<1>2. LaneOrder'
  BY DEF TypeOK, LaneOrder, InLane, HasLane
<1>3. Custody'
  BY DEF TypeOK, Custody, Owning
<1>4. Tokens'
  BY DEF TypeOK, Custody, Owning, Tokens, RowIsUsable, Token
<1>5. RowIsUsable'
  BY DEF TypeOK, Custody, Owning, Tokens, RowIsUsable, Token
<1>6. QED
  BY <1>1, <1>2, <1>3, <1>4, <1>5

\* The line, when a caller takes the lane.
LEMMA EntersLine ==
  ASSUME TypeOK, LaneOrder, NEW r \in Callers, Enqueue(r),
         \/ pc[r] = "checking" /\ pc' = [pc EXCEPT ![r] = "lane"]
         \/ pc[r] = "loaded" /\ pc' = [pc EXCEPT ![r] = "outer"]
  PROVE  LaneOrder'
<1> USE CallersAssumption
<1>1. /\ InLane' = InLane \cup {r}
      /\ \A q \in Callers : q # r => pc'[q] = pc[q] /\ ahead'[q] = ahead[q] /\ (HasLane(q)' <=> HasLane(q))
      /\ ~HasLane(r)'
      /\ tail' = r
  <2>1. \A q \in Callers : q # r => pc'[q] = pc[q] /\ ahead'[q] = ahead[q]
    BY DEF TypeOK, Enqueue
  <2>2. pc'[r] \in {"lane", "outer"} /\ tail' = r
    BY DEF TypeOK, Enqueue
  <2>3. \A q \in Callers : q # r => (HasLane(q)' <=> HasLane(q))
    BY <2>1 DEF HasLane
  <2> QED BY <2>1, <2>2, <2>3 DEF InLane, HasLane
<1>2. ahead'[r] \subseteq InLane /\ InLane \ {r} \subseteq ahead'[r] /\ (r \in InLane => r \in ahead'[r])
  <2>1. CASE tail = None
    <3>1. ahead'[r] = {} /\ InLane = {}
      BY <2>1 DEF TypeOK, LaneOrder, Enqueue
    <3> QED BY <3>1
  <2>2. CASE tail # None
    <3>1. ahead'[r] = ahead[tail] \cup {tail} /\ tail \in InLane
      BY <2>2 DEF TypeOK, LaneOrder, Enqueue
    <3>2. ahead[tail] \subseteq InLane /\ InLane \subseteq ahead'[r]
      BY <2>2, <3>1 DEF LaneOrder, InLane
    <3> QED BY <3>1, <3>2
  <2> QED BY <2>1, <2>2
<1>3. r \in InLane => r \in Pages /\ pc'[r] = "lane" /\ ahead[r] = {} /\ \A q \in InLane : q # r => r \in ahead[q]
  <2> SUFFICES ASSUME r \in InLane
               PROVE  r \in Pages /\ pc'[r] = "lane" /\ ahead[r] = {} /\ \A q \in InLane : q # r => r \in ahead[q]
    OBVIOUS
  <2>1. HasLane(r) /\ r \in Pages
    BY DEF InLane, HasLane
  <2>2. ahead[r] = {}
    BY <2>1 DEF LaneOrder
  <2>3. \A q \in InLane : q # r => r \in ahead[q]
    BY <2>2 DEF LaneOrder
  <2>4. pc'[r] = "lane"
    BY <2>1 DEF TypeOK, HasLane
  <2> QED BY <2>1, <2>2, <2>3, <2>4
<1>5. \A q \in Callers : ahead'[q] \subseteq InLane'
  BY <1>1, <1>2 DEF LaneOrder
<1>6. \A q \in Callers : q \notin InLane' => ahead'[q] = {}
  BY <1>1 DEF LaneOrder
<1>7. \A p, q \in InLane' : p # q => q \in ahead'[p] \/ p \in ahead'[q]
  BY <1>1, <1>2 DEF LaneOrder, InLane
<1>8. \A q \in Callers : HasLane(q)' => ahead'[q] = {}
  BY <1>1 DEF LaneOrder
<1>9. \A q \in Callers : q \in ahead'[q] => q \in Pages /\ pc'[q] = "lane"
  <2>1. r \in ahead'[r] => r \in InLane
    BY <1>2
  <2> QED BY <1>1, <1>3, <2>1 DEF LaneOrder
<1>10. ASSUME NEW p \in Pages, pc'[p] = "lane", NEW q \in InLane' PROVE p \in ahead'[q]
  <2>1. CASE p = r
    <3>1. r \in InLane
      BY <1>10, <2>1 DEF TypeOK, InLane, HasLane, IInv
    <3> QED BY <1>1, <1>2, <1>3, <1>10, <2>1, <3>1 DEF InLane
  <2>2. CASE p # r
    <3>1. pc[p] = "lane" /\ p \in InLane
      BY <1>1, <1>10, <2>2 DEF InLane
    <3> QED BY <1>1, <1>2, <1>10, <2>2, <3>1 DEF LaneOrder, InLane
  <2> QED BY <2>1, <2>2
<1>11. \A p \in Pages : pc'[p] \notin {"posted", "answered"}
  BY <1>1 DEF TypeOK, LaneOrder
<1>12. tail' # None /\ tail' \in InLane' /\ InLane' \ {tail'} \subseteq ahead'[tail']
  BY <1>1, <1>2
<1> QED BY <1>5, <1>6, <1>7, <1>8, <1>9, <1>10, <1>11, <1>12 DEF LaneOrder

LEMMA EnqueuePageKeeps ==
  ASSUME IInv, NEW r \in Callers, EnqueuePage(r)
  PROVE  IInv'
<1> USE CallersAssumption DEF IInv, provider, database, caller, EnqueuePage, Goto
<1>1. TypeOK'
  <2>1. tail' \in Callers \cup {None} /\ ahead' \in [Callers -> SUBSET Callers]
    BY DEF TypeOK, Enqueue
  <2>2. pc' \in [Callers -> Place]
    BY DEF TypeOK, Place
  <2> QED BY <2>1, <2>2 DEF TypeOK
<1>2. LaneOrder'
  BY EntersLine DEF InLane, HasLane
<1>3. Custody'
  BY DEF TypeOK, Custody, Owning
<1>4. Tokens'
  BY DEF TypeOK, Custody, Owning, Tokens, RowIsUsable, Token
<1>5. RowIsUsable'
  BY DEF TypeOK, Custody, Owning, Tokens, RowIsUsable, Token
<1>6. QED
  BY <1>1, <1>2, <1>3, <1>4, <1>5

LEMMA BeginKeeps ==
  ASSUME IInv, NEW r \in Callers, Begin(r)
  PROVE  IInv'
<1> USE CallersAssumption DEF IInv, provider, database, lane, caller, Begin, Goto
<1>1. TypeOK'
  <2>1. conn[r] \in Connections /\ held[r] \in Token
    BY DEF TypeOK, Custody
  <2>2. held[r] \in remembered[conn[r]] => held[r] + 1 \in Token
    BY <2>1 DEF TypeOK, Tokens, Token
  <2>3. result' \in [Callers -> Token \cup {0}]
    BY <2>1, <2>2 DEF TypeOK
  <2>4. pc' \in [Callers -> Place] /\ owner' \in [Connections -> Callers \cup {None}]
    BY <2>1 DEF TypeOK, Place
  <2>5. QED
    BY <2>3, <2>4 DEF TypeOK
<1>2. LaneOrder'
  BY DEF TypeOK, LaneOrder, InLane, HasLane
<1>3. Custody'
  BY DEF TypeOK, Custody, Owning
<1>4. Tokens'
  BY DEF TypeOK, Custody, Owning, Tokens, RowIsUsable, Token
<1>5. RowIsUsable'
  BY DEF TypeOK, Custody, Owning, Tokens, RowIsUsable, Token
<1>6. QED
  BY <1>1, <1>2, <1>3, <1>4, <1>5

LEMMA CheckRowKeeps ==
  ASSUME IInv, NEW r \in Callers, CheckRow(r)
  PROVE  IInv'
<1> USE CallersAssumption DEF IInv, provider, database, lane, caller, CheckRow, Goto, Excuse
<1>1. TypeOK'
  <2>1. conn[r] \in Connections
    BY DEF TypeOK, Custody
  <2>2. pc' \in [Callers -> Place] /\ held' \in [Callers -> Token \cup {0}]
    BY <2>1 DEF TypeOK, Place
  <2>3. result' \in [Callers -> Token \cup {0}]
    BY <2>1 DEF TypeOK
  <2>4. tail' \in Callers \cup {None} /\ ahead' \in [Callers -> SUBSET Callers]
    BY DEF TypeOK, Enqueue
  <2>5. excused' \in [Connections -> BOOLEAN]
    BY <2>1 DEF TypeOK
  <2>6. QED
    BY <2>2, <2>3, <2>4, <2>5 DEF TypeOK
<1>2. LaneOrder'
  <2>1. CASE Enqueue(r) /\ pc' = [pc EXCEPT ![r] = "lane"]
    BY <2>1, EntersLine
  <2>2. CASE UNCHANGED lane /\ pc' = [pc EXCEPT ![r] = "got"]
    <3>1. InLane' = InLane /\ \A q \in Callers : HasLane(q)' <=> HasLane(q)
      BY <2>2 DEF TypeOK, InLane, HasLane
    <3>2. \A q \in Callers : q # r => pc'[q] = pc[q]
      BY <2>2 DEF TypeOK
    <3>3. pc'[r] = "got"
      BY <2>2 DEF TypeOK
    <3> QED BY <2>2, <3>1, <3>2, <3>3 DEF LaneOrder
  <2> QED BY <2>1, <2>2
<1>3. Custody'
  BY DEF TypeOK, Custody, Owning
<1>4. Tokens'
  <2>1. conn[r] \in Connections
    BY DEF Custody
  <2>2. \A c \in Connections : excused[c] => excused'[c]
    BY <2>1 DEF TypeOK
  <2>3. pc'[r] = "lane" /\ ~excused'[conn[r]] => held'[r] = row[conn[r]]
    BY <2>1 DEF TypeOK
  <2>4. pc'[r] = "lane" => result'[r] = 0
    BY DEF TypeOK, Tokens
  <2>5. pc'[r] = "got" => result'[r] = row[conn[r]] /\ result'[r] # 0
    BY <2>1 DEF TypeOK, Token
  <2>6. pc'[r] \in {"lane", "got"}
    BY DEF TypeOK
  <2>7. \A q \in Callers : q # r =>
          pc'[q] = pc[q] /\ held'[q] = held[q] /\ result'[q] = result[q]
    BY DEF TypeOK
  <2>8. \A q \in Callers : pc[q] # "idle" => conn[q] \in Connections
    BY DEF Custody
  <2>9. live[conn[r]] \in Nat /\ 0 <= live[conn[r]] /\ row[conn[r]] <= live[conn[r]]
    BY <2>1 DEF TypeOK, Token, Tokens
  <2>10. pc'[r] = "got" /\ ~excused'[conn[r]] => row[conn[r]] = live[conn[r]]
    <3>1. owner[conn[r]] = r /\ pc[r] = "checking"
      BY DEF Custody, Owning
    <3> QED BY <2>1, <2>2, <3>1 DEF RowIsUsable
  <2>11. UNCHANGED <<row, live, remembered, conn>>
    OBVIOUS
  <2> HIDE DEF CheckRow
  <2>12. QED
    BY <2>1, <2>2, <2>3, <2>4, <2>5, <2>6, <2>7, <2>8, <2>9, <2>10, <2>11 DEF TypeOK, Tokens
<1>5. RowIsUsable'
  BY DEF TypeOK, Custody, Owning, Tokens, RowIsUsable, Token
<1>6. QED
  BY <1>1, <1>2, <1>3, <1>4, <1>5

LEMMA PostKeeps ==
  ASSUME IInv, NEW r \in Callers, Post(r)
  PROVE  IInv'
<1> USE CallersAssumption DEF IInv, provider, database, lane, caller, Post, Goto
<1>1. TypeOK'
  <2>1. conn[r] \in Connections
    BY DEF TypeOK, Custody
  <2>2. live[conn[r]] < MaxToken => live[conn[r]] + 1 \in Token
    BY <2>1 DEF TypeOK, Token
  <2>3. live' \in [Connections -> Token]
    <3>1. live' = live \/ (live[conn[r]] < MaxToken /\ live' = [live EXCEPT ![conn[r]] = @ + 1])
      OBVIOUS
    <3>2. live \in [Connections -> Token]
      BY DEF TypeOK
    <3>3. QED
      BY <2>1, <2>2, <3>1, <3>2
  <2>4. result' \in [Callers -> Token \cup {0}] /\ revoked' \in [Connections -> BOOLEAN]
    <3>1. \/ result' = result
          \/ live[conn[r]] < MaxToken /\ result' = [result EXCEPT ![r] = live[conn[r]] + 1]
      OBVIOUS
    <3>2. revoked' = revoked \/ revoked' = [revoked EXCEPT ![conn[r]] = TRUE]
      OBVIOUS
    <3>3. result \in [Callers -> Token \cup {0}] /\ revoked \in [Connections -> BOOLEAN]
      BY DEF TypeOK
    <3>4. QED
      BY <2>1, <2>2, <3>1, <3>2, <3>3
  <2>5. pc' \in [Callers -> Place]
    BY DEF TypeOK, Place
  <2>6. QED
    BY <2>3, <2>4, <2>5 DEF TypeOK
<1>2. LaneOrder'
  BY DEF TypeOK, LaneOrder, InLane, HasLane
<1>3. Custody'
  BY DEF TypeOK, Custody, Owning
<1>4. Tokens'
  BY DEF TypeOK, Custody, Owning, Tokens, RowIsUsable, Token
<1>5. RowIsUsable'
  BY DEF TypeOK, Custody, Owning, Tokens, RowIsUsable, Token
<1>6. QED
  BY <1>1, <1>2, <1>3, <1>4, <1>5

LEMMA PostFailsKeeps ==
  ASSUME IInv, NEW r \in Callers, PostFails(r)
  PROVE  IInv'
<1> USE CallersAssumption DEF IInv, provider, database, lane, caller, PostFails, Goto
<1>1. TypeOK'
  BY DEF TypeOK, Token, Place
<1>2. LaneOrder'
  BY DEF TypeOK, LaneOrder, InLane, HasLane
<1>3. Custody'
  BY DEF TypeOK, Custody, Owning
<1>4. Tokens'
  BY DEF TypeOK, Custody, Owning, Tokens, RowIsUsable, Token
<1>5. RowIsUsable'
  BY DEF TypeOK, Custody, Owning, Tokens, RowIsUsable, Token
<1>6. QED
  BY <1>1, <1>2, <1>3, <1>4, <1>5

LEMMA AnswerKeeps ==
  ASSUME IInv, NEW r \in Callers, Answer(r)
  PROVE  IInv'
<1> USE CallersAssumption DEF IInv, provider, database, lane, caller, Answer, Goto
<1>1. TypeOK'
  BY DEF TypeOK, Token, Place
<1>2. LaneOrder'
  BY DEF TypeOK, LaneOrder, InLane, HasLane
<1>3. Custody'
  BY DEF TypeOK, Custody, Owning
<1>4. Tokens'
  BY DEF TypeOK, Custody, Owning, Tokens, RowIsUsable, Token
<1>5. RowIsUsable'
  BY DEF TypeOK, Custody, Owning, Tokens, RowIsUsable, Token
<1>6. QED
  BY <1>1, <1>2, <1>3, <1>4, <1>5

LEMMA AnswerLostKeeps ==
  ASSUME IInv, NEW r \in Callers, AnswerLost(r)
  PROVE  IInv'
<1> USE CallersAssumption DEF IInv, provider, database, lane, caller, AnswerLost, Goto, Excuse
<1>1. TypeOK'
  BY DEF TypeOK, Token, Place
<1>2. LaneOrder'
  BY DEF TypeOK, LaneOrder, InLane, HasLane
<1>3. Custody'
  BY DEF TypeOK, Custody, Owning
<1>4. Tokens'
  BY DEF TypeOK, Custody, Owning, Tokens, RowIsUsable, Token
<1>5. RowIsUsable'
  <2>1. conn[r] \in Connections
    BY DEF Custody
  <2>2. \A c \in Connections : ~excused'[c] => ~excused[c]
    BY <2>1 DEF TypeOK
  <2>3. result[r] = 0 \/ excused'[conn[r]]
    BY <2>1 DEF TypeOK
  <2>4. \A c \in Connections : live[c] # 0
    BY DEF TypeOK, Token
  <2>5. \A q \in Callers : q # r => pc'[q] = pc[q] /\ result'[q] = result[q]
    BY DEF TypeOK
  <2>6. QED
    BY <2>1, <2>2, <2>3, <2>4, <2>5 DEF TypeOK, RowIsUsable
<1>6. QED
  BY <1>1, <1>2, <1>3, <1>4, <1>5

\* Nothing but the answer changes for a caller when the promise of r is settled.
Same(q) == pc'[q] = pc[q] /\ conn'[q] = conn[q] /\ held'[q] = held[q] /\ result'[q] = result[q]

GotIt(q, r) == /\ q \in Pages /\ pc[q] = "sharing" /\ pc'[q] = "gap" /\ conn[q] = conn[r]
               /\ conn'[q] = conn[q] /\ held'[q] = held[q] /\ result'[q] = result[r]

Dispersed(r) == \A q \in Callers \ {r} : \/ Same(q)
                                         \/ q \notin Pages /\ pc[q] = "sharing" /\ pc'[q] = "idle"
                                         \/ GotIt(q, r)

LEMMA SettledMoves ==
  ASSUME TypeOK, NEW r \in Callers, NEW place \in {"idle", "gap"},
         Settled(r, place), pc[r] # "sharing"
  PROVE  /\ CallersOK'
         /\ Dispersed(r)
         /\ pc'[r] = place
         /\ place = "gap" => conn'[r] = conn[r] /\ held'[r] = held[r] /\ result'[r] = result[r]
<1> DEFINE S == (Sharers(r) \ Pages) \cup (IF place = "idle" THEN {r} ELSE {})
           P == Sharers(r) \cap Pages
<1>1. Ended(S, P, r, place)
  BY DEF Settled
<1>2. /\ S \in SUBSET Callers /\ P \in SUBSET Callers /\ r \notin P
      /\ place = "gap" => r \notin S
      /\ \A q \in S \ {r} : q \notin Pages /\ pc[q] = "sharing" /\ q \notin P
      /\ \A q \in P : q \in Pages /\ pc[q] = "sharing" /\ conn[q] = conn[r] /\ q \notin S
  BY DEF Sharers
<1> HIDE DEF S, P
<1>3. CallersOK'
  BY <1>1, <1>2, EndedTypes DEF Place
<1>4. \A q \in Callers \ {r} : \/ q \in S /\ pc'[q] = "idle"
                               \/ q \in P /\ pc'[q] = "gap" /\ conn'[q] = conn[q]
                                    /\ held'[q] = held[q] /\ result'[q] = result[r]
                               \/ Same(q)
  <2> SUFFICES ASSUME NEW q \in Callers \ {r}
               PROVE  \/ q \in S /\ pc'[q] = "idle"
                      \/ q \in P /\ pc'[q] = "gap" /\ conn'[q] = conn[q]
                           /\ held'[q] = held[q] /\ result'[q] = result[r]
                      \/ Same(q)
    OBVIOUS
  <2>1. CASE q \in P
    BY <1>1, <1>2, <2>1 DEF Ended
  <2>2. CASE q \in S
    BY <1>1, <1>2, <2>2 DEF Ended
  <2>3. CASE q \notin S \cup P
    BY <1>1, <2>3 DEF Ended, Same
  <2> QED BY <2>1, <2>2, <2>3
<1>5. Dispersed(r)
  BY <1>2, <1>4 DEF Dispersed, GotIt
<1>6. /\ pc'[r] = place
      /\ place = "gap" => conn'[r] = conn[r] /\ held'[r] = held[r] /\ result'[r] = result[r]
  BY <1>1, <1>2 DEF Ended
<1> QED BY <1>3, <1>5, <1>6

\* The line, when somebody outside it is answered, or a page that has it is, and
\* when the one that has it leaves.
LEMMA StaysInLine ==
  ASSUME TypeOK, LaneOrder, NEW r \in Callers, UNCHANGED <<tail, ahead>>, Dispersed(r), pc[r] = "got",
         \/ r \notin Pages /\ pc'[r] = "idle"
         \/ r \in Pages /\ pc'[r] = "gap"
  PROVE  LaneOrder'
<1>1. \A q \in Callers : \/ pc'[q] = pc[q]
                         \/ ~HasLane(q) /\ q \notin InLane /\ pc'[q] = "idle"
                         \/ HasLane(q) /\ pc'[q] = "gap"
  BY DEF Dispersed, Same, GotIt, InLane, HasLane
<1>2. \A q \in Callers : (HasLane(q)' <=> HasLane(q)) /\ (q \in InLane' <=> q \in InLane)
  BY <1>1 DEF InLane, HasLane
<1>3. InLane' = InLane
  BY <1>2 DEF InLane
<1>4. \A p \in Pages : p \in Callers /\ (pc'[p] = "lane" => pc[p] = "lane")
  BY <1>1, CallersAssumption
<1>5. \A p \in Pages : pc'[p] \notin {"posted", "answered"}
  BY <1>1, <1>4 DEF LaneOrder
<1>6. \A q \in Callers : q \in ahead[q] => pc'[q] = "lane"
  BY <1>1 DEF LaneOrder, InLane, HasLane
<1> QED BY <1>2, <1>3, <1>4, <1>5, <1>6 DEF LaneOrder

LEMMA LeavesLine ==
  ASSUME TypeOK, LaneOrder, NEW r \in Callers, HasLane(r), Dispersed(r),
         pc'[r] = "idle" \/ (pc'[r] = "got" /\ r \notin Pages),
         ahead' = [q \in Callers |-> ahead[q] \ {r}],
         tail' = IF tail = r THEN None ELSE tail
  PROVE  LaneOrder'
<1>1. \A q \in Callers \ {r} : \/ pc'[q] = pc[q]
                               \/ ~HasLane(q) /\ q \notin InLane /\ pc'[q] = "idle"
                               \/ HasLane(q) /\ pc'[q] = "gap"
  BY DEF Dispersed, Same, GotIt, InLane, HasLane
<1>2. r \in InLane /\ ahead[r] = {} /\ r \notin InLane' /\ ~HasLane(r)'
  BY DEF InLane, HasLane, LaneOrder
<1>3. \A q \in Callers \ {r} : (HasLane(q)' <=> HasLane(q)) /\ (q \in InLane' <=> q \in InLane)
  BY <1>1 DEF InLane, HasLane
<1>4. InLane' = InLane \ {r}
  BY <1>2, <1>3 DEF InLane
<1>5. \A q \in Callers : ahead'[q] = ahead[q] \ {r}
  OBVIOUS
<1>6. /\ \A q \in Callers : ahead'[q] \subseteq InLane'
      /\ \A q \in Callers : q \notin InLane' => ahead'[q] = {}
      /\ \A q \in Callers : HasLane(q)' => ahead'[q] = {}
      /\ \A q \in Callers : q \in ahead'[q] => q \in Pages /\ pc'[q] = "lane"
  BY <1>1, <1>2, <1>3, <1>4, <1>5 DEF LaneOrder, InLane, HasLane
<1>7. \A p, q \in InLane' : p # q => q \in ahead'[p] \/ p \in ahead'[q]
  BY <1>4, <1>5 DEF LaneOrder, InLane
<1>8. \A p \in Pages : pc'[p] = "lane" => \A q \in InLane' : p \in ahead'[q]
  <2>1. \A p \in Pages : pc'[p] = "lane" => p # r /\ pc[p] = "lane"
    BY <1>1, CallersAssumption
  <2> QED BY <1>2, <2>1, <1>4, <1>5 DEF LaneOrder
<1>9. \A p \in Pages : pc'[p] \notin {"posted", "answered"}
  BY <1>1, CallersAssumption DEF LaneOrder
<1>10. /\ tail' = None => InLane' = {}
       /\ tail' # None => tail' \in InLane' /\ InLane' \ {tail'} \subseteq ahead'[tail']
  <2>1. CASE tail = r
    <3>1. InLane \subseteq {r}
      BY <1>2, <2>1, CallersAssumption DEF LaneOrder
    <3> QED BY <1>4, <2>1, <3>1
  <2>2. CASE tail # r
    <3>1. tail' = tail /\ tail # None => tail \in InLane
      BY <2>2 DEF LaneOrder
    <3>2. tail # None => InLane \ {tail} \subseteq ahead[tail] /\ tail \in Callers
      BY DEF LaneOrder, InLane
    <3>3. tail = None => InLane = {}
      BY DEF LaneOrder
    <3> QED BY <1>2, <1>4, <1>5, <2>2, <3>1, <3>2, <3>3 DEF LaneOrder
  <2> QED BY <2>1, <2>2
<1> QED BY <1>6, <1>7, <1>8, <1>9, <1>10 DEF LaneOrder

LEMMA LeaveLaneKeeps ==
  ASSUME IInv, NEW r \in Callers, LeaveLane(r)
  PROVE  IInv'
<1> USE DEF provider, database, caller
<1>1. /\ TypeOK /\ LaneOrder /\ Custody /\ Tokens /\ RowIsUsable /\ pc[r] = "answered"
      /\ ahead' = [q \in Callers |-> ahead[q] \ {r}]
      /\ tail' = IF tail = r THEN None ELSE tail
      /\ UNCHANGED <<live, revoked, row, fresh, excused>>
  BY DEF IInv, LeaveLane
<1>2. /\ conn[r] \in Connections /\ held[r] \in Token /\ owner[conn[r]] = r
      /\ live[conn[r]] \in Token /\ HasLane(r) /\ r \notin Pages
  BY <1>1 DEF Custody, Owning, TypeOK, HasLane, LaneOrder
<1>3. CASE /\ result[r] # 0
           /\ remembered' = [remembered EXCEPT ![conn[r]] = @ \cup {held[r]}]
           /\ pc' = [pc EXCEPT ![r] = "got"]
           /\ UNCHANGED <<owner, conn, asked, held, result>>
  <2>1. pc' \in [Callers -> Place] /\ pc'[r] = "got" /\ Dispersed(r)
    <3>1. pc' \in [Callers -> Place] /\ pc'[r] = "got"
      BY <1>1, <1>3 DEF TypeOK, Place
    <3>2. \A q \in Callers \ {r} : pc'[q] = pc[q]
      BY <1>1, <1>3 DEF TypeOK
    <3>3. QED
      BY <1>3, <3>1, <3>2 DEF Dispersed, Same
  <2>2. held[r] < live[conn[r]]
    BY <1>1, <1>2, <1>3 DEF Tokens, Token
  <2>3. remembered' \in [Connections -> SUBSET Token]
    BY <1>1, <1>2, <1>3 DEF TypeOK
  <2>4. \A c \in Connections : \A k \in remembered'[c] :
          k \in remembered[c] \/ (c = conn[r] /\ k = held[r])
    <3>1. \A c \in Connections : remembered'[c] =
            IF c = conn[r] THEN remembered[c] \cup {held[r]} ELSE remembered[c]
      BY <1>1, <1>3 DEF TypeOK
    <3>2. QED
      BY <3>1
  <2>5. \A q \in Callers : q # r => pc'[q] = pc[q]
    BY <1>1, <1>3 DEF TypeOK
  <2>6. Custody'
    BY <1>1, <1>2, <1>3, <2>1, <2>5 DEF Custody, Owning
  <2>7. Tokens'
    BY <1>1, <1>2, <1>3, <2>1, <2>2, <2>4, <2>5 DEF Tokens
  <2>8. RowIsUsable'
    BY <1>1, <1>2, <1>3, <2>1, <2>5 DEF RowIsUsable
  <2>9. ahead' \in [Callers -> SUBSET Callers] /\ tail' \in Callers \cup {None}
    BY <1>1 DEF TypeOK
  <2>10. TypeOK'
    BY <1>1, <1>3, <2>1, <2>3, <2>9, CallersAssumption DEF TypeOK
  <2> QED
    BY <1>1, <1>2, <2>1, <2>6, <2>7, <2>8, <2>10, LeavesLine DEF IInv
<1>4. CASE result[r] = 0 /\ Settled(r, "idle") /\ UNCHANGED remembered
  <2>1. CallersOK' /\ Dispersed(r) /\ pc'[r] = "idle"
    BY <1>1, <1>4, SettledMoves
  <2>2. owner' = [owner EXCEPT ![conn[r]] = None]
    BY <1>4 DEF Settled
  <2>3. TypeOK'
    BY <1>1, <1>4, <2>1, <2>2, CallersAssumption DEF TypeOK, CallersOK
  <2>4. Custody'
    <3>1. \A q \in Callers \ {r} : Same(q) \/ pc'[q] = "idle" \/ GotIt(q, r)
      BY <2>1 DEF Dispersed
    <3>2. \A q \in Callers \ {r} : pc'[q] \in Owning => Same(q) /\ conn[q] # conn[r]
      BY <1>1, <1>2, <3>1 DEF Same, GotIt, Custody, Owning
    <3>3. \A q \in Callers : pc'[q] # "idle" => conn'[q] \in Connections /\ held'[q] \in Token
      BY <1>1, <2>1, <3>1 DEF Same, GotIt, Custody
    <3>4. \A q \in Callers : pc'[q] \in Owning => owner'[conn'[q]] = q
      BY <1>1, <2>1, <2>2, <3>2, <3>3 DEF Same, Custody, Owning, TypeOK
    <3>5. ASSUME NEW c \in Connections, owner'[c] # None
          PROVE  pc'[owner'[c]] \in Owning /\ conn'[owner'[c]] = c
      <4>1. c # conn[r] /\ owner'[c] = owner[c] /\ owner[c] \in Callers
        BY <1>1, <1>2, <2>2, <3>5 DEF TypeOK
      <4>2. pc[owner[c]] \in Owning /\ conn[owner[c]] = c /\ owner[c] # r
        BY <1>1, <3>5, <4>1 DEF Custody
      <4>3. Same(owner[c])
        BY <2>1, <4>1, <4>2 DEF Dispersed, GotIt, Owning
      <4> QED BY <4>1, <4>2, <4>3 DEF Same
    <3>6. \A q \in Callers : pc'[q] \in {"outer", "gap"} => q \in Pages
      BY <1>1, <2>1, <3>1 DEF Same, GotIt, Custody
    <3> QED BY <3>3, <3>4, <3>5, <3>6 DEF Custody
  <2>5. Tokens'
    BY <1>1, <1>4, <2>1 DEF Tokens, Dispersed, Same, GotIt
  <2>6. RowIsUsable'
    <3>1. \A c \in Connections : live[c] # 0
      BY <1>1 DEF TypeOK, Token
    <3>2. \A q \in Callers : q # r /\ pc[q] \in {"posted", "answered", "got"} => Same(q)
      BY <2>1 DEF Dispersed, GotIt
    <3>3. \A c \in Connections : c # conn[r] => owner'[c] = owner[c]
      BY <1>1, <2>2 DEF TypeOK
    <3>4. QED
      BY <1>1, <1>2, <1>4, <3>1, <3>2, <3>3 DEF RowIsUsable, Same
  <2>7. QED
    BY <1>1, <1>2, <2>1, <2>3, <2>4, <2>5, <2>6, LeavesLine DEF IInv
<1>5. QED
  BY <1>3, <1>4 DEF LeaveLane, Goto

\* The row after the result of r was written, or not.
LEMMA WriteMoves ==
  ASSUME TypeOK, NEW r \in Callers, conn[r] \in Connections, result[r] \in Token,
         Written(r) \/ (UNCHANGED database /\ \E b \in BOOLEAN : Excuse(conn[r], b))
  PROVE  /\ row' \in [Connections -> Token] /\ fresh' \in [Connections -> BOOLEAN]
         /\ excused' \in [Connections -> BOOLEAN]
         /\ \A d \in Connections : d # conn[r] => row'[d] = row[d]
         /\ \A d \in Connections : excused[d] => excused'[d]
         /\ row'[conn[r]] = row[conn[r]] \/ row'[conn[r]] = result[r]
         /\ row'[conn[r]] < row[conn[r]] => excused'[conn[r]]
<1> USE DEF Excuse, TypeOK, database
<1>1. CASE Written(r)
  <2>1. row'[conn[r]] = result[r] /\ (excused'[conn[r]] <=> excused[conn[r]] \/ result[r] < row[conn[r]])
    BY <1>1 DEF Written
  <2> QED BY <1>1, <2>1 DEF Written
<1>2. CASE UNCHANGED database /\ \E b \in BOOLEAN : Excuse(conn[r], b)
  <2>1. row[conn[r]] \in Nat
    BY DEF Token
  <2> QED BY <1>2, <2>1
<1> QED BY <1>1, <1>2

\* What the end of a mutex closure keeps, whoever then writes the result.
LEMMA ClosureKeeps ==
  ASSUME IInv, NEW r \in Callers, NEW place \in {"idle", "gap"}, pc[r] = "got",
         Settled(r, place), (place = "gap") <=> (r \in Pages),
         UNCHANGED <<provider, remembered, lane>>,
         \/ Written(r)
         \/ UNCHANGED database /\ Excuse(conn[r], result[r] # row[conn[r]])
         \/ r \in Pages /\ UNCHANGED <<database, excused>>
  PROVE  IInv'
<1> DEFINE c == conn[r]
<1>1. /\ TypeOK /\ LaneOrder /\ Custody /\ Tokens /\ RowIsUsable
      /\ UNCHANGED <<live, revoked, remembered, tail, ahead>>
  BY DEF IInv, provider, lane
<1>2. /\ c \in Connections /\ owner[c] = r /\ live[c] \in Token /\ row[c] \in Token
      /\ result[r] \in Token /\ result[r] <= live[c] /\ row[c] <= live[c]
  BY <1>1 DEF Custody, Owning, TypeOK, Tokens, Token
<1>3. /\ CallersOK' /\ Dispersed(r) /\ pc'[r] = place
      /\ place = "gap" => conn'[r] = c /\ held'[r] = held[r] /\ result'[r] = result[r]
  BY <1>1, SettledMoves
<1>4. owner' = [owner EXCEPT ![c] = None]
  BY DEF Settled
<1>5. Written(r) \/ (UNCHANGED database /\ \E b \in BOOLEAN : Excuse(c, b))
  <2>1. CASE UNCHANGED <<database, excused>>
    <3>1. Excuse(c, FALSE)
      BY <1>1, <1>2, <2>1 DEF Excuse, TypeOK
    <3> QED BY <2>1, <3>1
  <2> QED BY <2>1
<1>6. /\ row' \in [Connections -> Token] /\ fresh' \in [Connections -> BOOLEAN]
      /\ excused' \in [Connections -> BOOLEAN]
      /\ \A d \in Connections : d # c => row'[d] = row[d]
      /\ \A d \in Connections : excused[d] => excused'[d]
      /\ row'[c] = row[c] \/ row'[c] = result[r]
  BY <1>1, <1>2, <1>5, WriteMoves
<1>7. ~excused'[c] => row'[c] = live[c] /\ ~revoked[c]
  <2> SUFFICES ASSUME ~excused'[c] PROVE row'[c] = live[c] /\ ~revoked[c]
    OBVIOUS
  <2>1. ~excused[c]
    BY <1>2, <1>6
  <2>2. ~revoked[c] /\ (row[c] = live[c] \/ result[r] = live[c])
    BY <1>1, <1>2, <2>1 DEF RowIsUsable
  <2>3. CASE Written(r)
    <3>1. row'[c] = result[r] /\ (excused'[c] <=> excused[c] \/ result[r] < row[c])
      BY <1>1, <1>2, <2>3 DEF Written, Excuse, TypeOK
    <3> QED BY <1>2, <2>2, <3>1 DEF Token
  <2>4. CASE UNCHANGED database /\ Excuse(c, result[r] # row[c])
    <3>1. row'[c] = row[c] /\ (excused'[c] <=> excused[c] \/ result[r] # row[c])
      BY <1>1, <1>2, <2>4 DEF Excuse, TypeOK, database
    <3> QED BY <1>2, <2>2, <3>1
  <2>5. CASE r \in Pages /\ UNCHANGED <<database, excused>>
    BY <1>1, <2>1, <2>2, <2>5 DEF Tokens, database
  <2> QED BY <2>3, <2>4, <2>5
<1>8. place \in {"idle", "gap"} /\ (place = "gap" <=> r \in Pages) /\ pc[r] = "got"
  OBVIOUS
<1> HIDE DEF c
<1>9. TypeOK'
  BY <1>1, <1>2, <1>3, <1>4, <1>6, CallersAssumption DEF TypeOK, CallersOK
<1>10. LaneOrder'
  BY <1>1, <1>3, <1>8, StaysInLine
<1>11. Custody'
  BY <1>1, <1>2, <1>3, <1>4, <1>8, CallersAssumption DEF TypeOK, Custody, Owning, Dispersed, Same, GotIt, c
<1>12. Tokens'
  <2>1. \A d \in Connections : row'[d] <= live[d]
    BY <1>1, <1>2, <1>6 DEF Tokens
  <2>2. \A q \in Callers \ {r} : pc[q] \in Owning => conn[q] \in Connections /\ conn[q] # c
    BY <1>1, <1>2 DEF Custody, Owning
  <2>3. \A q \in Callers \ {r} : pc'[q] = "idle" \/ Same(q) \/ GotIt(q, r)
    BY <1>3 DEF Dispersed
  <2>4. result[r] # 0
    BY <1>2 DEF Token
  <2>5. /\ pc'[r] # "idle" => result'[r] <= live'[conn'[r]]
        /\ pc'[r] \in {"idle", "gap"}
    BY <1>1, <1>2, <1>3, <1>8 DEF c
  <2>6. \A q \in Callers \ {r} : GotIt(q, r) => pc'[q] = "gap" /\ result'[q] <= live'[conn'[q]]
    BY <1>1, <1>2 DEF GotIt, c
  <2>7. ASSUME NEW q \in Callers \ {r}, Same(q)
        PROVE  /\ pc'[q] # "idle" => result'[q] <= live'[conn'[q]]
               /\ pc'[q] \in {"loaded", "outer", "sharing", "checking", "lane"} => result'[q] = 0
               /\ pc'[q] \in {"posted", "answered"} /\ result'[q] # 0 => result'[q] = held'[q] + 1
               /\ pc'[q] = "got" => result'[q] # 0
               /\ pc'[q] = "lane" /\ ~excused'[conn'[q]] => held'[q] = row'[conn'[q]]
               /\ q \in Pages /\ pc'[q] = "got" /\ ~excused'[conn'[q]] => row'[conn'[q]] = live'[conn'[q]]
    BY <1>1, <1>6, <2>2, <2>7 DEF Tokens, Same, Owning
  <2> QED
    BY <1>1, <2>1, <2>3, <2>5, <2>6, <2>7 DEF Tokens
<1>13. RowIsUsable'
  <2>1. \A q \in Callers : q # r /\ pc[q] \in {"posted", "answered", "got"} => Same(q)
    BY <1>3 DEF Dispersed, GotIt
  <2>2. \A d \in Connections : d # c => owner'[d] = owner[d]
    BY <1>1, <1>4 DEF TypeOK
  <2>3. ASSUME NEW d \in Connections, ~excused'[d], d # c
        PROVE  /\ ~revoked[d]
               /\ \/ row'[d] = live[d]
                  \/ \E q \in Callers :
                       /\ owner'[d] = q /\ conn'[q] = d /\ result'[q] = live[d]
                       /\ pc'[q] \in {"posted", "answered", "got"}
    BY <1>1, <1>6, <2>1, <2>2, <2>3 DEF RowIsUsable, Same, c
  <2> QED
    BY <1>1, <1>7, <2>3 DEF RowIsUsable
<1> QED
  BY <1>9, <1>10, <1>11, <1>12, <1>13 DEF IInv

LEMMA PersistKeeps ==
  ASSUME IInv, NEW r \in Callers, Persist(r)
  PROVE  IInv'
<1>1. /\ pc[r] = "got" /\ r \notin Pages /\ Settled(r, "idle")
      /\ UNCHANGED <<provider, remembered, lane>>
      /\ Written(r) \/ (UNCHANGED database /\ Excuse(conn[r], result[r] # row[conn[r]]))
  BY DEF Persist
<1> QED BY <1>1, ClosureKeeps

LEMMA RewriteKeeps ==
  ASSUME IInv, NEW r \in Callers, Rewrite(r)
  PROVE  IInv'
<1>1. /\ pc[r] = "got" /\ r \notin Pages /\ Settled(r, "idle")
      /\ UNCHANGED <<provider, remembered, lane>>
      /\ Written(r) \/ (UNCHANGED database /\ Excuse(conn[r], result[r] # row[conn[r]]))
  BY CallersAssumption DEF Rewrite, Skips
<1> QED BY <1>1, ClosureKeeps

LEMMA PersistNothingKeeps ==
  ASSUME IInv, NEW r \in Callers, PersistNothing(r)
  PROVE  IInv'
<1>1. /\ pc[r] = "got" /\ r \in Pages /\ Settled(r, "gap")
      /\ UNCHANGED <<provider, remembered, lane>>
      /\ Written(r) \/ UNCHANGED <<database, excused>>
  BY DEF PersistNothing
<1> QED BY <1>1, ClosureKeeps

\* A page writes after the mutex was given back; unless that sets the row back,
\* the row had its token already, or the owner of the mutex brings a later one.
LEMMA EndPageKeeps ==
  ASSUME IInv, NEW r \in Callers, EndPage(r)
  PROVE  IInv'
<1> DEFINE c == conn[r]
<1>1. /\ TypeOK /\ LaneOrder /\ Custody /\ Tokens /\ RowIsUsable /\ pc[r] = "gap"
      /\ UNCHANGED <<live, revoked, remembered, owner>>
      /\ ahead' = [q \in Callers |-> ahead[q] \ {r}]
      /\ tail' = IF tail = r THEN None ELSE tail
      /\ Ended({r}, {}, r, "idle")
  BY DEF IInv, EndPage, provider
<1>2. /\ c \in Connections /\ live[c] \in Token /\ row[c] \in Token /\ HasLane(r)
      /\ result[r] <= live[c] /\ row[c] <= live[c] /\ result[r] \in Token \cup {0}
  BY <1>1 DEF Custody, TypeOK, Tokens, HasLane
<1>3. CallersOK' /\ pc'[r] = "idle" /\ \A q \in Callers \ {r} : Same(q)
  <2>1. CallersOK'
    BY <1>1, EndedTypes DEF Place
  <2> QED BY <1>1, <2>1 DEF Ended, Same
<1>4. Dispersed(r)
  BY <1>3 DEF Dispersed
<1>5. /\ row' \in [Connections -> Token] /\ fresh' \in [Connections -> BOOLEAN]
      /\ excused' \in [Connections -> BOOLEAN]
      /\ \A d \in Connections : d # c => row'[d] = row[d]
      /\ \A d \in Connections : excused[d] => excused'[d]
      /\ row'[c] = row[c] \/ row'[c] = result[r]
      /\ row'[c] < row[c] => excused'[c]
  <2>1. CASE UNCHANGED <<database, excused>>
    BY <1>1, <1>2, <2>1 DEF database, TypeOK, Token
  <2>2. CASE result[r] # 0 /\ Written(r)
    <3>1. result[r] \in Token
      BY <1>2, <2>2
    <3> QED BY <1>1, <1>2, <2>2, <3>1, WriteMoves
  <2> QED BY <2>1, <2>2 DEF EndPage
<1> HIDE DEF c
<1>6. row'[c] <= live[c] /\ (~excused'[c] => row[c] <= row'[c])
  BY <1>2, <1>5 DEF Token
<1>7. TypeOK'
  <2>1. ahead' \in [Callers -> SUBSET Callers] /\ tail' \in Callers \cup {None}
    BY <1>1 DEF TypeOK
  <2> QED BY <1>1, <1>3, <1>5, <2>1 DEF TypeOK, CallersOK
<1>8. LaneOrder'
  BY <1>1, <1>2, <1>3, <1>4, LeavesLine
<1>9. Custody'
  BY <1>1, <1>3, CallersAssumption DEF TypeOK, Custody, Owning, Same
<1>10. \A d \in Connections : ~excused'[d] /\ row[d] = live[d] => row'[d] = row[d]
  BY <1>1, <1>2, <1>5, <1>6 DEF Token
<1>11. Tokens'
  <2>1. \A d \in Connections : row'[d] <= live[d]
    BY <1>1, <1>2, <1>5, <1>6 DEF Tokens
  <2>2. \A q \in Callers : pc[q] = "lane" /\ ~excused[conn[q]] => row[conn[q]] = live[conn[q]]
    BY <1>1 DEF Custody, Owning, RowIsUsable
  <2>3. \A q \in Callers : pc[q] # "idle" => conn[q] \in Connections
    BY <1>1 DEF Custody
  <2> QED
    BY <1>1, <1>3, <1>5, <1>10, <2>1, <2>2, <2>3 DEF Tokens, Same
<1>12. RowIsUsable'
  <2>1. \A q \in Callers : pc[q] \in {"posted", "answered", "got"} => Same(q)
    BY <1>1, <1>3
  <2> QED
    BY <1>1, <1>5, <1>10, <2>1 DEF RowIsUsable, Same
<1> QED
  BY <1>7, <1>8, <1>9, <1>11, <1>12 DEF IInv

LEMMA ForgetKeeps ==
  ASSUME IInv, NEW c \in Connections, Forget(c)
  PROVE  IInv'
BY CallersAssumption
   DEF IInv, TypeOK, LaneOrder, InLane, HasLane, Custody, Owning, Tokens, RowIsUsable, Token,
       Forget, provider, database, lane, caller

LEMMA ExpireKeeps ==
  ASSUME IInv, NEW c \in Connections, Expire(c)
  PROVE  IInv'
BY CallersAssumption
   DEF IInv, TypeOK, LaneOrder, InLane, HasLane, Custody, Owning, Tokens, RowIsUsable, Token,
       Expire, provider, database, lane, caller

LEMMA CrashKeeps ==
  ASSUME IInv, Crash
  PROVE  IInv'
<1>1. /\ TypeOK /\ Tokens /\ RowIsUsable
      /\ owner' = [c \in Connections |-> None]
      /\ remembered' = [c \in Connections |-> {}]
      /\ tail' = None
      /\ ahead' = [r \in Callers |-> {}]
      /\ excused' = [c \in Connections |-> excused[c] \/ row[c] # live[c]]
      /\ UNCHANGED <<live, revoked, row, fresh>>
  BY DEF IInv, Crash, provider, database
<1>2. \A r \in Callers : pc'[r] = "idle"
  BY CallersAssumption DEF Crash, Ended
<1>3. CallersOK'
  BY <1>1, EndedTypes DEF Crash, Place
<1>4. TypeOK'
  BY <1>1, <1>3 DEF TypeOK, CallersOK
<1>5. LaneOrder' /\ Custody'
  BY <1>1, <1>2, CallersAssumption DEF LaneOrder, InLane, HasLane, Custody, Owning
<1>6. Tokens'
  BY <1>1, <1>2 DEF Tokens
<1>7. RowIsUsable'
  BY <1>1 DEF RowIsUsable
<1>8. QED
  BY <1>4, <1>5, <1>6, <1>7 DEF IInv

LEMMA NextKeeps == IInv /\ [Next]_vars => IInv'
<1> SUFFICES ASSUME IInv, [Next]_vars PROVE IInv'
  OBVIOUS
<1>1. ASSUME NEW r \in Callers, NEW c \in Uses[r], Load(r, c) PROVE IInv'
  <2>1. c \in Connections
    BY CallersAssumption
  <2> QED BY <1>1, <2>1, LoadKeeps
<1>2. ASSUME NEW r \in Callers, Begin(r) \/ EnqueuePage(r) \/ TimeOut(r) PROVE IInv'
  BY <1>2, BeginKeeps, EnqueuePageKeeps, TimeOutKeeps
<1>3. ASSUME NEW r \in Callers, Refresh(r) PROVE IInv'
  BY <1>3, BeginKeeps, CheckRowKeeps, PostKeeps, PostFailsKeeps, AnswerKeeps, AnswerLostKeeps,
     LeaveLaneKeeps, PersistKeeps, RewriteKeeps, PersistNothingKeeps, EndPageKeeps DEF Refresh
<1>4. ASSUME NEW c \in Connections, Forget(c) \/ Expire(c) PROVE IInv'
  BY <1>4, ForgetKeeps, ExpireKeeps
<1>5. CASE Crash
  BY <1>5, CrashKeeps
<1>6. CASE UNCHANGED vars
  BY <1>6 DEF vars, provider, database, lane, caller, IInv, TypeOK, LaneOrder, InLane, HasLane,
     Custody, Tokens, RowIsUsable
<1>7. QED
  BY <1>1, <1>2, <1>3, <1>4, <1>5, <1>6 DEF Next

LEMMA IInvHolds == Spec => []IInv
BY InitIInv, NextKeeps, PTL DEF Spec

\* The variables keep their types (TypeOK), as long as the service runs.
THEOREM TypeCorrect == Spec => []TypeOK
<1>1. IInv => TypeOK
  BY DEF IInv
<1>2. QED
  BY <1>1, IInvHolds, PTL

\* One refresh at a time is on the network, over all the connections of the group:
\* of two callers in the lane, one has the other ahead, and who was sent off has
\* nobody ahead.
THEOREM OneInFlightHolds == Spec => []OneInFlight
<1>1. IInv => OneInFlight
  BY DEF IInv, LaneOrder, InLane, HasLane, OneInFlight
<1>2. QED
  BY <1>1, IInvHolds, PTL

\* However old the credentials of a caller, no used token is presented: while a
\* caller owns the mutex of a connection nobody else writes its row, so the token
\* taken over from the row is the last one (Custody, Tokens).
THEOREM RowIsUsableHolds == Spec => []RowIsUsable
<1>1. IInv => RowIsUsable
  BY DEF IInv
<1>2. QED
  BY <1>1, IInvHolds, PTL

-----------------------------------------------------------------------------
(* Who waits for whom: a sharer for the owner of the mutex, an owner in the *)
(* lane and a page for those ahead of it, on its connection or on another   *)
(* one, and for whoever a page shares a refresh with that has the lane.     *)

\* The next step of q is not held up by anybody (the guards of CheckRow,
\* PostFails, Answer, LeaveLane, Persist, Rewrite, Begin, PersistNothing, EndPage).
CanGoOn(q) == \/ pc[q] \in {"checking", "posted", "answered", "got", "gap"}
              \/ pc[q] \in {"lane", "outer"} /\ ahead[q] = {}

\* Whose refresh r waits for: its own, or the one it shares.
Serving(r) == IF pc[r] = "sharing" THEN owner[conn[r]] ELSE r

\* Whoever wants a refresh can go on, or somebody can that he waits for; unless a
\* page waits behind itself.
NobodyStuck ==
  \A r \in Callers : pc[r] \notin {"idle", "loaded"} =>
    \/ Jammed
    \/ \E f \in {Serving(r)} \cup ahead[Serving(r)] : CanGoOn(Serving(f))

PageInLane == \E p \in Pages : pc[p] = "lane"

\* The line has a first, and whoever is ahead of somebody ahead is ahead.
LineHasFirst ==
  /\ \A r \in Callers : IsFiniteSet(ahead[r])
  /\ ~PageInLane => \A r \in Callers : \A q \in ahead[r] : ahead[q] \subseteq ahead[r]

\* Nobody shares a refresh that is not there.
SharedIsOwned == \A r \in Callers : pc[r] = "sharing" => owner[conn[r]] # None

LEMMA EnqueueLine ==
  ASSUME IInv, LineHasFirst, NEW r \in Callers, Enqueue(r),
         \/ pc[r] = "checking" /\ pc' = [pc EXCEPT ![r] = "lane"]
         \/ pc[r] = "loaded" /\ pc' = [pc EXCEPT ![r] = "outer"]
  PROVE  LineHasFirst'
<1>1. ahead' = [ahead EXCEPT ![r] = IF tail = None THEN {} ELSE ahead[tail] \cup {tail}]
  BY DEF Enqueue
<1>2. tail # None => tail \in Callers
  BY DEF IInv, TypeOK
<1>3. \A q \in Callers \ {r} : ahead'[q] = ahead[q]
  BY <1>1 DEF IInv, TypeOK
<1>4. ahead'[r] = IF tail = None THEN {} ELSE ahead[tail] \cup {tail}
  BY <1>1 DEF IInv, TypeOK
<1>5. \A q \in Callers : IsFiniteSet(ahead'[q])
  <2>1. \A q \in Callers : IsFiniteSet(ahead[q])
    BY DEF LineHasFirst
  <2>2. IsFiniteSet(ahead'[r])
    <3>1. CASE tail = None
      BY <1>4, <3>1, FS_EmptySet
    <3>2. CASE tail # None
      <4>1. IsFiniteSet(ahead[tail]) /\ ahead'[r] = ahead[tail] \cup {tail}
        BY <1>2, <1>4, <2>1, <3>2
      <4> QED BY <4>1, FS_AddElement
    <3> QED BY <3>1, <3>2
  <2> QED BY <1>3, <2>1, <2>2
<1>6. ASSUME ~PageInLane'
      PROVE  \A q \in Callers : \A f \in ahead'[q] : ahead'[f] \subseteq ahead'[q]
  <2>1. r \notin InLane
    <3>1. pc'[r] = "lane" => r \notin Pages
      BY <1>6 DEF PageInLane
    <3> QED BY <3>1 DEF IInv, TypeOK, InLane, HasLane
  <2>2. ~PageInLane
    <3>1. \A p \in Pages : pc[p] = "lane" => p # r /\ pc'[p] = "lane"
      BY CallersAssumption DEF IInv, TypeOK
    <3> QED BY <1>6, <3>1 DEF PageInLane
  <2>3. \A q \in Callers : ahead[q] \subseteq InLane /\ r \notin ahead[q]
    BY <2>1 DEF IInv, LaneOrder
  <2>4. tail # None => tail \in InLane /\ tail # r
    BY <2>1 DEF IInv, LaneOrder
  <2>5. \A q \in InLane : q \in Callers /\ q # r
    BY <2>1 DEF InLane
  <2>6. \A q \in Callers : \A f \in ahead[q] : ahead[f] \subseteq ahead[q]
    BY <2>2 DEF LineHasFirst
  <2>7. \A q \in Callers \ {r} : \A f \in ahead'[q] : ahead'[f] \subseteq ahead'[q]
    BY <1>3, <2>3, <2>5, <2>6
  <2>8. \A f \in ahead'[r] : f \in InLane /\ ahead[f] \subseteq ahead'[r]
    BY <1>2, <1>4, <2>3, <2>4, <2>6
  <2> QED BY <1>3, <2>5, <2>7, <2>8
<1> QED BY <1>5, <1>6 DEF LineHasFirst

LEMMA LeaveLine ==
  ASSUME IInv, LineHasFirst, NEW r \in Callers, ahead' = [q \in Callers |-> ahead[q] \ {r}],
         PageInLane => PageInLane'
  PROVE  LineHasFirst'
<1>1. \A q \in Callers : ahead'[q] = ahead[q] \ {r} /\ ahead[q] \subseteq Callers
  BY DEF IInv, TypeOK
<1>2. \A q \in Callers : IsFiniteSet(ahead'[q])
  BY <1>1, FS_Subset DEF LineHasFirst
<1> QED BY <1>1, <1>2 DEF LineHasFirst

\* Nothing but the end of the process takes a page out of a lane it is behind
\* itself in.
LEMMA PageStaysInLane ==
  ASSUME IInv, PageInLane, [Next]_vars
  PROVE  Crash \/ PageInLane'
<1> USE DEF IInv, TypeOK
<1>1. PICK p \in Pages : pc[p] = "lane"
  BY DEF PageInLane
<1>2. p \in Callers /\ ahead[p] # {} /\ p \notin Guarded
  <2>1. p \in Callers /\ p \in InLane /\ p \notin Guarded
    BY <1>1, CallersAssumption DEF InLane
  <2> QED BY <1>1, <2>1 DEF LaneOrder
<1>3. SUFFICES Crash \/ pc'[p] = "lane"
  BY DEF PageInLane
<1> USE <1>1, <1>2 DEF Goto
<1>4. ASSUME NEW r \in Callers, NEW place \in {"idle", "gap"}, Settled(r, place), pc[r] # "lane"
      PROVE  pc'[p] = "lane"
  BY <1>4 DEF Settled, Ended, Sharers
<1>5. ASSUME NEW r \in Callers, NEW c \in Uses[r], Load(r, c) PROVE pc'[p] = "lane"
  BY <1>5 DEF Load
<1>6. ASSUME NEW r \in Callers, Begin(r) PROVE pc'[p] = "lane"
  <2>1. pc[r] # "lane"
    BY <1>6 DEF Begin
  <2> QED BY <1>6, <2>1 DEF Begin
<1>7. ASSUME NEW r \in Callers, EnqueuePage(r) \/ TimeOut(r) PROVE pc'[p] = "lane"
  BY <1>7 DEF EnqueuePage, TimeOut, Ended
<1>8. ASSUME NEW r \in Callers, CheckRow(r) \/ Post(r) \/ PostFails(r) \/ Answer(r) \/ AnswerLost(r)
      PROVE  pc'[p] = "lane"
  BY <1>8 DEF CheckRow, Post, PostFails, Answer, AnswerLost
<1>9. ASSUME NEW r \in Callers, LeaveLane(r) PROVE pc'[p] = "lane"
  BY <1>4, <1>9 DEF LeaveLane
<1>10. ASSUME NEW r \in Callers, Persist(r) \/ Rewrite(r) \/ PersistNothing(r) PROVE pc'[p] = "lane"
  BY <1>4, <1>10 DEF Persist, Rewrite, PersistNothing
<1>11. ASSUME NEW r \in Callers, EndPage(r) PROVE pc'[p] = "lane"
  BY <1>11 DEF EndPage, Ended
<1>12. ASSUME NEW c \in Connections, Forget(c) \/ Expire(c) PROVE pc'[p] = "lane"
  BY <1>12 DEF Forget, Expire, caller
<1>13. CASE UNCHANGED vars
  BY <1>13 DEF vars, caller
<1> QED BY <1>5, <1>6, <1>7, <1>8, <1>9, <1>10, <1>11, <1>12, <1>13 DEF Next, Refresh

LEMMA LineStep ==
  ASSUME IInv, LineHasFirst, [Next]_vars
  PROVE  LineHasFirst'
<1>1. CASE Crash
  <2>1. \A r \in Callers : ahead'[r] = {}
    BY <1>1 DEF Crash
  <2> QED BY <2>1, FS_EmptySet DEF LineHasFirst
<1> SUFFICES ASSUME ~Crash PROVE LineHasFirst'
  BY <1>1
<1>2. PageInLane => PageInLane'
  BY PageStaysInLane
<1>3. CASE UNCHANGED ahead
  BY <1>2, <1>3 DEF LineHasFirst
<1>4. ASSUME NEW r \in Callers, CheckRow(r) PROVE LineHasFirst'
  <2>1. pc[r] = "checking" /\ (UNCHANGED lane \/ (Enqueue(r) /\ pc' = [pc EXCEPT ![r] = "lane"]))
    BY <1>4 DEF CheckRow, Goto
  <2> QED BY <1>3, <2>1, EnqueueLine DEF lane
<1>5. ASSUME NEW r \in Callers, EnqueuePage(r) PROVE LineHasFirst'
  BY <1>5, EnqueueLine DEF EnqueuePage, Goto
<1>6. ASSUME NEW r \in Callers, LeaveLane(r) \/ EndPage(r) PROVE LineHasFirst'
  BY <1>2, <1>6, LeaveLine DEF LeaveLane, EndPage
<1>7. ASSUME NEW r \in Callers,
             \/ Begin(r) \/ Post(r) \/ PostFails(r) \/ Answer(r) \/ AnswerLost(r) \/ Persist(r)
             \/ Rewrite(r) \/ PersistNothing(r) \/ TimeOut(r)
      PROVE  UNCHANGED ahead
  BY <1>7 DEF Begin, Post, PostFails, Answer, AnswerLost, Persist, Rewrite, PersistNothing, TimeOut, lane
<1>8. ASSUME NEW r \in Callers, NEW c \in Uses[r], Load(r, c) PROVE UNCHANGED ahead
  BY <1>8 DEF Load, lane
<1>9. ASSUME NEW c \in Connections, Forget(c) \/ Expire(c) PROVE UNCHANGED ahead
  BY <1>9 DEF Forget, Expire, lane
<1>10. CASE UNCHANGED vars
  BY <1>3, <1>10 DEF vars, lane
<1> QED BY <1>3, <1>4, <1>5, <1>6, <1>7, <1>8, <1>9, <1>10 DEF Next, Refresh

LEMMA SharersStep ==
  ASSUME IInv, SharedIsOwned, [Next]_vars
  PROVE  SharedIsOwned'
<1> USE CallersAssumption DEF IInv, TypeOK, SharedIsOwned, Place
<1>1. ASSUME NEW r \in Callers, NEW c \in Uses[r], Load(r, c) PROVE SharedIsOwned'
  BY <1>1 DEF Load, Goto
<1>2. ASSUME NEW r \in Callers, Begin(r) PROVE SharedIsOwned'
  <2>1. conn[r] \in Connections
    BY <1>2 DEF Begin, Custody
  <2>2. \A q \in Callers : pc[q] = "sharing" => conn[q] \in Connections
    BY DEF Custody
  <2>3. conn' = conn /\ r # None
    BY <1>2 DEF Begin
  <2>4. CASE owner[conn[r]] # None /\ UNCHANGED owner
    <3>1. \A q \in Callers : pc'[q] = "sharing" => q = r \/ pc[q] = "sharing"
      BY <1>2 DEF Begin, Goto
    <3> QED BY <2>3, <2>4, <3>1
  <2>5. CASE owner' = [owner EXCEPT ![conn[r]] = r] /\ pc'[r] \in {"got", "checking"}
    <3>1. \A q \in Callers : pc'[q] = "sharing" => pc[q] = "sharing"
      BY <1>2, <2>5 DEF Begin, Goto
    <3>2. \A c \in Connections : owner[c] # None => owner'[c] # None
      BY <2>1, <2>3, <2>5
    <3> QED BY <2>2, <2>3, <3>1, <3>2
  <2>6. (owner[conn[r]] # None /\ UNCHANGED owner)
          \/ (owner' = [owner EXCEPT ![conn[r]] = r] /\ pc'[r] \in {"got", "checking"})
    BY <1>2 DEF Begin, Goto
  <2> QED BY <2>4, <2>5, <2>6
<1>3. ASSUME NEW r \in Callers, CheckRow(r) \/ EnqueuePage(r) PROVE SharedIsOwned'
  BY <1>3 DEF CheckRow, EnqueuePage, Goto, Enqueue
<1>4. ASSUME NEW r \in Callers, Post(r) \/ PostFails(r) \/ Answer(r) \/ AnswerLost(r) \/ TimeOut(r)
      PROVE  SharedIsOwned'
  BY <1>4 DEF Post, PostFails, Answer, AnswerLost, TimeOut, Ended, Goto
<1>5. ASSUME NEW r \in Callers, NEW place \in {"idle", "gap"}, Settled(r, place), pc[r] # "sharing",
             conn[r] \in Connections
      PROVE  SharedIsOwned'
  <2>1. Dispersed(r) /\ pc'[r] = place
    BY <1>5, SettledMoves
  <2>2. \A q \in Callers : pc'[q] = "sharing" => q # r /\ pc[q] = "sharing" /\ conn'[q] = conn[q]
    BY <2>1 DEF Dispersed, Same, GotIt
  <2>3. \A q \in Callers : pc'[q] = "sharing" => conn[q] # conn[r] /\ conn[q] \in Connections
    <3>1. ASSUME NEW q \in Callers, pc'[q] = "sharing", conn[q] = conn[r] PROVE FALSE
      BY <1>5, <2>2, <3>1 DEF Settled, Ended, Sharers
    <3> QED BY <2>2, <3>1 DEF Custody
  <2>4. owner' = [owner EXCEPT ![conn[r]] = None]
    BY <1>5 DEF Settled
  <2> QED BY <2>2, <2>3, <2>4
<1>6. ASSUME NEW r \in Callers, LeaveLane(r) PROVE SharedIsOwned'
  <2>1. pc[r] = "answered" /\ conn[r] \in Connections
    BY <1>6 DEF LeaveLane, Custody
  <2> QED BY <1>5, <1>6, <2>1 DEF LeaveLane, Goto
<1>7. ASSUME NEW r \in Callers, Persist(r) \/ Rewrite(r) \/ PersistNothing(r) PROVE SharedIsOwned'
  <2>1. pc[r] = "got" /\ conn[r] \in Connections /\ (Settled(r, "idle") \/ Settled(r, "gap"))
    BY <1>7 DEF Persist, Rewrite, PersistNothing, Custody
  <2> QED BY <1>5, <2>1
<1>8. ASSUME NEW r \in Callers, EndPage(r) PROVE SharedIsOwned'
  BY <1>8 DEF EndPage, Ended
<1>9. ASSUME NEW c \in Connections, Forget(c) \/ Expire(c) PROVE SharedIsOwned'
  BY <1>9 DEF Forget, Expire, caller
<1>10. CASE Crash
  BY <1>10 DEF Crash, Ended
<1>11. CASE UNCHANGED vars
  BY <1>11 DEF vars, caller
<1> QED BY <1>1, <1>2, <1>3, <1>4, <1>6, <1>7, <1>8, <1>9, <1>10, <1>11 DEF Next, Refresh

\* Whoever is in the lane is first in it, or somebody ahead of him is.
LEMMA SomebodyIsFirst ==
  ASSUME IInv, LineHasFirst, ~PageInLane, NEW r \in InLane
  PROVE  \E q \in {r} \cup ahead[r] : q \in InLane /\ ahead[q] = {}
<1> DEFINE S == {r} \cup ahead[r]
           F == {ahead[q] : q \in S}
<1>1. r \in Callers /\ S \subseteq InLane /\ S \subseteq Callers
  BY DEF IInv, LaneOrder, InLane
<1>2. IsFiniteSet(ahead[r])
  BY <1>1 DEF LineHasFirst
<1>3. F \in SUBSET (SUBSET ahead[r]) /\ ahead[r] \in F
  BY <1>1 DEF LineHasFirst
<1>4. PICK A \in F : \A B \in F : <<B, A>> \notin StrictSubsetOrdering(ahead[r])
  <2> HIDE DEF F
  <2>1. IsWellFoundedOn(StrictSubsetOrdering(ahead[r]), FiniteSubsetsOf(ahead[r]))
    BY FS_StrictSubsetOrderingWellFounded
  <2>2. FiniteSubsetsOf(ahead[r]) = SUBSET ahead[r]
    BY <1>2, FS_FiniteSubsetsOfFinite
  <2>3. F # {}
    BY <1>3
  <2> QED BY <1>3, <2>1, <2>2, <2>3, WFMin
<1>5. PICK q \in S : A = ahead[q]
  BY <1>4
<1>6. ASSUME NEW p \in ahead[q] PROVE FALSE
  <2>1. p \in S /\ p \in Callers
    BY <1>1, <1>5, <1>6 DEF LineHasFirst
  <2>2. ahead[p] \subseteq ahead[q] /\ p \notin ahead[p]
    BY <1>1, <1>6, <2>1 DEF LineHasFirst, IInv, LaneOrder, PageInLane
  <2>3. ahead[p] \in F /\ ahead[p] \subseteq ahead[r] /\ ahead[q] \subseteq ahead[r]
    BY <1>3, <2>1
  <2> QED BY <1>4, <1>5, <1>6, <2>2, <2>3 DEF StrictSubsetOrdering
<1> QED BY <1>1, <1>5, <1>6

\* No failure, lost answer or crash leaves a caller behind a lane or a mutex that
\* nobody will give back: at any time somebody a caller waits for can take a step,
\* whichever connections share the lane; nobody can only while a page waits behind
\* itself (getAccessToken, serializeRefresh, credentialRefresh.ts).
THEOREM NobodyStuckHolds == Spec => []NobodyStuck
<1>1. Init => LineHasFirst /\ SharedIsOwned
  BY FS_EmptySet DEF Init, LineHasFirst, SharedIsOwned
<1>2. IInv /\ LineHasFirst /\ [Next]_vars => LineHasFirst'
  BY LineStep
<1>3. IInv /\ SharedIsOwned /\ [Next]_vars => SharedIsOwned'
  BY SharersStep
<1>4. IInv /\ LineHasFirst /\ SharedIsOwned => NobodyStuck
  <2> SUFFICES ASSUME IInv, LineHasFirst, SharedIsOwned, ~Jammed,
                      NEW r \in Callers, pc[r] \notin {"idle", "loaded"}
               PROVE  \E f \in {Serving(r)} \cup ahead[Serving(r)] : CanGoOn(Serving(f))
    BY DEF NobodyStuck
  <2>1. ~PageInLane
    BY DEF PageInLane, Jammed
  <2>2. \A q \in Callers : pc[q] = "sharing" =>
          owner[conn[q]] \in Callers /\ pc[owner[conn[q]]] \in Owning
    BY DEF SharedIsOwned, IInv, Custody, TypeOK
  <2> DEFINE o == Serving(r)
  <2>3. o \in Callers /\ pc[o] \in Owning \cup {"outer", "gap"}
    BY <2>2 DEF Serving, IInv, TypeOK, Place, Owning
  <2> HIDE DEF o
  <2>4. CASE pc[o] \in {"checking", "got", "gap"}
    BY <2>4 DEF CanGoOn, Serving, o
  <2>5. CASE pc[o] \in {"outer", "lane", "posted", "answered"}
    <3>1. o \in InLane
      BY <2>3, <2>5 DEF InLane, HasLane
    <3>2. PICK f \in {o} \cup ahead[o] : f \in InLane /\ ahead[f] = {}
      BY <2>1, <3>1, SomebodyIsFirst
    <3>3. CASE pc[f] # "sharing"
      <4>1. CanGoOn(f) /\ Serving(f) = f
        BY <3>2, <3>3 DEF CanGoOn, InLane, HasLane, Serving
      <4> QED BY <3>2, <4>1 DEF o
    <3>4. CASE pc[f] = "sharing"
      <4>1. f \in Pages /\ f \in Callers /\ Serving(f) = owner[conn[f]]
        BY <3>2, <3>4 DEF InLane, HasLane, Serving
      <4>2. owner[conn[f]] \in Callers /\ pc[owner[conn[f]]] \in Owning
        BY <2>2, <3>4, <4>1
      <4>3. f \notin ahead[owner[conn[f]]] /\ owner[conn[f]] # f
        BY <3>4, <4>1, <4>2 DEF Jammed, Owning
      <4>4. owner[conn[f]] \notin InLane \/ HasLane(owner[conn[f]])
        BY <3>2, <4>3 DEF IInv, LaneOrder
      <4>5. CanGoOn(owner[conn[f]])
        BY <4>2, <4>4 DEF CanGoOn, InLane, HasLane, Owning
      <4> QED BY <3>2, <4>1, <4>5 DEF o
    <3> QED BY <3>3, <3>4
  <2> QED BY <2>3, <2>4, <2>5 DEF Owning
<1> QED BY <1>1, <1>2, <1>3, <1>4, IInvHolds, PTL DEF Spec

-----------------------------------------------------------------------------
(* What a page does that waits behind itself.                              *)

\* The group is not refreshed any more, on any connection, until the process ends.
JamLasts ==
  [][Jammed => Crash \/ (Jammed' /\ \A r \in Callers : pc'[r] \notin {"posted", "answered"})]_vars

\* Whoever has a page behind itself in its lane has not got the lane.
LEMMA NobodyPosts ==
  ASSUME IInv, Jammed
  PROVE  \A r \in Callers : pc[r] \notin {"posted", "answered"}
<1> SUFFICES ASSUME NEW r \in Callers, pc[r] \in {"posted", "answered"} PROVE FALSE
  OBVIOUS
<1>1. r \in InLane /\ ahead[r] = {} /\ r \notin Pages
  BY DEF IInv, LaneOrder, InLane, HasLane
<1>2. PICK p \in Pages : \/ pc[p] = "lane"
                         \/ pc[p] = "sharing" /\ p \in ahead[owner[conn[p]]]
  BY DEF Jammed
<1>3. CASE pc[p] = "lane"
  BY <1>1, <1>2, <1>3 DEF IInv, LaneOrder
<1>4. CASE pc[p] = "sharing"
  <2>1. p \in Callers /\ HasLane(p) /\ p \in InLane
    BY <1>2, <1>4, CallersAssumption DEF InLane, HasLane
  <2>2. ahead[p] = {} /\ p # r
    BY <1>1, <1>2, <2>1 DEF IInv, LaneOrder
  <2> QED BY <1>1, <2>1, <2>2 DEF IInv, LaneOrder
<1> QED BY <1>2, <1>3, <1>4

\* Who is in the lane behind a page that shares his refresh does not come to it.
LEMMA SharedJamStays ==
  ASSUME IInv, SharedIsOwned, [Next]_vars, ~Crash,
         NEW p \in Pages, pc[p] = "sharing", p \in ahead[owner[conn[p]]]
  PROVE  Jammed'
<1> DEFINE o == owner[conn[p]]
<1>1. /\ p \in Callers /\ p \notin Guarded /\ o \in Callers /\ conn[p] \in Connections
      /\ pc[o] = "lane" /\ conn[o] = conn[p]
  <2>1. p \in Callers /\ p \notin Guarded /\ conn[p] \in Connections
    BY CallersAssumption DEF IInv, Custody
  <2>2. o \in Callers /\ pc[o] \in Owning /\ conn[o] = conn[p]
    BY <2>1 DEF SharedIsOwned, IInv, Custody, TypeOK
  <2>3. o \in InLane /\ ~HasLane(o)
    BY <2>2 DEF IInv, LaneOrder
  <2> QED BY <2>1, <2>2, <2>3 DEF InLane, HasLane, Owning
<1>2. ahead[o] # {}
  OBVIOUS
<1> HIDE DEF o
<1>3. SUFFICES pc'[p] = "sharing" /\ conn'[p] = conn[p] /\ owner'[conn[p]] = o /\ p \in ahead'[o]
  BY DEF Jammed
<1> USE <1>1, <1>2 DEF IInv, TypeOK, Goto, o
<1> DEFINE Stays == pc'[p] = "sharing" /\ conn'[p] = conn[p] /\ owner'[conn[p]] = o /\ p \in ahead'[o]
<1> HIDE DEF Stays
<1>4. ASSUME NEW r \in Callers, NEW place \in {"idle", "gap"}, Settled(r, place), pc[r] \in {"answered", "got"}
      PROVE  pc'[p] = "sharing" /\ conn'[p] = conn[p] /\ owner'[conn[p]] = o
  <2>1. conn[r] # conn[p] /\ conn[r] \in Connections
    BY <1>4 DEF Custody, Owning
  <2>2. p \notin Sharers(r) /\ p # r
    BY <1>4, <2>1 DEF Sharers
  <2> QED BY <1>4, <2>1, <2>2 DEF Settled, Ended
<1>5. ASSUME NEW r \in Callers, NEW c \in Uses[r], Load(r, c) PROVE Stays
  BY <1>5 DEF Load, lane, Stays
<1>6. ASSUME NEW r \in Callers, Begin(r) PROVE Stays
  <2>1. r # p /\ conn[r] \in Connections
    BY <1>6 DEF Begin, Custody
  <2>2. owner'[conn[p]] = o /\ ahead' = ahead /\ conn' = conn
    BY <1>6, <2>1, CallersAssumption DEF Begin, lane
  <2>3. pc'[p] = "sharing"
    BY <1>6, <2>1 DEF Begin
  <2> QED BY <2>2, <2>3 DEF Stays
<1>7. ASSUME NEW r \in Callers, EnqueuePage(r) PROVE Stays
  BY <1>7 DEF EnqueuePage, Enqueue, Stays
<1>8. ASSUME NEW r \in Callers, TimeOut(r) PROVE Stays
  BY <1>8 DEF TimeOut, Ended, lane, Stays
<1>9. ASSUME NEW r \in Callers, CheckRow(r) PROVE Stays
  BY <1>9 DEF CheckRow, Enqueue, lane, Stays
<1>10. ASSUME NEW r \in Callers, Post(r) \/ PostFails(r) \/ Answer(r) \/ AnswerLost(r) PROVE Stays
  BY <1>10 DEF Post, PostFails, Answer, AnswerLost, lane, Stays
<1>11. ASSUME NEW r \in Callers, LeaveLane(r) PROVE Stays
  <2>1. r # p /\ pc[r] = "answered" /\ p \in ahead'[o]
    BY <1>11 DEF LeaveLane
  <2>2. pc'[p] = "sharing" /\ conn'[p] = conn[p] /\ owner'[conn[p]] = o
    BY <1>4, <1>11, <2>1 DEF LeaveLane
  <2> QED BY <2>1, <2>2 DEF Stays
<1>12. ASSUME NEW r \in Callers, Persist(r) \/ Rewrite(r) \/ PersistNothing(r) PROVE Stays
  <2>1. pc[r] = "got" /\ ahead' = ahead /\ (Settled(r, "idle") \/ Settled(r, "gap"))
    BY <1>12 DEF Persist, Rewrite, PersistNothing, lane
  <2> QED BY <1>4, <2>1 DEF Stays
<1>13. ASSUME NEW r \in Callers, EndPage(r) PROVE Stays
  <2>1. r # p /\ p \in ahead'[o] /\ owner' = owner
    BY <1>13 DEF EndPage
  <2>2. pc'[p] = "sharing" /\ conn'[p] = conn[p]
    BY <1>13, <2>1 DEF EndPage, Ended
  <2> QED BY <2>1, <2>2 DEF Stays
<1>14. ASSUME NEW c \in Connections, Forget(c) \/ Expire(c) PROVE Stays
  BY <1>14 DEF Forget, Expire, caller, lane, Stays
<1>15. CASE UNCHANGED vars
  BY <1>15 DEF vars, caller, lane, Stays
<1>16. ASSUME NEW r \in Callers, Refresh(r) PROVE Stays
  BY <1>6, <1>9, <1>10, <1>11, <1>12, <1>13, <1>16 DEF Refresh
<1>17. ASSUME Next PROVE Stays
  BY <1>5, <1>6, <1>7, <1>8, <1>14, <1>16, <1>17 DEF Next
<1>18. Stays
  BY <1>15, <1>17 DEF Stays
<1> QED BY <1>18 DEF Stays

\* Once a page waits behind itself no connection of the group is refreshed before
\* the process ends (refreshAndUpdateCredentialsWithResolver, serializeRefresh).
THEOREM JamLastsHolds == Spec => JamLasts
<1> DEFINE L == Jammed => Crash \/ (Jammed' /\ \A r \in Callers : pc'[r] \notin {"posted", "answered"})
<1>1. IInv /\ IInv' /\ SharedIsOwned /\ [Next]_vars => [L]_vars
  <2> SUFFICES ASSUME IInv, IInv', SharedIsOwned, [Next]_vars, Jammed, ~Crash
               PROVE  Jammed' /\ \A r \in Callers : pc'[r] \notin {"posted", "answered"}
    OBVIOUS
  <2>1. Jammed'
    <3>1. CASE PageInLane
      <4>1. PageInLane'
        BY <3>1, PageStaysInLane
      <4> QED BY <4>1 DEF PageInLane, Jammed
    <3>2. CASE ~PageInLane
      <4>1. PICK p \in Pages : pc[p] = "sharing" /\ p \in ahead[owner[conn[p]]]
        BY <3>2 DEF Jammed, PageInLane
      <4> QED BY <4>1, SharedJamStays
    <3> QED BY <3>1, <3>2
  <2>2. (IInv /\ Jammed => \A r \in Callers : pc[r] \notin {"posted", "answered"})'
    BY NobodyPosts, PTL
  <2> QED BY <2>1, <2>2
<1>2. Init => SharedIsOwned
  BY DEF Init, SharedIsOwned
<1>3. IInv /\ SharedIsOwned /\ [Next]_vars => SharedIsOwned'
  BY SharersStep
<1> HIDE DEF L
<1>4. Spec => [][L]_vars
  BY <1>1, <1>2, <1>3, IInvHolds, PTL DEF Spec
<1> QED BY <1>4 DEF JamLasts, L

-----------------------------------------------------------------------------
(* A refresh goes forward.                                                 *)

\* How far the refresh of a caller is.
Stage(place) == CASE place = "loaded" -> 0 [] place = "outer" -> 1
                  [] place \in {"sharing", "checking"} -> 2
                  [] place = "lane" -> 3 [] place = "posted" -> 4 [] place = "answered" -> 5
                  [] place = "got" -> 6 [] OTHER -> 7

\* Until its end a refresh stays where it is or goes on, and nobody gets ahead of
\* a caller that waits in the lane: not with another connection of the group, nor
\* after a failure.  Only an attempt that timed out begins again.  With NobodyStuck
\* this is what RefreshEnds rests on.
RefreshAdvances ==
  [][\A r \in Callers : pc[r] # "idle" /\ pc'[r] # "idle" =>
       \/ pc'[r] = pc[r] /\ (pc[r] \in {"outer", "lane"} => ahead'[r] \subseteq ahead[r])
       \/ Stage(pc[r]) < Stage(pc'[r])
       \/ TimeOut(r)]_vars

\* Whatever others load, share, lose or persist, a refresh is not taken back nor
\* overtaken in its lane (getAccessToken, serializeRefresh).
THEOREM RefreshAdvancesHolds == Spec => RefreshAdvances
<1> DEFINE Forth(r) == pc[r] # "idle" /\ pc'[r] # "idle" =>
                         \/ pc'[r] = pc[r] /\ (pc[r] \in {"outer", "lane"} => ahead'[r] \subseteq ahead[r])
                         \/ Stage(pc[r]) < Stage(pc'[r])
                         \/ TimeOut(r)
           A == \A r \in Callers : Forth(r)
<1>1. TypeOK /\ [Next]_vars => [A]_vars
  <2> SUFFICES ASSUME TypeOK, [Next]_vars, NEW r \in Callers PROVE Forth(r)
    OBVIOUS
  <2> USE DEF TypeOK, Goto, provider, database, lane, caller
  <2>1. CASE UNCHANGED vars
    BY <2>1 DEF vars
  <2>2. CASE Crash
    BY <2>2 DEF Crash, Ended
  <2>3. ASSUME NEW c \in Connections, Forget(c) \/ Expire(c) PROVE Forth(r)
    BY <2>3 DEF Forget, Expire
  <2>4. ASSUME NEW q \in Callers, NEW c \in Uses[q], Load(q, c) PROVE Forth(r)
    BY <2>4 DEF Load
  <2>5. ASSUME NEW q \in Callers, Begin(q) PROVE Forth(r)
    BY <2>5 DEF Begin, Stage
  <2>6. ASSUME NEW q \in Callers, CheckRow(q) \/ EnqueuePage(q) PROVE Forth(r)
    BY <2>6 DEF CheckRow, EnqueuePage, Enqueue, Stage
  <2>7. ASSUME NEW q \in Callers, Post(q) \/ PostFails(q) \/ Answer(q) \/ AnswerLost(q) PROVE Forth(r)
    BY <2>7 DEF Post, PostFails, Answer, AnswerLost, Stage
  <2>8. ASSUME NEW q \in Callers, NEW place \in {"idle", "gap"}, Settled(q, place),
               pc[q] \in {"answered", "got"}, \A p \in Callers : ahead'[p] \subseteq ahead[p]
        PROVE  Forth(r)
    <3>1. (pc'[r] = pc[r]) \/ pc'[r] = "idle"
            \/ (pc'[r] = "gap" /\ pc[r] \in {"answered", "got", "sharing"})
      BY <2>8 DEF Settled, Ended, Sharers
    <3> QED BY <2>8, <3>1 DEF Stage
  <2>9. ASSUME NEW q \in Callers, LeaveLane(q) PROVE Forth(r)
    <3>1. pc[q] = "answered" /\ \A p \in Callers : ahead'[p] \subseteq ahead[p]
      BY <2>9 DEF LeaveLane
    <3>2. CASE Settled(q, "idle")
      BY <2>8, <3>1, <3>2
    <3>3. CASE pc' = [pc EXCEPT ![q] = "got"]
      BY <3>1, <3>3 DEF Stage
    <3> QED BY <2>9, <3>2, <3>3 DEF LeaveLane
  <2>10. ASSUME NEW q \in Callers, Persist(q) \/ Rewrite(q) \/ PersistNothing(q) PROVE Forth(r)
    <3>1. pc[q] = "got" /\ ahead' = ahead /\ (Settled(q, "idle") \/ Settled(q, "gap"))
      BY <2>10 DEF Persist, Rewrite, PersistNothing
    <3> QED BY <2>8, <3>1
  <2>11. ASSUME NEW q \in Callers, EndPage(q) PROVE Forth(r)
    BY <2>11 DEF EndPage, Ended
  <2>12. ASSUME NEW q \in Callers, TimeOut(q) PROVE Forth(r)
    BY <2>12 DEF TimeOut, Ended
  <2> QED BY <2>1, <2>2, <2>3, <2>4, <2>5, <2>6, <2>7, <2>9, <2>10, <2>11, <2>12 DEF Next, Refresh
<1>2. Spec => []TypeOK
  BY TypeCorrect
<1> HIDE DEF A
<1>3. Spec => [][A]_vars
  BY <1>1, <1>2, PTL DEF Spec
<1> QED BY <1>3 DEF RefreshAdvances, A
=============================================================================
