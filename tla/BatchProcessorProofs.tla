------------------------ MODULE BatchProcessorProofs ------------------------
(***************************************************************************)
(* Theorems about BatchProcessor, for every set of batches, every size of  *)
(* an input file, every concurrency limit and every number of crashes.     *)
(***************************************************************************)
EXTENDS BatchProcessor, FiniteSetTheorems, TLAPS

\* A loop that pauses before a request, or waits for one, is at a line.
AtLine == \A b \in Batches : pc[b] \in {"throttle", "sent"} => pos[b] \in LinesOf(b)

\* The sets that the counts measure are finite, so the counts are numbers.
LEMMA CountsAreNumbers ==
  ASSUME NEW g PROVE /\ Cardinality(Succeeded(g)) \in Nat
                     /\ Cardinality(Failed(g)) \in Nat
<1>1. IsFiniteSet(Line)
  BY FS_Interval, BoundsAssumption DEF Line
<1>2. IsFiniteSet(Succeeded(g)) /\ IsFiniteSet(Failed(g))
  BY <1>1, FS_Subset DEF Succeeded, Failed
<1> QED BY <1>2, FS_CardinalityType

\* Writing one entry of one row of a table keeps the table's type.
LEMMA EntryUpdate ==
  ASSUME NEW X, NEW Y, NEW V, NEW f \in [X -> [Y -> V]], NEW x \in X, NEW y \in Y, NEW v \in V
  PROVE  [f EXCEPT ![x][y] = v] \in [X -> [Y -> V]]
OBVIOUS

\* The effect of an item that is settled on the tables it writes.
LEMMA SettleTypes ==
  ASSUME TypeOK, NEW b \in Batches, NEW outcome \in Outcome, pos[b] \in Line,
         Mark(b, outcome), Settle(b, outcome)
  PROVE  /\ ck' \in [Batches -> [Line -> Checkpoint]]
         /\ got' \in [Batches -> [Line -> Outcome \cup {"none"}]]
         /\ counts' \in [Batches -> [total : Nat, completed : Nat, failed : Nat]]
         /\ pos' \in [Batches -> Nat \ {0}]
         /\ pc' \in [Batches -> {"idle", "next", "throttle", "sent"}]
<1> USE DEF TypeOK
<1>1. outcome \in Checkpoint /\ outcome \in Outcome \cup {"none"}
  BY DEF Checkpoint
<1>2. ck' \in [Batches -> [Line -> Checkpoint]]
  <2>1. [ck EXCEPT ![b][pos[b]] = outcome] \in [Batches -> [Line -> Checkpoint]]
    BY <1>1, EntryUpdate, ZenonT(30)
  <2> QED BY <2>1 DEF Mark
<1>3. got' \in [Batches -> [Line -> Outcome \cup {"none"}]]
  <2>1. [got EXCEPT ![b][pos[b]] = outcome] \in [Batches -> [Line -> Outcome \cup {"none"}]]
    BY <1>1, EntryUpdate, ZenonT(30)
  <2> QED BY <2>1 DEF Settle
<1>4. counts' \in [Batches -> [total : Nat, completed : Nat, failed : Nat]]
  <2>1. CountsOf(counts[b].total, got'[b]) \in [total : Nat, completed : Nat, failed : Nat]
    BY CountsAreNumbers DEF CountsOf
  <2> QED BY <2>1 DEF Settle
<1> QED BY <1>2, <1>3, <1>4 DEF Settle

\* The type invariant is kept by every step.
LEMMA TypeStep == TypeOK /\ AtLine /\ [Next]_vars => TypeOK'
<1> SUFFICES ASSUME TypeOK, AtLine, [Next]_vars PROVE TypeOK'
  OBVIOUS
<1> USE BoundsAssumption
    DEF TypeOK, Status, TERMINAL, Outcome, Checkpoint, LinesOf, Line, NoFiles, NoCounts, Nothing,
        rows, process, history
<1>0. \A b \in Batches : pc[b] \in {"throttle", "sent"} => pos[b] \in Line
  BY DEF AtLine
<1>1. CASE Poll
  <2>1. PICK S \in SUBSET Batches, late \in SUBSET Waiting :
          /\ Admitted(S)
          /\ status' = [b \in Batches |->
               IF b \in S THEN IF input[b] = "good" THEN "in_progress" ELSE "failed"
               ELSE IF b \in late THEN "expired"
               ELSE IF status[b] = "cancelling" THEN "cancelled"
               ELSE Recovered(b)]
          /\ counts' = [b \in Batches |-> PolledCounts(b, S)]
          /\ files' = [b \in Batches |-> IF Stale(b) /\ ~Unrecoverable(b) THEN NoFiles ELSE files[b]]
          /\ ck' = [b \in Batches |-> IF b \notin Started(S) THEN ck[b]
                ELSE [i \in Line |-> IF i \in LinesOf(b) /\ ck[b][i] = "none" THEN "pending"
                                     ELSE ck[b][i]]]
          /\ active' = active \cup Started(S)
          /\ pc' = [b \in Batches |-> IF b \in Started(S) THEN "next" ELSE pc[b]]
          /\ pos' = [b \in Batches |-> IF b \in Started(S) THEN 1 ELSE pos[b]]
          /\ got' = [b \in Batches |-> IF b \in Started(S) THEN Nothing ELSE got[b]]
          /\ UNCHANGED <<input, lines, tries, history>>
    BY <1>1, Zenon DEF Poll
  <2>2. status' \in [Batches -> Status]
    BY <2>1 DEF Recovered
  <2>3. counts' \in [Batches -> [total : Nat, completed : Nat, failed : Nat]]
    <3>1. \A b \in Batches : PolledCounts(b, S) \in [total : Nat, completed : Nat, failed : Nat]
      BY DEF PolledCounts
    <3> QED BY <2>1, <3>1
  <2>4. files' \in [Batches -> [output : SUBSET Line, error : SUBSET Line]]
    BY <2>1
  <2>5. ck' \in [Batches -> [Line -> Checkpoint]]
    BY <2>1
  <2>6. /\ active' \subseteq Batches
        /\ pc' \in [Batches -> {"idle", "next", "throttle", "sent"}]
        /\ pos' \in [Batches -> Nat \ {0}]
        /\ got' \in [Batches -> [Line -> Outcome \cup {"none"}]]
    BY <2>1 DEF Started
  <2> QED BY <2>1, <2>2, <2>3, <2>4, <2>5, <2>6
<1>2. CASE Crash
  BY <1>2 DEF Crash, Restart
<1>3. ASSUME NEW b \in Batches, Routes(b) PROVE TypeOK'
  <2>1. CASE Create(b)
    <3>1. PICK n \in Sizes[b], f \in {"good", "malformed"} : /\ lines' = [lines EXCEPT ![b] = n]
                                                         /\ input' = [input EXCEPT ![b] = f]
      BY <2>1, Zenon DEF Create
    <3> QED BY <2>1, <3>1 DEF Create
  <2>2. CASE Cancel(b)
    BY <2>2 DEF Cancel
  <2>3. CASE Delete(b)
    BY <2>3 DEF Delete
  <2>4. CASE DeleteInput(b)
    BY <2>4 DEF DeleteInput
  <2> QED BY <1>3, <2>1, <2>2, <2>3, <2>4 DEF Routes
<1>4. ASSUME NEW b \in Batches, Loop(b) PROVE TypeOK'
  <2>1. CASE Recover(b)
    <3>1. pos[b] \in Line /\ ck[b][pos[b]] \in Outcome \cup {"processing"}
      BY <2>1 DEF Recover, AtItem
    <3>2. PICK outcome \in Outcome : Mark(b, outcome) /\ Settle(b, outcome)
      BY <2>1, <3>1 DEF Recover
    <3> HIDE DEF TypeOK, Outcome, Line
    <3>3. /\ ck' \in [Batches -> [Line -> Checkpoint]]
          /\ got' \in [Batches -> [Line -> Outcome \cup {"none"}]]
          /\ counts' \in [Batches -> [total : Nat, completed : Nat, failed : Nat]]
          /\ pos' \in [Batches -> Nat \ {0}]
          /\ pc' \in [Batches -> {"idle", "next", "throttle", "sent"}]
      BY <3>1, <3>2, SettleTypes
    <3> QED BY <2>1, <3>3 DEF Recover, TypeOK
  <2>2. CASE Throttle(b)
    BY <2>2 DEF Throttle, AtItem
  <2>3. CASE Dispatch(b)
    <3>1. pos[b] \in Line
      BY <1>0, <2>3 DEF Dispatch, AtItem
    <3>2. ck' \in [Batches -> [Line -> Checkpoint]]
      <4>1. [ck EXCEPT ![b][pos[b]] = "processing"] \in [Batches -> [Line -> Checkpoint]]
        BY <3>1
      <4> QED BY <2>3, <4>1 DEF Dispatch, Mark
    <3>3. sentIn' \in [Batches -> [Line -> SUBSET (1..MaxLives)]]
      BY <2>3, <3>1 DEF Dispatch
    <3>4. lateSent' \in [Batches -> SUBSET Line]
      BY <2>3, <3>1 DEF Dispatch
    <3>5. tries' \in [Batches -> 0..MaxAttempts] /\ pc' \in [Batches -> {"idle", "next", "throttle", "sent"}]
      BY <2>3 DEF Dispatch
    <3> HIDE DEF Line, Checkpoint, Status, Outcome
    <3> QED BY <2>3, <3>2, <3>3, <3>4, <3>5 DEF Dispatch
  <2>4. CASE Retry(b)
    <3>1. sentIn' \in [Batches -> [Line -> SUBSET (1..MaxLives)]]
      BY <1>0, <2>4 DEF Retry
    <3>2. tries' \in [Batches -> 0..MaxAttempts]
      BY <2>4 DEF Retry
    <3> HIDE DEF Line, Checkpoint, Status, Outcome
    <3> QED BY <2>4, <3>1, <3>2 DEF Retry
  <2>5. CASE Answer(b)
    <3>1. PICK outcome \in Outcome : Mark(b, outcome) /\ Settle(b, outcome)
      BY <2>5 DEF Answer
    <3>2. pos[b] \in Line
      BY <1>0, <2>5 DEF Answer
    <3> HIDE DEF TypeOK, Outcome, Line
    <3>3. /\ ck' \in [Batches -> [Line -> Checkpoint]]
          /\ got' \in [Batches -> [Line -> Outcome \cup {"none"}]]
          /\ counts' \in [Batches -> [total : Nat, completed : Nat, failed : Nat]]
          /\ pos' \in [Batches -> Nat \ {0}]
          /\ pc' \in [Batches -> {"idle", "next", "throttle", "sent"}]
      BY <3>1, <3>2, SettleTypes
    <3>4. tries' \in [Batches -> 0..MaxAttempts]
      BY <2>5 DEF Answer, TypeOK
    <3> QED BY <2>5, <3>3, <3>4 DEF Answer, TypeOK
  <2>6. CASE Finalize(b)
    <3>1. CountsOf(counts[b].total, got[b]) \in [total : Nat, completed : Nat, failed : Nat]
      BY CountsAreNumbers DEF CountsOf
    <3>2. Succeeded(got[b]) \in SUBSET Line /\ Failed(got[b]) \in SUBSET Line
      BY DEF Succeeded, Failed
    <3>3. /\ counts \in [Batches -> [total : Nat, completed : Nat, failed : Nat]]
          /\ files \in [Batches -> [output : SUBSET Line, error : SUBSET Line]]
          /\ status \in [Batches -> Status]
      OBVIOUS
    <3> HIDE DEF TypeOK, Line, Checkpoint, Outcome
    <3>4. counts' \in [Batches -> [total : Nat, completed : Nat, failed : Nat]]
      BY <2>6, <3>1, <3>3 DEF Finalize
    <3>5. files' \in [Batches -> [output : SUBSET Line, error : SUBSET Line]]
      <4>1. [output |-> Succeeded(got[b]), error |-> Failed(got[b])]
              \in [output : SUBSET Line, error : SUBSET Line]
        BY <3>2
      <4> QED BY <2>6, <3>3, <4>1 DEF Finalize
    <3>6. status' \in [Batches -> Status]
      BY <2>6, <3>3 DEF Finalize
    <3>7. /\ active' \subseteq Batches
          /\ pc' \in [Batches -> {"idle", "next", "throttle", "sent"}]
          /\ pos' \in [Batches -> Nat \ {0}]
          /\ got' \in [Batches -> [Line -> Outcome \cup {"none"}]]
          /\ tries' \in [Batches -> 0..MaxAttempts]
      BY <2>6 DEF Finalize, LoopEnds, TypeOK
    <3> HIDE DEF Status
    <3> QED BY <2>6, <3>4, <3>5, <3>6, <3>7 DEF Finalize, TypeOK
  <2> QED BY <1>4, <2>1, <2>2, <2>3, <2>4, <2>5, <2>6 DEF Loop
<1>5. ASSUME NEW b \in Batches, LoopFails(b) PROVE TypeOK'
  <2>1. /\ status' \in [Batches -> Status]
        /\ active' \subseteq Batches
        /\ pc' \in [Batches -> {"idle", "next", "throttle", "sent"}]
        /\ pos' \in [Batches -> Nat \ {0}]
        /\ tries' \in [Batches -> 0..MaxAttempts]
    BY <1>5 DEF LoopFails, LoopEnds
  <2>2. got' \in [Batches -> [Line -> Outcome \cup {"none"}]]
    BY <1>5 DEF LoopFails, LoopEnds
  <2> HIDE DEF Line, Checkpoint, Status, Outcome
  <2> QED BY <1>5, <2>1, <2>2 DEF LoopFails
<1>6. ASSUME NEW b \in Batches, CrashInFinalize(b) PROVE TypeOK'
  BY <1>6, SMTT(30) DEF CrashInFinalize, Restart
<1>7. ASSUME NEW b \in Batches, CrashInDelete(b) PROVE TypeOK'
  <2>1. PICK n \in 0..3 :
          /\ input' = [input EXCEPT ![b] = IF n >= 1 THEN "deleted" ELSE @]
          /\ files' = [files EXCEPT ![b] = [output |-> IF n >= 2 THEN {} ELSE @.output,
                                            error |-> IF n = 3 THEN {} ELSE @.error]]
    BY <1>7, Zenon DEF CrashInDelete
  <2>2. files' \in [Batches -> [output : SUBSET Line, error : SUBSET Line]]
    BY <2>1
  <2> QED BY <1>7, <2>1, <2>2 DEF CrashInDelete, Restart
<1>8. CASE UNCHANGED vars
  BY <1>8 DEF vars
<1> QED BY <1>1, <1>2, <1>3, <1>4, <1>5, <1>6, <1>7, <1>8 DEF Next

\* Every variable keeps its type: the rows and checkpoints of
\* src/lib/db/batches.ts and the local state of the item loops.
LEMMA TypeInit == Init => TypeOK
<1>1. Init => TypeOK
  BY BoundsAssumption
     DEF Init, TypeOK, Status, TERMINAL, Outcome, Checkpoint, Line, NoFiles, NoCounts, Nothing
<1> QED BY <1>1

-----------------------------------------------------------------------------
(* The inductive invariant.                                                *)

\* A line whose request was sent has a checkpoint that says so, or its batch
\* is gone, in whole or in part; the line at a loop was sent in this life only, and not before the
\* pause.
SentIsMarked == \A b \in Batches :
  /\ \A i \in Line : sentIn[b][i] # {} => \/ ck[b][i] \notin {"none", "pending"}
                                           \/ status[b] = "gone" \/ b \in torn
  /\ pc[b] = "throttle" => sentIn[b][pos[b]] = {}
  /\ pc[b] = "sent" => sentIn[b][pos[b]] = {life}

\* After a late request the loop does not come to another one.
LateIsLast == \A b \in Batches :
  lateSent[b] # {} => /\ status[b] \in {"cancelling", "cancelled", "failed", "gone"}
                      /\ pc[b] # "throttle"

\* A batch that was deleted in part has ended, and no loop is left of it.
TornIsOver == \A b \in torn : status[b] \in TERMINAL \cup {"gone"} /\ pc[b] = "idle"

IInv == /\ TypeOK /\ AtLine /\ LoopOwnsBatch
        /\ SentIsMarked /\ NoReplay
        /\ LateIsLast /\ CancelSendsAtMostOne
        /\ TornIsOver

\* What a tick of the poll loop does to one batch.
PollStarts(b) ==
  /\ Recovered(b) = "validating" /\ status'[b] = "in_progress"
  /\ b \in active' /\ pc'[b] = "next" /\ pos'[b] = 1 /\ got'[b] = Nothing
  /\ ck'[b] = [i \in Line |-> IF i \in LinesOf(b) /\ ck[b][i] = "none" THEN "pending" ELSE ck[b][i]]
  /\ counts'[b].total = lines[b]

PollLeaves(b) ==
  /\ pc'[b] = pc[b] /\ pos'[b] = pos[b] /\ got'[b] = got[b] /\ ck'[b] = ck[b]
  /\ (b \in active' <=> b \in active)
  /\ \/ status'[b] = status[b] /\ files'[b] = files[b] /\ counts'[b] = counts[b]
     \/ status[b] = "cancelling" /\ status'[b] = "cancelled" /\ counts'[b] = counts[b]
     \/ Stale(b) /\ status'[b] = "failed"
     \/ Recovered(b) = "validating" /\ status'[b] \in {"validating", "failed", "expired"}

LEMMA PollEffect ==
  ASSUME TypeOK, Poll
  PROVE  /\ \A b \in Batches : PollStarts(b) \/ PollLeaves(b)
         /\ UNCHANGED <<input, lines, tries, history>>
<1>1. PICK S \in SUBSET Batches, late \in SUBSET Waiting :
        /\ Admitted(S)
        /\ status' = [b \in Batches |->
             IF b \in S THEN IF input[b] = "good" THEN "in_progress" ELSE "failed"
             ELSE IF b \in late THEN "expired"
             ELSE IF status[b] = "cancelling" THEN "cancelled"
             ELSE Recovered(b)]
        /\ counts' = [b \in Batches |-> PolledCounts(b, S)]
        /\ files' = [b \in Batches |-> IF Stale(b) /\ ~Unrecoverable(b) THEN NoFiles ELSE files[b]]
        /\ ck' = [b \in Batches |-> IF b \notin Started(S) THEN ck[b]
              ELSE [i \in Line |-> IF i \in LinesOf(b) /\ ck[b][i] = "none" THEN "pending"
                                   ELSE ck[b][i]]]
        /\ active' = active \cup Started(S)
        /\ pc' = [b \in Batches |-> IF b \in Started(S) THEN "next" ELSE pc[b]]
        /\ pos' = [b \in Batches |-> IF b \in Started(S) THEN 1 ELSE pos[b]]
        /\ got' = [b \in Batches |-> IF b \in Started(S) THEN Nothing ELSE got[b]]
        /\ UNCHANGED <<input, lines, tries, history>>
  BY Zenon DEF Poll
<1>2. S \subseteq Waiting
  BY <1>1 DEF Admitted
<1>3. ASSUME NEW b \in Batches PROVE PollStarts(b) \/ PollLeaves(b)
  <2>1. CASE b \in Started(S)
    <3>1. Recovered(b) = "validating" /\ status'[b] = "in_progress"
      BY <1>1, <1>2, <2>1 DEF Started, Waiting
    <3>2. counts'[b].total = lines[b]
      BY <1>1, <2>1 DEF PolledCounts
    <3> QED BY <1>1, <2>1, <3>1, <3>2 DEF PollStarts
  <2>2. CASE b \notin Started(S)
    <3>1. /\ pc'[b] = pc[b] /\ pos'[b] = pos[b] /\ got'[b] = got[b] /\ ck'[b] = ck[b]
          /\ (b \in active' <=> b \in active)
      BY <1>1, <2>2
    <3>2. CASE Recovered(b) = "validating"
      <4>1. status[b] # "cancelling"
        BY <3>2 DEF Recovered, Stale
      <4>2. status'[b] \in {"validating", "failed", "expired"}
        BY <1>1, <2>2, <3>2, <4>1 DEF Started
      <4> QED BY <3>1, <3>2, <4>2 DEF PollLeaves
    <3>3. CASE Recovered(b) # "validating"
      <4>1. b \notin S /\ b \notin late
        BY <1>2, <3>3 DEF Waiting
      <4>2. status'[b] = IF status[b] = "cancelling" THEN "cancelled" ELSE Recovered(b)
        BY <1>1, <4>1
      <4>3. CASE Stale(b)
        <5>1. status'[b] = "failed"
          BY <3>3, <4>2, <4>3 DEF Recovered, Stale
        <5> QED BY <3>1, <4>3, <5>1 DEF PollLeaves
      <4>4. CASE ~Stale(b)
        <5>1. PolledCounts(b, S) = [total |-> counts[b].total, completed |-> counts[b].completed,
                                    failed |-> counts[b].failed]
          BY <2>2, <4>1, <4>4 DEF PolledCounts
        <5>2. counts'[b] = counts[b]
          BY <1>1, <5>1 DEF TypeOK
        <5>3. files'[b] = files[b]
          BY <1>1, <4>4
        <5> QED BY <3>1, <4>2, <4>4, <5>2, <5>3 DEF PollLeaves, Recovered
      <4> QED BY <4>3, <4>4
    <3> QED BY <3>2, <3>3
  <2> QED BY <2>1, <2>2
<1> QED BY <1>1, <1>3

LEMMA InvInit == Init => IInv
<1> SUFFICES ASSUME Init PROVE IInv
  OBVIOUS
<1> QED BY TypeInit
        DEF Init, IInv, AtLine, LoopOwnsBatch, SentIsMarked, NoReplay, LateIsLast, CancelSendsAtMostOne,
            TornIsOver

\* What the invariant says of the process and of the requests sent.
Sound == /\ AtLine /\ LoopOwnsBatch /\ SentIsMarked /\ NoReplay
         /\ LateIsLast /\ CancelSendsAtMostOne /\ TornIsOver

LEMMA PollKeeps == ASSUME IInv, Poll PROVE Sound'
<1> USE DEF IInv, TypeOK
<1>1. /\ \A b \in Batches : PollStarts(b) \/ PollLeaves(b)
      /\ UNCHANGED <<input, lines, tries, history>>
  BY PollEffect
<1> USE DEF history
\* A batch that is started was waiting: its loop was not running.
<1>2. \A b \in Batches : Recovered(b) = "validating" =>
        /\ status[b] \in {"validating", "in_progress", "finalizing"}
        /\ pc[b] = "idle" /\ lateSent[b] = {} /\ b \notin torn
  BY DEF Recovered, Stale, LoopOwnsBatch, LateIsLast, TornIsOver, TERMINAL
<1>3. ASSUME NEW b \in Batches, PollStarts(b)
      PROVE  /\ pc'[b] = "next" /\ status'[b] = "in_progress" /\ b \in active'
             /\ lateSent'[b] = {}
             /\ \A i \in Line : sentIn'[b][i] # {} => ck'[b][i] \notin {"none", "pending"}
  <2>1. /\ pc'[b] = "next" /\ status'[b] = "in_progress" /\ b \in active' /\ lateSent'[b] = {}
        /\ status[b] # "gone" /\ b \notin torn
    BY <1>1, <1>2, <1>3 DEF PollStarts
  <2>2. ASSUME NEW i \in Line, sentIn'[b][i] # {} PROVE ck'[b][i] \notin {"none", "pending"}
    <3>1. ck[b][i] \notin {"none", "pending"}
      BY <1>1, <2>1, <2>2 DEF SentIsMarked
    <3> QED BY <1>3, <3>1 DEF PollStarts
  <2> QED BY <2>1, <2>2
<1>4. ASSUME NEW b \in Batches, PollLeaves(b)
      PROVE  /\ pc'[b] = pc[b] /\ pos'[b] = pos[b] /\ ck'[b] = ck[b] /\ (b \in active' <=> b \in active)
             /\ \/ status'[b] = status[b]
                \/ status[b] = "cancelling" /\ status'[b] = "cancelled"
                \/ /\ pc[b] = "idle" /\ lateSent[b] = {}
                   /\ status[b] \in {"validating", "in_progress", "finalizing"}
                   /\ status'[b] \in {"validating", "failed", "expired"}
  BY <1>2, <1>4 DEF PollLeaves, Stale, LoopOwnsBatch, LateIsLast
<1>5. \A b \in Batches :
        \/ /\ pc'[b] = "next" /\ status'[b] = "in_progress" /\ b \in active'
           /\ lateSent'[b] = {}
           /\ \A i \in Line : sentIn'[b][i] # {} => ck'[b][i] \notin {"none", "pending"}
        \/ /\ pc'[b] = pc[b] /\ pos'[b] = pos[b] /\ ck'[b] = ck[b] /\ (b \in active' <=> b \in active)
           /\ \/ status'[b] = status[b]
              \/ status[b] = "cancelling" /\ status'[b] = "cancelled"
              \/ /\ pc[b] = "idle" /\ lateSent[b] = {}
                 /\ status[b] \in {"validating", "in_progress", "finalizing"}
                 /\ status'[b] \in {"validating", "failed", "expired"}
  BY <1>1, <1>3, <1>4
<1>6. AtLine'
  BY <1>1, <1>5 DEF AtLine, LinesOf
<1>7. LoopOwnsBatch'
  BY <1>5 DEF LoopOwnsBatch
<1>8. SentIsMarked'
  <2> SUFFICES ASSUME NEW b \in Batches
               PROVE  /\ \A i \in Line : sentIn'[b][i] # {} =>
                            ck'[b][i] \notin {"none", "pending"} \/ status'[b] = "gone" \/ b \in torn'
                      /\ pc'[b] = "throttle" => sentIn'[b][pos'[b]] = {}
                      /\ pc'[b] = "sent" => sentIn'[b][pos'[b]] = {life'}
    BY DEF SentIsMarked
  <2>1. CASE /\ pc'[b] = "next"
             /\ \A i \in Line : sentIn'[b][i] # {} => ck'[b][i] \notin {"none", "pending"}
    BY <2>1
  <2>2. CASE /\ pc'[b] = pc[b] /\ pos'[b] = pos[b] /\ ck'[b] = ck[b]
             /\ status[b] = "gone" => status'[b] = "gone"
    BY <1>1, <2>2 DEF SentIsMarked
  <2> QED BY <1>5, <2>1, <2>2
<1>9. NoReplay' /\ CancelSendsAtMostOne'
  BY <1>1 DEF NoReplay, CancelSendsAtMostOne
<1>10. LateIsLast'
  BY <1>1, <1>5 DEF LateIsLast
<1>11. TornIsOver'
  <2> SUFFICES ASSUME NEW b \in torn PROVE status'[b] \in TERMINAL \cup {"gone"} /\ pc'[b] = "idle"
    BY <1>1 DEF TornIsOver
  <2>1. /\ b \in Batches /\ pc[b] = "idle" /\ Recovered(b) # "validating" /\ ~Stale(b)
        /\ status[b] \in TERMINAL \cup {"gone"} /\ status[b] # "cancelling"
    BY <1>2 DEF TornIsOver, Stale, TERMINAL
  <2> QED BY <1>1, <2>1 DEF PollStarts, PollLeaves
<1> QED BY <1>6, <1>7, <1>8, <1>9, <1>10, <1>11 DEF Sound

LEMMA RestartKeeps ==
  ASSUME IInv, Restart, UNCHANGED <<lines, ck, torn>>,
         \A b \in Batches : status'[b] # status[b] =>
           status[b] = "in_progress" /\ status'[b] = "finalizing"
  PROVE  Sound'
<1> USE DEF IInv, TypeOK, Restart
<1>1. \A b \in Batches : pc'[b] = "idle"
  OBVIOUS
<1>2. AtLine' /\ LoopOwnsBatch'
  BY <1>1 DEF AtLine, LoopOwnsBatch
<1>3. SentIsMarked'
  <2>1. ck' = ck /\ sentIn' = sentIn /\ torn' = torn
    OBVIOUS
  <2>2. \A b \in Batches : status[b] = "gone" => status'[b] = "gone"
    OBVIOUS
  <2> QED BY <1>1, <2>1, <2>2 DEF SentIsMarked
<1>4. NoReplay' /\ CancelSendsAtMostOne'
  BY DEF NoReplay, CancelSendsAtMostOne
<1>5. LateIsLast'
  BY <1>1 DEF LateIsLast
<1>6. TornIsOver'
  BY <1>1 DEF TornIsOver, TERMINAL
<1> QED BY <1>2, <1>3, <1>4, <1>5, <1>6 DEF Sound

\* The process dies over the deletion of a batch.
LEMMA TearKeeps == ASSUME IInv, NEW b \in Batches, CrashInDelete(b) PROVE Sound'
<1> USE DEF IInv, TypeOK
<1>1. /\ \A c \in Batches : pc'[c] = "idle" /\ (c # b => ck'[c] = ck[c])
      /\ status' = status /\ sentIn' = sentIn /\ lateSent' = lateSent /\ active' = {}
      /\ torn' = torn \cup {b} /\ status[b] \in TERMINAL
  BY DEF CrashInDelete, Restart
<1>2. AtLine' /\ LoopOwnsBatch'
  BY <1>1 DEF AtLine, LoopOwnsBatch
<1>3. SentIsMarked'
  BY <1>1 DEF SentIsMarked
<1>4. NoReplay' /\ CancelSendsAtMostOne'
  BY <1>1 DEF NoReplay, CancelSendsAtMostOne
<1>5. LateIsLast' /\ TornIsOver'
  BY <1>1 DEF LateIsLast, TornIsOver
<1> QED BY <1>2, <1>3, <1>4, <1>5 DEF Sound

LEMMA RoutesKeep == ASSUME IInv, NEW b \in Batches, Routes(b) PROVE Sound'
<1> USE DEF IInv, TypeOK, Sound, process, history, LinesOf, TERMINAL,
            AtLine, LoopOwnsBatch, SentIsMarked, NoReplay, LateIsLast, CancelSendsAtMostOne,
            TornIsOver
<1>1. CASE Create(b)
  <2>1. PICK n \in Sizes[b] : lines' = [lines EXCEPT ![b] = n]
    BY <1>1, Zenon DEF Create
  <2>2. pc[b] = "idle" /\ status[b] = "new" /\ status' = [status EXCEPT ![b] = "validating"]
    BY <1>1 DEF Create
  <2>3. AtLine' /\ LoopOwnsBatch'
    BY <1>1, <2>1, <2>2 DEF Create
  <2>4. SentIsMarked' /\ LateIsLast'
    BY <1>1, <2>2 DEF Create
  <2> QED BY <1>1, <2>3, <2>4 DEF Create
<1>2. CASE Cancel(b)
  BY <1>2 DEF Cancel
<1>3. CASE Delete(b)
  BY <1>3 DEF Delete
<1>4. CASE DeleteInput(b)
  BY <1>4 DEF DeleteInput
<1> QED BY <1>1, <1>2, <1>3, <1>4 DEF Routes

LEMMA LoopKeeps == ASSUME IInv, NEW b \in Batches, Loop(b) PROVE Sound'
<1> USE DEF IInv, TypeOK, Sound, rows, history, LinesOf, TERMINAL, IsBatchCancelled
<1>0. \A c \in Batches : pc[c] \in {"throttle", "sent"} => pos[c] \in Line
  BY BoundsAssumption DEF AtLine, Line
<1> b \notin torn
  BY DEF Loop, Recover, Throttle, Dispatch, Retry, Answer, Finalize, AtItem, LoopDone, TornIsOver
<1> torn' = torn
  BY DEF Loop, Recover, Throttle, Dispatch, Retry, Answer, Finalize
<1> TornIsOver'
  <2>1. \A c \in Batches : c # b => status'[c] = status[c] /\ pc'[c] = pc[c]
    BY DEF Loop, Recover, Throttle, Dispatch, Retry, Answer, Finalize, LoopEnds, Settle
  <2> QED BY <2>1 DEF TornIsOver
<1>1. CASE Recover(b)
  <2>1. PICK outcome \in Outcome : Mark(b, outcome) /\ Settle(b, outcome)
    BY <1>1 DEF Recover, Outcome
  <2>2. pc' = [pc EXCEPT ![b] = "next"] /\ pc[b] = "next"
    BY <1>1, <2>1 DEF Recover, Settle, AtItem
  <2>3. \A c \in Batches : c # b => ck'[c] = ck[c] /\ pos'[c] = pos[c]
    BY <2>1 DEF Mark, Settle
  <2>4. \A i \in Line : ck[b][i] \notin {"none", "pending"} => ck'[b][i] \notin {"none", "pending"}
    BY <2>1 DEF Mark, Outcome
  <2>5. AtLine' /\ LoopOwnsBatch'
    BY <1>1, <2>2, <2>3 DEF Recover, AtItem, AtLine, LoopOwnsBatch
  <2>6. SentIsMarked'
    BY <1>1, <2>2, <2>3, <2>4 DEF Recover, SentIsMarked
  <2>7. NoReplay' /\ LateIsLast' /\ CancelSendsAtMostOne'
    BY <1>1, <2>2 DEF Recover, NoReplay, LateIsLast, CancelSendsAtMostOne
  <2> QED BY <2>5, <2>6, <2>7
<1>2. CASE Throttle(b)
  <2>1. /\ pc' = [pc EXCEPT ![b] = "throttle"] /\ pc[b] = "next" /\ status[b] = "in_progress"
        /\ pos[b] \in LinesOf(b) /\ ck[b][pos[b]] \in {"none", "pending"}
    BY <1>2 DEF Throttle, AtItem, LoopOwnsBatch
  <2>2. sentIn[b][pos[b]] = {} /\ lateSent[b] = {}
    <3>1. pos[b] \in Line
      BY <2>1, BoundsAssumption DEF Line
    <3> QED BY <2>1, <3>1 DEF SentIsMarked, LateIsLast
  <2>3. AtLine' /\ LoopOwnsBatch'
    BY <1>2, <2>1 DEF Throttle, AtLine, LoopOwnsBatch
  <2>4. SentIsMarked'
    BY <1>2, <2>1, <2>2 DEF Throttle, SentIsMarked
  <2>5. NoReplay' /\ LateIsLast' /\ CancelSendsAtMostOne'
    BY <1>2, <2>1, <2>2 DEF Throttle, NoReplay, LateIsLast, CancelSendsAtMostOne
  <2> QED BY <2>3, <2>4, <2>5
<1>3. CASE Dispatch(b)
  <2>1. /\ pos[b] \in LinesOf(b) /\ pos[b] \in Line
        /\ pc[b] # "idle" /\ pc' = [pc EXCEPT ![b] = "sent"]
        /\ status' = status /\ pos' = pos /\ lines' = lines /\ active' = active /\ life' = life
    BY <1>3, BoundsAssumption DEF Dispatch, AtItem, AtLine, Line
  <2>2. sentIn[b][pos[b]] = {} /\ lateSent[b] = {}
    <3>1. CASE AtItem(b) /\ ck[b][pos[b]] \in {"none", "pending"}
      BY <2>1, <3>1 DEF AtItem, SentIsMarked, LateIsLast, LoopOwnsBatch
    <3>2. CASE pc[b] = "throttle"
      BY <3>2 DEF SentIsMarked, LateIsLast
    <3> QED BY <1>3, <3>1, <3>2 DEF Dispatch
  <2>3. /\ sentIn' = [sentIn EXCEPT ![b][pos[b]] = {life}]
        /\ lateSent' = [lateSent EXCEPT ![b] = IF status[b] # "in_progress" THEN {pos[b]} ELSE {}]
    BY <1>3, <2>1, <2>2 DEF Dispatch
  <2>4. /\ \A c \in Batches : c # b => ck'[c] = ck[c]
        /\ \A i \in Line : i # pos[b] => ck'[b][i] = ck[b][i]
        /\ status[b] = "gone" \/ ck'[b][pos[b]] = "processing"
    BY <1>3, <2>1 DEF Dispatch, Mark
  <2>5. AtLine' /\ LoopOwnsBatch'
    BY <2>1 DEF AtLine, LoopOwnsBatch
  <2>6. SentIsMarked'
    BY <2>1, <2>3, <2>4 DEF SentIsMarked
  <2>7. NoReplay'
    BY <2>1, <2>3 DEF NoReplay
  <2>8. LateIsLast' /\ CancelSendsAtMostOne'
    BY <2>1, <2>3 DEF LateIsLast, CancelSendsAtMostOne, LoopOwnsBatch
  <2> QED BY <2>5, <2>6, <2>7, <2>8
<1>4. CASE Retry(b)
  <2>1. sentIn[b][pos[b]] = {life} /\ pos[b] \in Line
    BY <1>0, <1>4 DEF Retry, SentIsMarked
  <2>2. sentIn' = sentIn
    BY <1>4, <2>1 DEF Retry
  <2> QED BY <1>4, <2>2 DEF Retry, AtLine, LoopOwnsBatch, SentIsMarked, NoReplay, LateIsLast,
                            CancelSendsAtMostOne
<1>5. CASE Answer(b)
  <2>1. PICK outcome \in Outcome : Mark(b, outcome) /\ Settle(b, outcome)
    BY <1>5 DEF Answer
  <2>2. pc' = [pc EXCEPT ![b] = "next"] /\ pc[b] = "sent"
    BY <1>5, <2>1 DEF Answer, Settle
  <2>3. \A c \in Batches : c # b => ck'[c] = ck[c] /\ pos'[c] = pos[c]
    BY <2>1 DEF Mark, Settle
  <2>4. \A i \in Line : ck[b][i] \notin {"none", "pending"} => ck'[b][i] \notin {"none", "pending"}
    BY <2>1 DEF Mark, Outcome
  <2>5. AtLine' /\ LoopOwnsBatch'
    BY <1>5, <2>2, <2>3 DEF Answer, AtLine, LoopOwnsBatch
  <2>6. SentIsMarked'
    BY <1>5, <2>2, <2>3, <2>4 DEF Answer, SentIsMarked
  <2>7. NoReplay' /\ LateIsLast' /\ CancelSendsAtMostOne'
    BY <1>5, <2>2 DEF Answer, NoReplay, LateIsLast, CancelSendsAtMostOne
  <2> QED BY <2>5, <2>6, <2>7
<1>6. CASE Finalize(b)
  <2>1. /\ status' \in [Batches -> Status]
        /\ \A c \in Batches : c # b => status'[c] = status[c]
        /\ status[b] \in {"in_progress", "cancelling", "cancelled", "gone"}
        /\ status'[b] = CASE status[b] = "in_progress" -> "completed"
                          [] status[b] = "cancelling" -> "cancelled"
                          [] OTHER -> status[b]
    BY <1>6 DEF Finalize, LoopDone, LoopOwnsBatch, Status
  <2>2. /\ \A c \in Batches : c # b => pos'[c] = pos[c]
        /\ pc' = [pc EXCEPT ![b] = "idle"] /\ active' = active \ {b}
        /\ lines' = lines /\ ck' = ck /\ life' = life /\ sentIn' = sentIn /\ lateSent' = lateSent
    BY <1>6 DEF Finalize, LoopEnds
  <2>3. AtLine' /\ LoopOwnsBatch'
    BY <2>1, <2>2 DEF AtLine, LoopOwnsBatch
  <2>4. SentIsMarked'
    BY <2>1, <2>2 DEF SentIsMarked
  <2>5. NoReplay' /\ LateIsLast' /\ CancelSendsAtMostOne'
    BY <2>1, <2>2 DEF NoReplay, LateIsLast, CancelSendsAtMostOne
  <2> QED BY <2>3, <2>4, <2>5
<1> QED BY <1>1, <1>2, <1>3, <1>4, <1>5, <1>6 DEF Loop

LEMMA FailureKeeps == ASSUME IInv, NEW b \in Batches, LoopFails(b) PROVE Sound'
<1> USE DEF IInv, TypeOK, Sound, history, LinesOf
<1>1. /\ \A c \in Batches : c # b => pos'[c] = pos[c] /\ status'[c] = status[c]
      /\ status'[b] = IF status[b] = "gone" THEN "gone" ELSE "failed"
      /\ pc' = [pc EXCEPT ![b] = "idle"] /\ active' = active \ {b}
      /\ lines' = lines /\ ck' = ck /\ life' = life /\ sentIn' = sentIn /\ lateSent' = lateSent
      /\ torn' = torn /\ b \notin torn
  BY DEF LoopFails, LoopEnds, TornIsOver
<1>2. AtLine' /\ LoopOwnsBatch'
  BY <1>1 DEF AtLine, LoopOwnsBatch
<1>3. SentIsMarked'
  BY <1>1 DEF SentIsMarked
<1>4. NoReplay' /\ LateIsLast' /\ CancelSendsAtMostOne'
  BY <1>1 DEF NoReplay, LateIsLast, CancelSendsAtMostOne
<1>5. TornIsOver'
  BY <1>1 DEF TornIsOver
<1> QED BY <1>2, <1>3, <1>4, <1>5

LEMMA InvStep == IInv /\ [Next]_vars => IInv'
<1> SUFFICES ASSUME IInv, [Next]_vars PROVE IInv'
  OBVIOUS
<1>1. TypeOK'
  BY TypeStep DEF IInv
<1>2. ASSUME Poll PROVE Sound'
  BY <1>2, PollKeeps
<1>3. ASSUME Crash PROVE Sound'
  <2>1. Restart /\ UNCHANGED <<lines, ck, torn>> /\ status' = status
    BY <1>3 DEF Crash, rows
  <2>2. \A b \in Batches : status'[b] = status[b]
    BY <2>1
  <2> QED BY <2>1, <2>2, RestartKeeps
<1>4. ASSUME NEW b \in Batches, Routes(b) PROVE Sound'
  BY <1>4, RoutesKeep
<1>5. ASSUME NEW b \in Batches, Loop(b) PROVE Sound'
  BY <1>5, LoopKeeps
<1>6. ASSUME NEW b \in Batches, LoopFails(b) PROVE Sound'
  BY <1>6, FailureKeeps
<1>7. ASSUME NEW b \in Batches, CrashInFinalize(b) PROVE Sound'
  <2>1. b \in Batches /\ status[b] = "in_progress"
    BY <1>7 DEF CrashInFinalize, LoopDone, IsBatchCancelled, IInv, LoopOwnsBatch
  <2>2. \A c \in Batches : status'[c] # status[c] =>
          status[c] = "in_progress" /\ status'[c] = "finalizing"
    <3>1. status' = [status EXCEPT ![b] = "finalizing"] /\ status \in [Batches -> Status]
      BY <1>7 DEF CrashInFinalize, IInv, TypeOK
    <3> QED BY <2>1, <3>1
  <2> QED BY <1>7, <2>2, RestartKeeps DEF CrashInFinalize
<1>8. ASSUME NEW b \in Batches, CrashInDelete(b) PROVE Sound'
  BY <1>8, TearKeeps
<1>9. ASSUME UNCHANGED vars PROVE Sound'
  BY <1>9 DEF vars, rows, process, history, IInv, Sound, AtLine, LinesOf, LoopOwnsBatch,
              SentIsMarked, NoReplay, LateIsLast, CancelSendsAtMostOne, TornIsOver
<1>10. Sound'
  BY <1>2, <1>3, <1>4, <1>5, <1>6, <1>7, <1>8, <1>9 DEF Next
<1> QED BY <1>1, <1>10 DEF IInv, Sound

LEMMA Invariant == Spec => []IInv
BY InvInit, InvStep, PTL DEF Spec

\* Every variable keeps its type: the rows and checkpoints of
\* src/lib/db/batches.ts and the local state of the item loops.
THEOREM TypeCorrect == Spec => []TypeOK
BY Invariant, PTL DEF IInv

\* No request is sent in two lives of the process, wherever it died
\* (recoverStaleBatch, applyRecoveredCheckpoint).
THEOREM NoReplayHolds == Spec => []NoReplay
BY Invariant, PTL DEF IInv

\* A cancelled batch sends at most one line more (processBatchItems).
THEOREM CancelSendsAtMostOneHolds == Spec => []CancelSendsAtMostOne
BY Invariant, PTL DEF IInv

\* A loop runs only for a batch in activeBatches whose row is at work or was
\* cancelled, so the poll loop starts no second one (processPendingBatches).
THEOREM LoopOwnsBatchHolds == Spec => []LoopOwnsBatch
BY Invariant, PTL DEF IInv

\* A batch that ended keeps its end; only a loop that outlived a cancellation
\* and then fails makes it 'failed' (failBatch, recoverStaleBatch, cancelBatch).
THEOREM EndIsFinalHolds == Spec => EndIsFinal
<1> DEFINE Kept == \A b \in Batches : status[b] \in TERMINAL =>
       status'[b] \in {status[b], "gone"}
         \cup (IF status[b] = "cancelled" /\ pc[b] # "idle" THEN {"failed"} ELSE {})
<1>1. ASSUME IInv, [Next]_vars PROVE Kept
  <2> USE <1>1 DEF IInv, TypeOK, TERMINAL, LoopOwnsBatch
  <2>1. ASSUME Poll PROVE Kept
    <3>1. \A b \in Batches : PollStarts(b) \/ PollLeaves(b)
      BY <2>1, PollEffect
    <3> QED BY <3>1 DEF PollStarts, PollLeaves, Recovered, Stale
  <2>2. ASSUME Crash PROVE Kept
    BY <2>2 DEF Crash, rows
  <2>3. ASSUME NEW b \in Batches, Routes(b) PROVE Kept
    BY <2>3 DEF Routes, Create, Cancel, Delete, DeleteInput
  <2>4. ASSUME NEW b \in Batches, Loop(b) PROVE Kept
    <3>1. CASE Finalize(b)
      BY <3>1 DEF Finalize, LoopDone, IsBatchCancelled
    <3> QED BY <2>4, <3>1 DEF Loop, Recover, Throttle, Dispatch, Retry, Answer, rows
  <2>5. ASSUME NEW b \in Batches, LoopFails(b) PROVE Kept
    BY <2>5 DEF LoopFails
  <2>6. ASSUME NEW b \in Batches, CrashInFinalize(b) PROVE Kept
    BY <2>6 DEF CrashInFinalize, LoopDone, IsBatchCancelled
  <2>7. ASSUME NEW b \in Batches, CrashInDelete(b) PROVE Kept
    BY <2>7 DEF CrashInDelete
  <2>8. ASSUME UNCHANGED vars PROVE Kept
    BY <2>8 DEF vars, rows
  <2> QED BY <2>1, <2>2, <2>3, <2>4, <2>5, <2>6, <2>7, <2>8 DEF Next
<1>2. IInv /\ [Next]_vars => [Kept]_vars
  BY <1>1
<1> QED BY <1>2, Invariant, PTL DEF Spec, EndIsFinal

-----------------------------------------------------------------------------
(* The way of a loop: line by line, and within a line over the pause and a  *)
(* bounded number of attempts.                                              *)

\* How far the loop is with its line.
Effort(b) == IF pc[b] = "sent" THEN 1 + tries[b] ELSE IF pc[b] = "throttle" THEN 1 ELSE 0

\* Where a loop can be.
LoopWithin ==
  \A b \in Batches : pc[b] # "idle" => /\ pos[b] \in 1 .. lines[b] + 1
                                       /\ Effort(b) \in 0 .. MaxAttempts + 1

\* Nothing sets a loop back: each of its steps ends it, finishes a line or an
\* attempt, and the steps of all others leave it where it is, with the same file.
LoopAdvances ==
  [][\A b \in Batches : pc[b] # "idle" /\ pc'[b] # "idle" =>
       /\ lines'[b] = lines[b]
       /\ \/ pc'[b] = pc[b] /\ pos'[b] = pos[b] /\ tries'[b] = tries[b]
          \/ pos[b] <= lines[b] /\ pos'[b] = pos[b] + 1
          \/ pos'[b] = pos[b] /\ Effort(b) < Effort(b)']_vars

\* One step of one loop, and a step that is not the loop's.
Advances(b) == \/ pos[b] <= lines[b] /\ pos'[b] = pos[b] + 1 /\ pc'[b] = "next"
               \/ pos'[b] = pos[b] /\ pos[b] <= lines[b] /\ Effort(b) < Effort(b)'
Rests(b) == pc'[b] = pc[b] /\ pos'[b] = pos[b] /\ tries'[b] = tries[b]
Goes(b) == \/ pc'[b] = "idle"
           \/ pc[b] = "idle" /\ pc'[b] = "next" /\ pos'[b] = 1
           \/ lines'[b] = lines[b] /\ (Rests(b) \/ Advances(b))
           \/ pc[b] = "idle" /\ Rests(b)

LEMMA LoopGoes ==
  ASSUME IInv, [Next]_vars, NEW b \in Batches
  PROVE  Goes(b)
<1> USE DEF IInv, TypeOK, Goes, Rests, Advances
<1>1. CASE UNCHANGED vars
  BY <1>1 DEF vars, rows, process
<1>2. CASE Poll
  <2>1. PollStarts(b) \/ PollLeaves(b)
    BY <1>2, PollEffect
  <2>2. UNCHANGED <<lines, tries>>
    BY <1>2 DEF Poll
  <2>3. CASE PollLeaves(b)
    BY <2>2, <2>3 DEF PollLeaves
  <2>4. CASE PollStarts(b)
    BY <2>4 DEF PollStarts, Recovered, Stale, LoopOwnsBatch
  <2> QED BY <2>1, <2>3, <2>4
<1>3. ASSUME Crash \/ \E c \in Batches : CrashInFinalize(c) \/ CrashInDelete(c) PROVE Goes(b)
  BY <1>3 DEF Crash, CrashInFinalize, CrashInDelete, Restart
<1>4. ASSUME NEW c \in Batches, Routes(c) PROVE Goes(b)
  <2>1. Rests(b)
    BY <1>4 DEF Routes, Create, Cancel, Delete, DeleteInput, process
  <2>2. pc[b] = "idle" \/ lines'[b] = lines[b]
    BY <1>4 DEF Routes, Create, Cancel, Delete, DeleteInput, LoopOwnsBatch
  <2> QED BY <2>1, <2>2
<1>5. ASSUME NEW c \in Batches, Loop(c) \/ LoopFails(c), c # b PROVE Goes(b)
  BY <1>5 DEF Loop, LoopFails, LoopEnds, Recover, Throttle, Dispatch, Retry, Answer, Finalize,
     Settle, rows
<1>6. CASE Finalize(b) \/ LoopFails(b)
  BY <1>6 DEF Finalize, LoopFails, LoopEnds
<1>7. CASE Recover(b) \/ Answer(b)
  BY <1>7 DEF Recover, Answer, AtItem, Settle, AtLine, LinesOf
<1>8. CASE Throttle(b)
  BY <1>8 DEF Throttle, AtItem, rows, Effort
<1>9. CASE Dispatch(b)
  BY <1>9 DEF Dispatch, AtItem, AtLine, LinesOf, Effort
<1>10. CASE Retry(b)
  BY <1>10 DEF Retry, rows, AtLine, LinesOf, Effort
<1> QED BY <1>1, <1>2, <1>3, <1>4, <1>5, <1>6, <1>7, <1>8, <1>9, <1>10 DEF Next, Loop

\* Whatever is cancelled, deleted, polled or written meanwhile, a loop only goes
\* forward, over its lines and over the attempts of a request (processBatchItems,
\* processSingleItemWithRetry).
THEOREM LoopAdvancesHolds == Spec => LoopAdvances
<1> DEFINE Forward == \A b \in Batches : pc[b] # "idle" /\ pc'[b] # "idle" =>
       /\ lines'[b] = lines[b]
       /\ \/ pc'[b] = pc[b] /\ pos'[b] = pos[b] /\ tries'[b] = tries[b]
          \/ pos[b] <= lines[b] /\ pos'[b] = pos[b] + 1
          \/ pos'[b] = pos[b] /\ Effort(b) < Effort(b)'
<1>1. IInv /\ [Next]_vars => [Forward]_vars
  BY LoopGoes DEF Goes, Rests, Advances
<1> QED BY <1>1, Invariant, PTL DEF Spec, LoopAdvances

\* And only so far: to the end of its file and the bound of the attempts.  With
\* LoopAdvances, a loop makes a bounded number of steps, whatever the provider answers.
THEOREM LoopWithinHolds == Spec => []LoopWithin
<1>1. Init => LoopWithin
  BY DEF Init, LoopWithin
<1>2. IInv /\ IInv' /\ LoopWithin /\ [Next]_vars => LoopWithin'
  <2> SUFFICES ASSUME IInv, IInv', LoopWithin, [Next]_vars, NEW b \in Batches, pc'[b] # "idle"
               PROVE  pos'[b] \in 1 .. lines'[b] + 1 /\ Effort(b)' \in 0 .. MaxAttempts + 1
    BY DEF LoopWithin
  <2>1. Effort(b)' \in 0 .. MaxAttempts + 1
    BY BoundsAssumption DEF IInv, TypeOK, Effort
  <2>2. lines[b] \in Nat /\ lines'[b] \in Nat /\ pos[b] \in Nat /\ pos'[b] \in Nat \ {0}
    BY BoundsAssumption DEF IInv, TypeOK
  <2>3. pos'[b] <= lines'[b] + 1
    BY <2>2, LoopGoes DEF Goes, Rests, Advances, LoopWithin
  <2> QED BY <2>1, <2>2, <2>3
<1> QED BY <1>1, <1>2, Invariant, PTL DEF Spec

-----------------------------------------------------------------------------
(* The account of a completed batch.                                       *)

\* The loop's results are the outcomes in the table for the lines it has
\* passed, and nothing for the others.
BookOf(b) == status[b] # "gone" /\ b \notin torn =>
  /\ \A i \in Line : i > lines[b] \/ status[b] = "new" => ck[b][i] = "none"
  /\ pc[b] # "idle" =>
       /\ counts[b].total = lines[b]
       /\ \A i \in Line : /\ i < pos[b] => /\ i \in LinesOf(b)
                                           /\ ck[b][i] \in Outcome /\ got[b][i] = ck[b][i]
                          /\ i >= pos[b] => got[b][i] = "none"

\* CompletedAccounts, for one batch.
AccountOf(b) == status[b] = "completed" /\ b \notin torn =>
    /\ files[b].output \cup files[b].error = LinesOf(b)
    /\ files[b].output = {i \in Line : ck[b][i] = "ok"}
    /\ files[b].error = {i \in Line : ck[b][i] \in {"bad", "errored"}}
    /\ counts[b] = [total |-> lines[b], completed |-> Cardinality(files[b].output),
                    failed |-> Cardinality(files[b].error)]

\* A step that leaves the row and the loop of a batch alone keeps its book.
LEMMA BookKept ==
  ASSUME NEW b \in Batches, BookOf(b), AccountOf(b),
         status'[b] = status[b], lines'[b] = lines[b], ck'[b] = ck[b], counts'[b] = counts[b],
         files'[b] = files[b], b \in torn => b \in torn',
         pc'[b] = "idle" \/ (pc'[b] # "idle" /\ pc[b] # "idle" /\ pos'[b] = pos[b] /\ got'[b] = got[b])
  PROVE  BookOf(b)' /\ AccountOf(b)'
BY DEF BookOf, AccountOf, LinesOf

\* The book does not depend on what the status is, as long as the row exists.
LEMMA BookMoves ==
  ASSUME NEW b \in Batches, BookOf(b), status[b] # "gone", status'[b] # "new",
         lines'[b] = lines[b], ck'[b] = ck[b], b \in torn => b \in torn',
         \/ pc'[b] = "idle"
         \/ /\ pc[b] # "idle" /\ pos'[b] = pos[b] /\ got'[b] = got[b]
            /\ counts'[b].total = counts[b].total
  PROVE  BookOf(b)'
BY DEF BookOf, LinesOf

LEMMA LinesFit == ASSUME TypeOK, NEW b \in Batches PROVE LinesOf(b) \subseteq Line
<1>1. lines[b] \in 0..MaxLines
  BY DEF TypeOK
<1> QED BY <1>1, BoundsAssumption DEF LinesOf, Line

LEMMA BookStep ==
  ASSUME IInv, [Next]_vars, \A b \in Batches : BookOf(b) /\ AccountOf(b)
  PROVE  \A b \in Batches : BookOf(b)' /\ AccountOf(b)'
<1> USE BoundsAssumption DEF IInv, TypeOK
<1>0. torn \subseteq torn'
  BY DEF Next, Poll, Crash, Routes, Create, Cancel, Delete, DeleteInput, Loop, Recover, Throttle,
         Dispatch, Retry, Answer, Finalize, LoopFails, CrashInFinalize, CrashInDelete, vars, history
<1> SUFFICES ASSUME NEW b \in Batches, b \notin torn' PROVE BookOf(b)' /\ AccountOf(b)'
  BY DEF BookOf, AccountOf
<1> b \notin torn
  BY <1>0
<1>1. ASSUME Poll PROVE BookOf(b)' /\ AccountOf(b)'
  <2>1. PollStarts(b) \/ PollLeaves(b)
    BY <1>1, PollEffect
  <2>2. lines' = lines
    BY <1>1, PollEffect
  <2>3. CASE PollStarts(b)
    <3>1. /\ status[b] # "gone" /\ status'[b] = "in_progress"
          /\ pos'[b] = 1 /\ got'[b] = Nothing /\ counts'[b].total = lines'[b]
      BY <2>2, <2>3 DEF PollStarts, Recovered, Stale
    <3>2. \A i \in Line : i > lines'[b] => ck'[b][i] = "none"
      BY <2>2, <2>3, <3>1 DEF PollStarts, BookOf, LinesOf
    <3>3. \A i \in Line : i >= pos'[b] /\ got'[b][i] = "none"
      BY <3>1 DEF Line, Nothing
    <3>4. \A i \in Line : ~(i < pos'[b])
      BY <3>1 DEF Line
    <3> QED BY <3>1, <3>2, <3>3, <3>4 DEF BookOf, AccountOf
  <2>4. CASE PollLeaves(b)
    <3>1. CASE status'[b] = status[b] /\ files'[b] = files[b] /\ counts'[b] = counts[b]
      BY <2>2, <2>4, <3>1, BookKept DEF PollLeaves
    <3>2. CASE status[b] = "cancelling" /\ status'[b] = "cancelled" /\ counts'[b] = counts[b]
      <4>1. BookOf(b)'
        BY <2>2, <2>4, <3>2, BookMoves DEF PollLeaves
      <4> QED BY <3>2, <4>1 DEF AccountOf
    <3>3. CASE \/ Stale(b) /\ status'[b] = "failed"
               \/ Recovered(b) = "validating" /\ status'[b] \in {"validating", "failed", "expired"}
      <4>1. /\ status[b] \in {"validating", "in_progress", "finalizing"} /\ pc[b] = "idle"
            /\ status'[b] \in {"validating", "failed", "expired"}
        BY <3>3 DEF Recovered, Stale, LoopOwnsBatch
      <4>2. BookOf(b)'
        BY <2>2, <2>4, <4>1, BookMoves DEF PollLeaves
      <4> QED BY <4>1, <4>2 DEF AccountOf
    <3> QED BY <2>4, <3>1, <3>2, <3>3 DEF PollLeaves
  <2> QED BY <2>1, <2>3, <2>4
<1>2. ASSUME Crash PROVE BookOf(b)' /\ AccountOf(b)'
  BY <1>2, BookKept DEF Crash, Restart, rows
<1>3. ASSUME NEW c \in Batches, Routes(c) PROVE BookOf(b)' /\ AccountOf(b)'
  <2>1. CASE b # c
    <3>1. /\ status'[b] = status[b] /\ lines'[b] = lines[b] /\ ck'[b] = ck[b]
          /\ counts'[b] = counts[b] /\ files'[b] = files[b]
      <4>1. CASE Create(c)
        <5>1. PICK n \in Sizes[c] : lines' = [lines EXCEPT ![c] = n]
          BY <4>1, Zenon DEF Create
        <5> QED BY <2>1, <4>1, <5>1 DEF Create
      <4> QED BY <1>3, <2>1, <4>1 DEF Routes, Cancel, Delete, DeleteInput
    <3>2. pc' = pc /\ pos' = pos /\ got' = got
      BY <1>3 DEF Routes, Create, Cancel, Delete, DeleteInput, process
    <3> QED BY <3>1, <3>2, BookKept
  <2>2. CASE b = c
    <3>1. CASE Create(b)
      <4>1. /\ status[b] = "new" /\ status'[b] = "validating" /\ ck' = ck /\ pc'[b] = "idle"
        BY <3>1 DEF Create, process, LoopOwnsBatch
      <4> QED BY <4>1 DEF BookOf, AccountOf
    <3>2. CASE Cancel(b)
      <4>1. BookOf(b)'
        BY <3>2, BookMoves DEF Cancel, process
      <4> QED BY <3>2, <4>1 DEF Cancel, AccountOf
    <3>3. CASE Delete(b)
      BY <3>3 DEF Delete, BookOf, AccountOf
    <3>4. CASE DeleteInput(b)
      BY <3>4, BookKept DEF DeleteInput, process
    <3> QED BY <1>3, <2>2, <3>1, <3>2, <3>3, <3>4 DEF Routes
  <2> QED BY <2>1, <2>2
<1>4. ASSUME NEW c \in Batches, Loop(c) PROVE BookOf(b)' /\ AccountOf(b)'
  <2> USE DEF rows, history, LinesOf
  <2>0. lines' = lines /\ (b # c => status'[b] = status[b])
    BY <1>4 DEF Loop, Recover, Throttle, Dispatch, Retry, Answer, Finalize
  <2>1. CASE b # c
    <3>1. /\ ck'[b] = ck[b] /\ counts'[b] = counts[b] /\ files'[b] = files[b]
          /\ pc'[b] = pc[b] /\ pos'[b] = pos[b] /\ got'[b] = got[b]
      BY <1>4, <2>1 DEF Loop, Recover, Throttle, Dispatch, Retry, Answer, Finalize, Mark, Settle, LoopEnds
    <3> QED BY <2>0, <2>1, <3>1, BookKept
  <2>2. ASSUME b = c, NEW outcome \in Outcome, Mark(b, outcome), Settle(b, outcome),
               pos[b] \in LinesOf(b), pc[b] # "idle", status' = status
        PROVE  BookOf(b)' /\ AccountOf(b)'
    <3>0. pos[b] \in Line /\ status[b] # "completed" /\ status[b] # "new"
      BY <2>2, LinesFit DEF LoopOwnsBatch
    <3> SUFFICES ASSUME status[b] # "gone" PROVE BookOf(b)'
      BY <2>2, <3>0 DEF BookOf, AccountOf
    <3>1. /\ ck'[b] = [ck[b] EXCEPT ![pos[b]] = outcome]
          /\ got'[b] = [got[b] EXCEPT ![pos[b]] = outcome]
          /\ pos'[b] = pos[b] + 1 /\ counts'[b].total = counts[b].total
      BY <2>2, <3>0 DEF Mark, Settle, CountsOf
    <3>2. counts[b].total = lines[b]
      BY <2>2 DEF BookOf
    <3>3. \A i \in Line : i > lines'[b] => ck'[b][i] = "none"
      BY <2>0, <2>2, <3>1 DEF BookOf
    <3>4. ASSUME NEW i \in Line, i < pos'[b]
          PROVE  i \in 1..lines'[b] /\ ck'[b][i] \in Outcome /\ got'[b][i] = ck'[b][i]
      <4>1. CASE i = pos[b]
        BY <2>0, <2>2, <3>0, <3>1, <4>1
      <4>2. CASE i # pos[b]
        <5>1. i < pos[b]
          BY <3>1, <3>4, <4>2, SMTT(30) DEF Line
        <5> QED BY <2>0, <2>2, <3>0, <3>1, <4>2, <5>1 DEF BookOf
      <4> QED BY <4>1, <4>2
    <3>5. ASSUME NEW i \in Line, i >= pos'[b] PROVE got'[b][i] = "none"
      <4>1. i >= pos[b] /\ i # pos[b]
        BY <3>1, <3>5, SMTT(30) DEF Line
      <4> QED BY <2>2, <3>0, <3>1, <4>1 DEF BookOf
    <3> QED BY <2>0, <2>2, <3>0, <3>1, <3>2, <3>3, <3>4, <3>5 DEF BookOf
  <2>3. CASE b = c /\ Recover(c)
    <3>1. PICK outcome \in Outcome : Mark(b, outcome) /\ Settle(b, outcome)
      BY <2>3 DEF Recover, Outcome
    <3>2. pos[b] \in LinesOf(b) /\ pc[b] # "idle" /\ status' = status
      BY <2>3 DEF Recover, AtItem
    <3> QED BY <2>2, <2>3, <3>1, <3>2
  <2>4. CASE b = c /\ Answer(c)
    <3>1. PICK outcome \in Outcome : Mark(b, outcome) /\ Settle(b, outcome)
      BY <2>4 DEF Answer
    <3>2. pos[b] \in LinesOf(b) /\ pc[b] # "idle" /\ status' = status
      BY <2>4 DEF Answer, AtLine
    <3> QED BY <2>2, <2>4, <3>1, <3>2
  <2>5. CASE b = c /\ (Throttle(c) \/ Retry(c))
    BY <2>5, BookKept DEF Throttle, Retry, AtItem
  <2>6. CASE b = c /\ Dispatch(c)
    <3>1. /\ pos[b] \in LinesOf(b) /\ pos[b] \in Line /\ pc[b] # "idle" /\ pc'[b] = "sent"
          /\ status' = status /\ pos' = pos /\ got' = got /\ counts' = counts
          /\ status[b] # "completed" /\ status[b] # "new"
      <4>1. pos[b] \in LinesOf(b) /\ pc[b] # "idle" /\ pc'[b] = "sent"
        BY <2>6 DEF Dispatch, AtItem, AtLine
      <4>2. status[b] # "completed" /\ status[b] # "new"
        BY <4>1 DEF LoopOwnsBatch
      <4> QED BY <2>6, <4>1, <4>2, LinesFit DEF Dispatch
    <3>2. \A i \in Line : i # pos[b] => ck'[b][i] = ck[b][i]
      BY <2>6, <3>1 DEF Dispatch, Mark
    <3>3. AccountOf(b)'
      BY <3>1 DEF AccountOf
    <3>4. ASSUME status[b] # "gone", NEW i \in Line
          PROVE  /\ i > lines[b] => ck'[b][i] = "none"
                 /\ i < pos[b] => i \in LinesOf(b) /\ ck'[b][i] \in Outcome /\ got[b][i] = ck'[b][i]
                 /\ i >= pos[b] => got[b][i] = "none"
      <4>1. i \in Nat /\ lines[b] \in Nat /\ pos[b] \in Nat /\ pos[b] <= lines[b]
        BY <3>1 DEF Line
      <4>2. /\ i > lines[b] => ck[b][i] = "none"
            /\ i < pos[b] => i \in LinesOf(b) /\ ck[b][i] \in Outcome /\ got[b][i] = ck[b][i]
            /\ i >= pos[b] => got[b][i] = "none"
        BY <3>1, <3>4 DEF BookOf
      <4>3. i # pos[b] => ck'[b][i] = ck[b][i]
        BY <3>2
      <4> QED BY <4>1, <4>2, <4>3
    <3> QED BY <2>0, <3>1, <3>3, <3>4 DEF BookOf
  <2>7. CASE b = c /\ Finalize(c)
    <3>1. /\ pc'[b] = "idle" /\ ck' = ck /\ pc[b] = "next" /\ status[b] # "new"
      BY <2>7 DEF Finalize, LoopEnds, LoopDone, LoopOwnsBatch
    <3>2. BookOf(b)'
      <4>1. status'[b] # "gone" => status[b] # "gone"
        BY <2>7 DEF Finalize, IsBatchCancelled
      <4>2. status'[b] # "new"
        BY <2>7, <3>1 DEF Finalize, IsBatchCancelled
      <4> QED BY <2>0, <3>1, <4>1, <4>2 DEF BookOf
    <3>3. CASE IsBatchCancelled(b)
      BY <2>7, <3>2, <3>3 DEF Finalize, IsBatchCancelled, AccountOf
    <3>4. CASE ~IsBatchCancelled(b)
      <4>1. /\ status[b] = "in_progress" /\ pos[b] > lines[b]
            /\ files'[b] = [output |-> Succeeded(got[b]), error |-> Failed(got[b])]
            /\ counts'[b] = CountsOf(counts[b].total, got[b])
        BY <2>7, <3>4 DEF Finalize, LoopDone, IsBatchCancelled, LoopOwnsBatch
      <4>2. \A i \in Line : /\ i \in LinesOf(b) => ck[b][i] \in Outcome /\ got[b][i] = ck[b][i]
                            /\ i \notin LinesOf(b) => ck[b][i] = "none" /\ got[b][i] = "none"
        <5> SUFFICES ASSUME NEW i \in Line
                     PROVE  /\ i \in LinesOf(b) => ck[b][i] \in Outcome /\ got[b][i] = ck[b][i]
                            /\ i \notin LinesOf(b) => ck[b][i] = "none" /\ got[b][i] = "none"
          OBVIOUS
        <5>1. CASE i \in LinesOf(b)
          <6>1. i < pos[b]
            BY <4>1, <5>1
          <6> QED BY <3>1, <4>1, <5>1, <6>1, ZenonT(30) DEF BookOf
        <5>2. CASE i \notin LinesOf(b)
          <6>1. i > lines[b] /\ ck[b][i] = "none"
            <7>1. i \in Nat /\ i >= 1 /\ lines[b] \in Nat
              BY DEF Line
            <7>2. i > lines[b]
              BY <5>2, <7>1
            <7> QED BY <4>1, <7>2, ZenonT(30) DEF BookOf
          <6>2. ~(i < pos[b])
            BY <3>1, <4>1, <5>2 DEF BookOf
          <6>3. i >= pos[b]
            BY <6>2 DEF Line
          <6>4. pc[b] # "idle" /\ status[b] # "gone"
            BY <3>1, <4>1
          <6>5. \A j \in Line : j >= pos[b] => got[b][j] = "none"
            BY <6>4 DEF BookOf
          <6> QED BY <5>2, <6>1, <6>3, <6>5
        <5> QED BY <5>1, <5>2
      <4>3. /\ Succeeded(got[b]) = {i \in Line : ck[b][i] = "ok"}
            /\ Failed(got[b]) = {i \in Line : ck[b][i] \in {"bad", "errored"}}
        BY <4>2, ZenonT(30) DEF Succeeded, Failed, Outcome
      <4>4. LinesOf(b) \subseteq Line
        BY DEF Line
      <4>5. Succeeded(got[b]) \cup Failed(got[b]) = LinesOf(b)
        BY <4>2, <4>3, <4>4 DEF Outcome
      <4>6. counts[b].total = lines[b]
        BY <3>1, <4>1 DEF BookOf
      <4> QED BY <2>0, <3>1, <3>2, <4>1, <4>3, <4>5, <4>6 DEF AccountOf, CountsOf
    <3> QED BY <3>3, <3>4
  <2> QED BY <1>4, <2>1, <2>3, <2>4, <2>5, <2>6, <2>7 DEF Loop
<1>5. ASSUME NEW c \in Batches, LoopFails(c) PROVE BookOf(b)' /\ AccountOf(b)'
  <2>1. CASE b # c
    BY <1>5, <2>1, BookKept DEF LoopFails, LoopEnds
  <2>2. CASE b = c
    <3>1. /\ lines' = lines /\ ck' = ck /\ pc'[b] = "idle" /\ status[b] # "new"
          /\ status'[b] = IF status[b] = "gone" THEN "gone" ELSE "failed"
      BY <1>5, <2>2 DEF LoopFails, LoopEnds, LoopOwnsBatch
    <3> QED BY <3>1 DEF BookOf, AccountOf
  <2> QED BY <2>1, <2>2
<1>6. ASSUME NEW c \in Batches, CrashInFinalize(c) PROVE BookOf(b)' /\ AccountOf(b)'
  <2>1. CASE b # c
    BY <1>6, <2>1, BookKept DEF CrashInFinalize, Restart
  <2>2. CASE b = c
    <3>1. /\ lines' = lines /\ ck' = ck /\ pc'[b] = "idle" /\ status[b] # "new"
          /\ status[b] # "gone" /\ status'[b] = "finalizing"
      BY <1>6, <2>2 DEF CrashInFinalize, Restart, LoopDone, IsBatchCancelled, LoopOwnsBatch
    <3> QED BY <3>1 DEF BookOf, AccountOf
  <2> QED BY <2>1, <2>2
<1>7. ASSUME NEW c \in Batches, CrashInDelete(c) PROVE BookOf(b)' /\ AccountOf(b)'
  <2>1. b # c
    BY <1>7 DEF CrashInDelete
  <2> QED BY <1>7, <2>1, BookKept DEF CrashInDelete, Restart
<1>8. ASSUME UNCHANGED vars PROVE BookOf(b)' /\ AccountOf(b)'
  BY <1>8, BookKept DEF vars, rows, process
<1> QED BY <1>1, <1>2, <1>3, <1>4, <1>5, <1>6, <1>7, <1>8 DEF Next

\* A completed batch accounts for every line exactly once (finalizeBatch over
\* the results of this life and the checkpoints of earlier ones), until it is
\* deleted or a crash leaves it deleted in part (deleteBatch).
THEOREM CompletedAccountsHolds == Spec => []CompletedAccounts
<1> DEFINE Books == \A b \in Batches : BookOf(b) /\ AccountOf(b)
<1>1. Init => Books
  BY DEF Init, Nothing, BookOf, AccountOf
<1>2. IInv /\ Books /\ [Next]_vars => Books'
  BY BookStep
<1>3. Books => CompletedAccounts
  BY DEF AccountOf, CompletedAccounts
<1> QED BY <1>1, <1>2, <1>3, Invariant, PTL DEF Spec

-----------------------------------------------------------------------------
(* The abstract ledger.                                                    *)

\* A checkpoint says "processing", or more, only of a line that was sent; a
\* loop that waits for an answer has marked its line; a row names files only
\* when its batch is completed.
LinkOf(b) ==
  /\ \A i \in Line : ck[b][i] \notin {"none", "pending"} => sentIn[b][i] # {}
  /\ pc[b] = "sent" /\ status[b] # "gone" => ck[b][pos[b]] = "processing"
  /\ status[b] # "completed" => files[b] = NoFiles

\* A tick of the poll loop neither completes a batch nor gives one files.
LEMMA PollFiles ==
  ASSUME TypeOK, Poll, NEW b \in Batches
  PROVE  /\ files'[b] \in {files[b], NoFiles}
         /\ status'[b] = "completed" <=> status[b] = "completed"
         /\ status[b] = "completed" => files'[b] = files[b]
<1>1. PICK S \in SUBSET Batches, late \in SUBSET Waiting :
        /\ Admitted(S)
        /\ status' = [c \in Batches |->
             IF c \in S THEN IF input[c] = "good" THEN "in_progress" ELSE "failed"
             ELSE IF c \in late THEN "expired"
             ELSE IF status[c] = "cancelling" THEN "cancelled"
             ELSE Recovered(c)]
        /\ files' = [c \in Batches |-> IF Stale(c) /\ ~Unrecoverable(c) THEN NoFiles ELSE files[c]]
  BY Zenon DEF Poll
<1>2. b \in S \cup late => status[b] # "completed"
  BY <1>1 DEF Admitted, Waiting, Recovered, Stale
<1> QED BY <1>1, <1>2 DEF Recovered, Stale

\* A step that leaves a batch alone keeps its links; a line that was sent stays
\* sent.
LEMMA LinkKept ==
  ASSUME NEW b \in Batches, LinkOf(b), ck'[b] = ck[b], files'[b] = files[b],
         \A i \in Line : sentIn[b][i] # {} => sentIn'[b][i] # {},
         status'[b] = "completed" <=> status[b] = "completed",
         pc'[b] = "sent" => /\ pc[b] = "sent" /\ pos'[b] = pos[b]
                            /\ status[b] = "gone" => status'[b] = "gone"
  PROVE  LinkOf(b)'
BY DEF LinkOf

LEMMA LinkStep ==
  ASSUME IInv, [Next]_vars, \A b \in Batches : LinkOf(b)
  PROVE  \A b \in Batches : LinkOf(b)'
<1> USE BoundsAssumption DEF IInv, TypeOK
<1> SUFFICES ASSUME NEW b \in Batches PROVE LinkOf(b)'
  OBVIOUS
<1> LinkOf(b)
  OBVIOUS
<1>1. ASSUME Poll PROVE LinkOf(b)'
  <2>1. PollStarts(b) \/ PollLeaves(b)
    BY <1>1, PollEffect
  <2>2. sentIn' = sentIn
    BY <1>1, PollEffect DEF history
  <2>3. /\ files'[b] \in {files[b], NoFiles}
        /\ status'[b] = "completed" <=> status[b] = "completed"
        /\ status[b] = "completed" => files'[b] = files[b]
    BY <1>1, PollFiles
  <2>4. status'[b] # "completed" => files'[b] = NoFiles
    BY <2>3 DEF LinkOf
  <2>5. CASE PollStarts(b)
    BY <2>2, <2>4, <2>5 DEF PollStarts, LinkOf
  <2>6. CASE PollLeaves(b)
    <3>1. status[b] = "gone" => status'[b] = "gone"
      BY <2>6 DEF PollLeaves, Recovered, Stale
    <3> QED BY <2>2, <2>4, <2>6, <3>1 DEF PollLeaves, LinkOf
  <2> QED BY <2>1, <2>5, <2>6
<1>2. ASSUME Crash PROVE LinkOf(b)'
  BY <1>2, LinkKept DEF Crash, Restart, rows
<1>3. ASSUME NEW c \in Batches, Routes(c) PROVE LinkOf(b)'
  <2>1. CASE Delete(c)
    BY <2>1 DEF Delete, LinkOf, Nothing, process, history
  <2>2. CASE Create(c) \/ Cancel(c) \/ DeleteInput(c)
    <3>1. /\ ck' = ck /\ files' = files /\ sentIn' = sentIn /\ pc' = pc /\ pos' = pos
          /\ status'[b] = "completed" <=> status[b] = "completed"
          /\ status[b] = "gone" => status'[b] = "gone"
      BY <2>2 DEF Create, Cancel, DeleteInput, process, history
    <3> QED BY <3>1, LinkKept
  <2> QED BY <1>3, <2>1, <2>2 DEF Routes
<1>4. ASSUME NEW c \in Batches, Loop(c) PROVE LinkOf(b)'
  <2> USE DEF rows, history
  <2>1. ASSUME NEW outcome \in Outcome, Mark(c, outcome), Settle(c, outcome),
               sentIn[c][pos[c]] # {}, sentIn' = sentIn, status' = status, files' = files
        PROVE  LinkOf(b)'
    <3>1. CASE b # c
      <4>1. ck'[b] = ck[b] /\ pc'[b] = pc[b] /\ pos'[b] = pos[b]
        BY <2>1, <3>1 DEF Mark, Settle
      <4> QED BY <2>1, <4>1, LinkKept
    <3>2. CASE b = c
      <4>1. /\ pc'[b] = "next"
            /\ \A i \in Line : i # pos[b] => ck'[b][i] = ck[b][i]
        BY <2>1, <3>2 DEF Mark, Settle
      <4> QED BY <2>1, <3>2, <4>1 DEF LinkOf
    <3> QED BY <3>1, <3>2
  <2>2. CASE Recover(c)
    <3>1. PICK outcome \in Outcome : Mark(c, outcome) /\ Settle(c, outcome)
      BY <2>2 DEF Recover, Outcome
    <3>2. pos[c] \in Line /\ ck[c][pos[c]] \notin {"none", "pending"}
      BY <2>2 DEF Recover, AtItem, Line, Outcome
    <3>3. sentIn[c][pos[c]] # {}
      BY <3>2 DEF LinkOf
    <3> QED BY <2>1, <2>2, <3>1, <3>3 DEF Recover
  <2>3. CASE Answer(c)
    <3>1. PICK outcome \in Outcome : Mark(c, outcome) /\ Settle(c, outcome)
      BY <2>3 DEF Answer
    <3>2. sentIn[c][pos[c]] # {}
      BY <2>3 DEF Answer, SentIsMarked
    <3> QED BY <2>1, <2>3, <3>1, <3>2 DEF Answer
  <2>4. CASE Throttle(c)
    BY <2>4, LinkKept DEF Throttle
  <2>5. CASE Retry(c)
    <3>1. \A i \in Line : sentIn[b][i] # {} => sentIn'[b][i] # {}
      BY <2>5 DEF Retry
    <3> QED BY <2>5, <3>1, LinkKept DEF Retry
  <2>6. CASE Dispatch(c)
    <3>1. /\ pos[c] \in Line
          /\ \A i \in Line : sentIn[b][i] # {} => sentIn'[b][i] # {}
          /\ sentIn'[c][pos[c]] # {}
      <4>1. pos[c] \in Line
        BY <2>6 DEF Dispatch, AtItem, AtLine, LinesOf, Line
      <4> QED BY <2>6, <4>1 DEF Dispatch
    <3>2. CASE b # c
      <4>1. ck'[b] = ck[b] /\ pc'[b] = pc[b]
        BY <2>6, <3>2 DEF Dispatch, Mark
      <4> QED BY <2>6, <3>1, <4>1, LinkKept DEF Dispatch
    <3>3. CASE b = c
      <4>1. /\ \A i \in Line : i # pos[b] => ck'[b][i] = ck[b][i]
            /\ status[b] # "gone" => ck'[b][pos[b]] = "processing"
            /\ status[b] = "gone" => ck' = ck
        BY <2>6, <3>1, <3>3 DEF Dispatch, Mark
      <4>2. /\ pos' = pos /\ status' = status /\ files' = files
        BY <2>6 DEF Dispatch
      <4> QED BY <3>1, <3>3, <4>1, <4>2 DEF LinkOf
    <3> QED BY <3>2, <3>3
  <2>7. CASE Finalize(c)
    <3>1. /\ ck' = ck /\ sentIn' = sentIn
          /\ pc'[b] = (IF b = c THEN "idle" ELSE pc[b]) /\ (b # c => pos'[b] = pos[b])
      BY <2>7 DEF Finalize, LoopEnds
    <3>2. CASE b = c
      <4>1. status'[b] # "completed" => files'[b] = NoFiles
        BY <2>7, <3>2 DEF Finalize, LinkOf, IsBatchCancelled
      <4> QED BY <3>1, <3>2, <4>1 DEF LinkOf
    <3>3. CASE b # c
      <4>1. status'[b] = status[b] /\ files'[b] = files[b]
        BY <2>7, <3>3 DEF Finalize
      <4> QED BY <3>1, <3>3, <4>1, LinkKept
    <3> QED BY <3>2, <3>3
  <2> QED BY <1>4, <2>2, <2>3, <2>4, <2>5, <2>6, <2>7 DEF Loop
<1>5. ASSUME NEW c \in Batches, LoopFails(c) PROVE LinkOf(b)'
  <2>1. status[c] # "completed"
    BY <1>5 DEF LoopFails, LoopOwnsBatch
  <2>2. /\ ck' = ck /\ sentIn' = sentIn /\ files' = files
        /\ pc'[b] = (IF b = c THEN "idle" ELSE pc[b]) /\ (b # c => pos'[b] = pos[b])
        /\ status'[b] = "completed" <=> status[b] = "completed"
        /\ status[b] = "gone" => status'[b] = "gone"
    BY <1>5, <2>1 DEF LoopFails, LoopEnds, history
  <2> QED BY <2>2, LinkKept
<1>6. ASSUME NEW c \in Batches, CrashInFinalize(c) PROVE LinkOf(b)'
  <2>1. status[c] # "completed"
    BY <1>6 DEF CrashInFinalize, LoopDone, LoopOwnsBatch
  <2>2. /\ ck' = ck /\ sentIn' = sentIn /\ files' = files /\ pc'[b] = "idle"
        /\ status'[b] = "completed" <=> status[b] = "completed"
    BY <1>6, <2>1 DEF CrashInFinalize, Restart
  <2> QED BY <2>2, LinkKept
<1>7. ASSUME NEW c \in Batches, CrashInDelete(c) PROVE LinkOf(b)'
  <2>1. /\ status' = status /\ sentIn' = sentIn /\ pc'[b] = "idle"
        /\ ck'[b] = IF b = c THEN Nothing ELSE ck[b]
    BY <1>7 DEF CrashInDelete, Restart
  <2>2. files[b] = NoFiles => files'[b] = NoFiles
    <3>1. PICK n \in 0..3 :
            files' = [files EXCEPT ![c] = [output |-> IF n >= 2 THEN {} ELSE @.output,
                                           error |-> IF n = 3 THEN {} ELSE @.error]]
      BY <1>7, Zenon DEF CrashInDelete
    <3>2. CASE b = c
      <4>1. files'[b] = [output |-> IF n >= 2 THEN {} ELSE files[b].output,
                         error |-> IF n = 3 THEN {} ELSE files[b].error]
        BY <3>1, <3>2
      <4>2. files[b] = NoFiles => files[b].output = {} /\ files[b].error = {}
        BY DEF NoFiles
      <4> QED BY <4>1, <4>2 DEF NoFiles
    <3>3. CASE b # c
      BY <3>1, <3>3
    <3> QED BY <3>2, <3>3
  <2> QED BY <2>1, <2>2 DEF LinkOf, Nothing
<1>8. ASSUME UNCHANGED vars PROVE LinkOf(b)'
  BY <1>8, LinkKept DEF vars, rows, process, history
<1> QED BY <1>1, <1>2, <1>3, <1>4, <1>5, <1>6, <1>7, <1>8 DEF Next

\* The fate of a line depends on its checkpoint once it was sent.
LEMMA FateStays ==
  ASSUME NEW b \in Batches, NEW i \in Line,
         sentIn'[b][i] = {} <=> sentIn[b][i] = {},
         sentIn[b][i] # {} => ck'[b][i] = ck[b][i],
         status'[b] = "gone" <=> status[b] = "gone"
  PROVE  FateOf(b, i)' = FateOf(b, i)
BY DEF FateOf

\* The view of a step that changes the fate of no line, or of one.
LEMMA FatesStay ==
  ASSUME \A b \in Batches, i \in Line : FateOf(b, i)' = FateOf(b, i)
  PROVE  Fates' = Fates
BY DEF Fates

LEMMA FateMoves ==
  ASSUME NEW b \in Batches, NEW i \in Line, NEW v,
         \A c \in Batches, j \in Line : c # b \/ j # i => FateOf(c, j)' = FateOf(c, j),
         FateOf(b, i)' = v
  PROVE  Fates' = [Fates EXCEPT ![b][i] = v]
BY DEF Fates

\* The same for the phase of a batch.
LEMMA PhasesStay ==
  ASSUME \A b \in Batches : PhaseOf(b)' = PhaseOf(b)
  PROVE  Phases' = Phases
BY DEF Phases

LEMMA PhaseMoves ==
  ASSUME NEW b \in Batches, NEW v,
         \A c \in Batches : c # b => PhaseOf(c)' = PhaseOf(c),
         PhaseOf(b)' = v
  PROVE  Phases' = [Phases EXCEPT ![b] = v]
BY DEF Phases

LEMMA View ==
  ASSUME NEW b \in Batches
  PROVE  /\ Phases[b] = PhaseOf(b)
         /\ \A i \in Line : Fates[b][i] = FateOf(b, i)
         /\ Lates[b] = (lateSent[b] # {})
BY DEF Phases, Fates, Lates

Linked == /\ IInv
          /\ \A b \in Batches : BookOf(b) /\ AccountOf(b)
          /\ \A b \in Batches : LinkOf(b)

\* A tick of the poll loop fails open batches, or does nothing the owner sees.
LEMMA PollRefines == ASSUME Linked, Poll PROVE [Ledger!LedgerNext]_(Ledger!ledgerVars)
<1> USE DEF Linked, IInv
<1>1. /\ \A b \in Batches : PollStarts(b) \/ PollLeaves(b)
      /\ lines' = lines /\ sentIn' = sentIn /\ lateSent' = lateSent
  BY PollEffect DEF history
<1>2. files' = files
  <2>1. \A b \in Batches : files'[b] = files[b]
    BY PollFiles DEF LinkOf
  <2>2. DOMAIN files' = Batches /\ files' = [b \in Batches |-> files'[b]]
    BY DEF Poll
  <2> QED BY <2>1, <2>2 DEF TypeOK
<1>3. Lates' = Lates
  BY <1>1 DEF Lates
<1>4. Fates' = Fates
  <2>1. ASSUME NEW b \in Batches, NEW i \in Line PROVE FateOf(b, i)' = FateOf(b, i)
    <3>1. status'[b] = "gone" <=> status[b] = "gone"
      BY <1>1 DEF PollStarts, PollLeaves, Recovered, Stale
    <3>2. ck'[b][i] \in Outcome \/ ck[b][i] \in Outcome => ck'[b][i] = ck[b][i]
      BY <1>1 DEF PollStarts, PollLeaves, Outcome
    <3> QED BY <1>1, <3>1, <3>2 DEF FateOf
  <2> QED BY <2>1, FatesStay
<1>5. \A b \in Batches : \/ PhaseOf(b)' = PhaseOf(b)
                         \/ PhaseOf(b) = "open" /\ PhaseOf(b)' = "failed"
  BY <1>1 DEF PollStarts, PollLeaves, Recovered, Stale, PhaseOf
<1> DEFINE S == {b \in Batches : PhaseOf(b) = "open" /\ PhaseOf(b)' = "failed"}
<1>6. Phases' = [b \in Batches |-> IF b \in S THEN "failed" ELSE Phases[b]]
  BY <1>5, View DEF Phases
<1>7. CASE S = {}
  <2>1. Phases' = Phases
    BY <1>6, <1>7 DEF Phases
  <2> QED BY <1>1, <1>2, <1>3, <1>4, <2>1 DEF Ledger!ledgerVars
<1>8. CASE S # {}
  <2>1. S \in SUBSET Batches /\ \A b \in S : Phases[b] = "open"
    BY View
  <2> HIDE DEF S
  <2>2. Ledger!Fail(S)
    BY <1>1, <1>2, <1>3, <1>4, <1>6, <1>8, <2>1 DEF Ledger!Fail
  <2> QED BY <2>1, <2>2 DEF Ledger!LedgerNext
<1> QED BY <1>7, <1>8

\* The checkpoints of a batch are deleted: its outcomes are forgotten.
LEMMA Forgets ==
  ASSUME TypeOK, NEW b \in Batches, sentIn' = sentIn, ck'[b] = Nothing,
         \A c \in Batches : c # b => ck'[c] = ck[c] /\ status'[c] = status[c]
  PROVE  Ledger!Forget(b)
<1>1. \A c \in Batches, j \in Line : c # b => FateOf(c, j)' = FateOf(c, j)
  BY DEF FateOf
<1>2. \A j \in Line : FateOf(b, j)' = IF sentIn[b][j] = {} THEN "unsent" ELSE "sent"
  BY DEF FateOf, Nothing, Outcome
<1>3. \A j \in Line : FateOf(b, j) = "unsent" <=> sentIn[b][j] = {}
  BY DEF FateOf, Outcome
<1>4. \A j \in Line : FateOf(b, j)' = IF Fates[b][j] = "unsent" THEN "unsent" ELSE "sent"
  BY <1>2, <1>3, View
<1>5. Fates' = [Fates EXCEPT ![b] =
        [i \in Line |-> IF Fates[b][i] = "unsent" THEN "unsent" ELSE "sent"]]
  BY <1>1, <1>4, ZenonT(30) DEF Fates
<1> QED BY <1>5 DEF Ledger!Forget, Line

\* The routes open, cancel and drop batches.
LEMMA RoutesRefine ==
  ASSUME Linked, NEW b \in Batches, Routes(b) PROVE [Ledger!LedgerNext]_(Ledger!ledgerVars)
<1> USE DEF Linked, IInv
<1>1. lateSent' = lateSent /\ sentIn' = sentIn
  BY DEF Routes, Create, Cancel, Delete, DeleteInput, history
<1>2. Lates' = Lates
  BY <1>1 DEF Lates
<1>3. \A c \in Batches : c # b => status'[c] = status[c]
  BY DEF Routes, Create, Cancel, Delete, DeleteInput, TypeOK
<1>4. \A c \in Batches : c # b => PhaseOf(c)' = PhaseOf(c)
  BY <1>3 DEF PhaseOf
<1>5. CASE Create(b)
  <2>1. PICK n \in Sizes[b] : lines' = [lines EXCEPT ![b] = n]
    BY <1>5, Zenon DEF Create
  <2>2. n \in 0..MaxLines
    BY BoundsAssumption
  <2>3. /\ status[b] = "new" /\ status'[b] = "validating" /\ files' = files /\ ck' = ck
    BY <1>5 DEF Create, TypeOK
  <2>4. Fates' = Fates
    BY <1>1, <1>3, <2>3, FateStays, FatesStay
  <2>5. Phases[b] = "new" /\ Phases' = [Phases EXCEPT ![b] = "open"]
    <3>1. PhaseOf(b) = "new" /\ PhaseOf(b)' = "open"
      BY <2>3 DEF PhaseOf
    <3> QED BY <1>4, <3>1, PhaseMoves, View
  <2>6. Ledger!Open(b)
    BY <1>1, <1>2, <2>1, <2>2, <2>3, <2>4, <2>5 DEF Ledger!Open
  <2> QED BY <2>6 DEF Ledger!LedgerNext
<1>6. CASE Cancel(b)
  <2>1. /\ status[b] \in {"validating", "in_progress", "finalizing"} /\ status'[b] = "cancelling"
        /\ files' = files /\ ck' = ck /\ lines' = lines
    BY <1>6 DEF Cancel, TypeOK
  <2>2. Fates' = Fates
    BY <1>1, <1>3, <2>1, FateStays, FatesStay
  <2>3. Phases[b] = "open" /\ Phases' = [Phases EXCEPT ![b] = "cancelled"]
    <3>1. PhaseOf(b) = "open" /\ PhaseOf(b)' = "cancelled"
      BY <2>1 DEF PhaseOf
    <3> QED BY <1>4, <3>1, PhaseMoves, View
  <2>4. Ledger!Revoke(b)
    BY <1>1, <1>2, <2>1, <2>2, <2>3 DEF Ledger!Revoke
  <2> QED BY <2>4 DEF Ledger!LedgerNext
<1>7. CASE Delete(b)
  <2>1. /\ status[b] \in TERMINAL /\ status'[b] = "gone"
        /\ files' = [files EXCEPT ![b] = NoFiles]
        /\ ck' = [ck EXCEPT ![b] = Nothing] /\ lines' = lines
    BY <1>7 DEF Delete, TypeOK
  <2>2. Ledger!Forget(b)
    <3>1. \A c \in Batches : c # b => ck'[c] = ck[c] /\ status'[c] = status[c]
      BY <1>3, <2>1 DEF TypeOK
    <3>2. ck'[b] = Nothing
      BY <2>1 DEF TypeOK
    <3> QED BY <1>1, <3>1, <3>2, Forgets
  <2>5. Phases[b] \in {"cancelled", "completed", "failed"} /\ Phases' = [Phases EXCEPT ![b] = "gone"]
    <3>1. PhaseOf(b) \in {"cancelled", "completed", "failed"} /\ PhaseOf(b)' = "gone"
      BY <2>1 DEF PhaseOf, TERMINAL
    <3> QED BY <1>4, <3>1, PhaseMoves, View
  <2>6. Ledger!Drop(b)
    BY <1>1, <1>2, <2>1, <2>2, <2>5 DEF Ledger!Drop, NoFiles
  <2> QED BY <2>6 DEF Ledger!LedgerNext
<1>8. CASE DeleteInput(b)
  <2>1. files' = files /\ ck' = ck /\ lines' = lines /\ status' = status
    BY <1>8 DEF DeleteInput
  <2>2. Fates' = Fates
    BY <1>1, <2>1, FateStays, FatesStay
  <2>3. Phases' = Phases
    BY <2>1 DEF Phases, PhaseOf
  <2> QED BY <1>1, <1>2, <2>1, <2>2, <2>3 DEF Ledger!ledgerVars
<1> QED BY <1>5, <1>6, <1>7, <1>8 DEF Routes

\* An item that is settled: the line's fate becomes the outcome, unless the row
\* is gone and nothing is known of it.
LEMMA SettleRefines ==
  ASSUME Linked, NEW b \in Batches, NEW i \in Line, NEW outcome \in Outcome,
         pos[b] = i, Mark(b, outcome), sentIn[b][i] # {},
         status[b] \in {"in_progress", "cancelling", "cancelled", "gone"},
         status[b] = "gone" \/ ck[b][i] \in {"processing", outcome},
         UNCHANGED <<status, lines, files, sentIn, lateSent>>
  PROVE  [Ledger!LedgerNext]_(Ledger!ledgerVars)
<1> USE DEF Linked, IInv
<1>1. Phases' = Phases /\ Lates' = Lates
  BY DEF Phases, PhaseOf, Lates
<1>2. CASE status[b] = "gone" \/ ck[b][i] = outcome
  <2>1. ck' = ck
    <3>1. CASE status[b] = "gone"
      BY <3>1 DEF Mark
    <3>2. CASE ck[b][i] = outcome
      BY <3>2 DEF Mark, TypeOK
    <3> QED BY <1>2, <3>1, <3>2
  <2>2. Fates' = Fates
    BY <2>1, FateStays, FatesStay
  <2> QED BY <1>1, <2>2 DEF Ledger!ledgerVars
<1>3. CASE status[b] # "gone" /\ ck[b][i] = "processing"
  <2>1. ck' = [ck EXCEPT ![b][i] = outcome]
    BY <1>3 DEF Mark
  <2>2. \A c \in Batches, j \in Line : c # b \/ j # i => ck'[c][j] = ck[c][j]
    BY <2>1 DEF TypeOK
  <2>3. \A c \in Batches, j \in Line : c # b \/ j # i => FateOf(c, j)' = FateOf(c, j)
    BY <2>2 DEF FateOf
  <2>4. ck'[b][i] = outcome
    BY <2>1 DEF TypeOK
  <2>5. FateOf(b, i)' = outcome
    BY <1>3, <2>4 DEF FateOf, Outcome
  <2>6. Fates' = [Fates EXCEPT ![b][i] = outcome]
    BY <2>3, <2>5, FateMoves
  <2>7. Fates[b][i] = "sent"
    BY <1>3, View DEF FateOf, Outcome
  <2>8. Phases[b] \in {"open", "cancelled"}
    BY <1>3, View DEF PhaseOf
  <2>9. Ledger!Conclude(b, i)
    BY <1>1, <2>6, <2>7, <2>8 DEF Ledger!Conclude, Ledger!Ended, Outcome
  <2> QED BY <2>9 DEF Ledger!LedgerNext, Line
<1> QED BY <1>2, <1>3

\* A request that is sent: the line was not sent before, and if the batch is
\* cancelled, no other line was sent since.
LEMMA DispatchRefines ==
  ASSUME Linked, NEW b \in Batches, Dispatch(b) PROVE [Ledger!LedgerNext]_(Ledger!ledgerVars)
<1> USE DEF Linked, IInv
<1>1. PICK i \in Line : pos[b] = i /\ i \in LinesOf(b)
  <2>1. pos[b] \in Nat \ {0} /\ lines[b] \in Nat
    BY BoundsAssumption DEF TypeOK
  <2>2. pos[b] \in LinesOf(b)
    BY <2>1 DEF Dispatch, AtItem, AtLine, LinesOf
  <2> QED BY <2>2, LinesFit
<1>2. /\ pc[b] # "idle" /\ sentIn[b][i] = {}
      /\ status[b] # "in_progress" => lateSent[b] = {}
  <2>1. CASE AtItem(b) /\ ck[b][pos[b]] \in {"none", "pending"}
    BY <1>1, <2>1 DEF AtItem, IsBatchCancelled, SentIsMarked, LoopOwnsBatch, TornIsOver
  <2>2. CASE pc[b] = "throttle"
    BY <1>1, <2>2 DEF SentIsMarked, LateIsLast
  <2> QED BY <2>1, <2>2 DEF Dispatch
<1>3. status[b] \in {"in_progress", "cancelling", "cancelled", "gone"}
  BY <1>2 DEF LoopOwnsBatch
<1>4. /\ status' = status /\ lines' = lines /\ files' = files
      /\ sentIn' = [sentIn EXCEPT ![b][i] = @ \cup {life}]
      /\ lateSent' = [lateSent EXCEPT ![b] = IF status[b] # "in_progress" THEN @ \cup {i} ELSE @]
      /\ ck' = IF status[b] = "gone" THEN ck ELSE [ck EXCEPT ![b][i] = "processing"]
  BY <1>1 DEF Dispatch, Mark
<1>5. /\ \A c \in Batches, j \in Line : c # b \/ j # i => sentIn'[c][j] = sentIn[c][j]
      /\ sentIn'[b][i] # {}
      /\ \A c \in Batches, j \in Line : c # b \/ j # i => ck'[c][j] = ck[c][j]
      /\ status[b] # "gone" => ck'[b][i] = "processing"
  BY <1>4 DEF TypeOK
<1>6. \A c \in Batches, j \in Line : c # b \/ j # i => FateOf(c, j)' = FateOf(c, j)
  BY <1>4, <1>5 DEF FateOf
<1>7. FateOf(b, i)' = "sent" /\ FateOf(b, i) = "unsent"
  BY <1>2, <1>4, <1>5 DEF FateOf, Outcome
<1>8. Fates' = [Fates EXCEPT ![b][i] = "sent"] /\ Fates[b][i] = "unsent"
  BY <1>6, <1>7, FateMoves, View
<1>9. Phases' = Phases
  BY <1>4 DEF Phases, PhaseOf
<1>10. IF status[b] = "in_progress" THEN Phases[b] = "open"
       ELSE Phases[b] \in {"cancelled", "gone"} /\ Lates[b] = FALSE
  <2>1. status[b] # "in_progress" => Lates[b] = FALSE
    BY <1>2, View
  <2>2. IF status[b] = "in_progress" THEN PhaseOf(b) = "open" ELSE PhaseOf(b) \in {"cancelled", "gone"}
    BY <1>3 DEF PhaseOf
  <2> QED BY <2>1, <2>2, View
<1>11. Lates' = [Lates EXCEPT ![b] = @ \/ Phases[b] # "open"]
  <2>1. \A c \in Batches : c # b => (lateSent'[c] # {}) = (lateSent[c] # {})
    BY <1>4 DEF TypeOK
  <2>2. (lateSent'[b] # {}) = (Lates[b] \/ Phases[b] # "open")
    <3>1. lateSent'[b] = IF status[b] # "in_progress" THEN lateSent[b] \cup {i} ELSE lateSent[b]
      BY <1>4 DEF TypeOK
    <3> QED BY <1>10, <3>1, View
  <2> QED BY <2>1, <2>2 DEF Lates
<1>12. life \in 1..MaxLives /\ sentIn' = [sentIn EXCEPT ![b][i] = {life}]
  BY <1>2, <1>4 DEF TypeOK
<1>13. Ledger!Send(b, i)
  BY <1>1, <1>4, <1>8, <1>9, <1>10, <1>11, <1>12 DEF Ledger!Send, LinesOf
<1> QED BY <1>13 DEF Ledger!LedgerNext, Line

\* The loop of a batch: sending and settling lines, and the end of the batch.
LEMMA LoopRefines ==
  ASSUME Linked, NEW b \in Batches, Loop(b) PROVE [Ledger!LedgerNext]_(Ledger!ledgerVars)
<1> USE DEF Linked, IInv
<1>0. lines' = lines
  BY DEF Loop, Recover, Throttle, Dispatch, Retry, Answer, Finalize, rows
<1>1. CASE Recover(b)
  <2>1. PICK i \in Line : pos[b] = i /\ i \in LinesOf(b)
    <3>1. pos[b] \in Nat \ {0} /\ lines[b] \in Nat
      BY BoundsAssumption DEF TypeOK
    <3>2. pos[b] \in LinesOf(b)
      BY <1>1, <3>1 DEF Recover, AtItem, LinesOf
    <3> QED BY <3>2, LinesFit
  <2>2. PICK outcome \in Outcome : Mark(b, outcome) /\ ck[b][i] \in {"processing", outcome}
    BY <1>1, <2>1 DEF Recover, Outcome
  <2>3. sentIn[b][i] # {}
    BY <1>1, <2>1 DEF Recover, Outcome, LinkOf
  <2>4. status[b] = "in_progress"
    BY <1>1 DEF Recover, AtItem, IsBatchCancelled, LoopOwnsBatch
  <2>5. UNCHANGED <<status, lines, files, sentIn, lateSent>>
    BY <1>1 DEF Recover, history
  <2> QED BY <2>1, <2>2, <2>3, <2>4, <2>5, SettleRefines
<1>2. CASE Answer(b)
  <2>1. PICK i \in Line : pos[b] = i
    BY <1>2, LinesFit DEF Answer, AtLine
  <2>2. PICK outcome \in Outcome : Mark(b, outcome)
    BY <1>2 DEF Answer
  <2>3. sentIn[b][i] # {} /\ (status[b] = "gone" \/ ck[b][i] = "processing")
    BY <1>2, <2>1 DEF Answer, SentIsMarked, LinkOf
  <2>4. status[b] \in {"in_progress", "cancelling", "cancelled", "gone"}
    BY <1>2 DEF Answer, LoopOwnsBatch
  <2>5. UNCHANGED <<status, lines, files, sentIn, lateSent>>
    BY <1>2 DEF Answer, history
  <2> QED BY <2>1, <2>2, <2>3, <2>4, <2>5, SettleRefines
<1>3. CASE Dispatch(b)
  BY <1>3, DispatchRefines
<1>4. CASE Throttle(b)
  <2>1. Phases' = Phases /\ Fates' = Fates /\ Lates' = Lates
    BY <1>4 DEF Throttle, rows, history, Phases, PhaseOf, Fates, FateOf, Lates
  <2> QED BY <1>4, <2>1 DEF Throttle, rows, history, Ledger!ledgerVars
<1>5. CASE Retry(b)
  <2>1. Phases' = Phases /\ Lates' = Lates
    BY <1>5 DEF Retry, rows, Phases, PhaseOf, Lates
  <2>2. PICK i \in Line : pos[b] = i
    BY <1>5, LinesFit DEF Retry, AtLine
  <2>3. sentIn[b][i] = {life}
    BY <1>5, <2>2 DEF Retry, SentIsMarked
  <2>4. sentIn' = sentIn
    BY <1>5, <2>2, <2>3 DEF Retry, TypeOK
  <2>5. Fates' = Fates
    BY <1>5, <2>4 DEF Retry, rows, Fates, FateOf
  <2> QED BY <1>5, <2>1, <2>4, <2>5 DEF Retry, rows, Ledger!ledgerVars
<1>6. CASE Finalize(b)
  <2>1. /\ ck' = ck /\ sentIn' = sentIn /\ lateSent' = lateSent
        /\ \A c \in Batches : c # b => status'[c] = status[c]
        /\ status'[b] = "gone" <=> status[b] = "gone"
    BY <1>6 DEF Finalize, history, IsBatchCancelled, TypeOK
  <2>2. Lates' = Lates
    BY <2>1 DEF Lates
  <2>3. Fates' = Fates
    BY <2>1, FateStays, FatesStay
  <2>4. \A c \in Batches : c # b => PhaseOf(c)' = PhaseOf(c)
    BY <2>1 DEF PhaseOf
  <2>5. CASE IsBatchCancelled(b)
    <3>1. PhaseOf(b)' = PhaseOf(b)
      BY <1>6, <2>5 DEF Finalize, IsBatchCancelled, PhaseOf, TypeOK
    <3>2. Phases' = Phases
      BY <2>4, <3>1, PhasesStay
    <3> QED BY <1>0, <1>6, <2>1, <2>2, <2>3, <2>5, <3>2 DEF Finalize, Ledger!ledgerVars
  <2>6. CASE ~IsBatchCancelled(b)
    <3>1. /\ status[b] = "in_progress" /\ status'[b] = "completed" /\ pc[b] = "next"
          /\ pos[b] > lines[b]
          /\ files' = [files EXCEPT ![b] = [output |-> Succeeded(got[b]), error |-> Failed(got[b])]]
      BY <1>6, <2>6 DEF Finalize, LoopDone, IsBatchCancelled, LoopOwnsBatch, TypeOK
    <3>2. Phases[b] = "open" /\ Phases' = [Phases EXCEPT ![b] = "completed"]
      <4>1. PhaseOf(b) = "open" /\ PhaseOf(b)' = "completed"
        BY <3>1 DEF PhaseOf
      <4> QED BY <2>4, <4>1, PhaseMoves, View
    <3>3. \A i \in LinesOf(b) : i \in Line /\ ck[b][i] \in Outcome
      <4>1. \A i \in LinesOf(b) : i \in Line /\ i < pos[b]
        <5>1. pos[b] \in Nat /\ lines[b] \in Nat
          BY BoundsAssumption DEF TypeOK
        <5> QED BY <3>1, <5>1, LinesFit DEF LinesOf
      <4> QED BY <3>1, <4>1 DEF BookOf, TornIsOver
    <3>4. \A i \in LinesOf(b) : Fates[b][i] = ck[b][i]
      <4>1. ASSUME NEW i \in LinesOf(b) PROVE FateOf(b, i) = ck[b][i]
        <5>1. i \in Line /\ ck[b][i] \in Outcome /\ ck[b][i] \notin {"none", "pending", "processing"}
          BY <3>3 DEF Outcome
        <5>2. sentIn[b][i] # {}
          BY <5>1 DEF LinkOf
        <5> QED BY <3>1, <5>1, <5>2 DEF FateOf
      <4> QED BY <3>3, <4>1, View
    <3>5. /\ Succeeded(got[b]) = {i \in LinesOf(b) : Fates[b][i] = "ok"}
          /\ Failed(got[b]) = {i \in LinesOf(b) : Fates[b][i] # "ok"}
      <4>1. /\ AccountOf(b)' /\ lines'[b] = lines[b]
            /\ files'[b] = [output |-> Succeeded(got[b]), error |-> Failed(got[b])]
        <5>1. [Next]_vars
          BY DEF Next
        <5> QED BY <1>0, <3>1, <5>1, BookStep DEF TypeOK
      <4>2. /\ Succeeded(got[b]) = {i \in Line : ck[b][i] = "ok"}
            /\ Failed(got[b]) = {i \in Line : ck[b][i] \in {"bad", "errored"}}
            /\ Succeeded(got[b]) \cup Failed(got[b]) = LinesOf(b)
        <5>1. b \notin torn /\ torn' = torn
          BY <1>6, <3>1 DEF TornIsOver, Finalize, history
        <5> QED BY <2>1, <3>1, <4>1, <5>1 DEF AccountOf, LinesOf
      <4> QED BY <3>3, <3>4, <4>2 DEF Outcome
    <3>6. Ledger!Complete(b)
      <4>1. \A i \in 1..lines[b] : Fates[b][i] \in Ledger!Ended
        BY <3>3, <3>4 DEF LinesOf, Outcome, Ledger!Ended
      <4> QED BY <1>0, <2>1, <2>2, <2>3, <3>1, <3>2, <3>5, <4>1 DEF Ledger!Complete, LinesOf
    <3> QED BY <3>6 DEF Ledger!LedgerNext
  <2> QED BY <2>5, <2>6
<1> QED BY <1>1, <1>2, <1>3, <1>4, <1>5, <1>6 DEF Loop

\* The loop's writes fail: the batch fails with them.
LEMMA FailureRefines ==
  ASSUME Linked, NEW b \in Batches, LoopFails(b) PROVE [Ledger!LedgerNext]_(Ledger!ledgerVars)
<1> USE DEF Linked, IInv
<1>1. /\ lines' = lines /\ ck' = ck /\ files' = files /\ sentIn' = sentIn /\ lateSent' = lateSent
      /\ \A c \in Batches : c # b => status'[c] = status[c]
      /\ status[b] \in {"in_progress", "cancelling", "cancelled", "gone"}
      /\ status'[b] = IF status[b] = "gone" THEN "gone" ELSE "failed"
  BY DEF LoopFails, LoopOwnsBatch, TypeOK, history
<1>2. Lates' = Lates
  BY <1>1 DEF Lates
<1>3. Fates' = Fates
  BY <1>1, FateStays, FatesStay
<1>4. \A c \in Batches : c # b => PhaseOf(c)' = PhaseOf(c)
  BY <1>1 DEF PhaseOf
<1>5. CASE status[b] = "gone"
  <2>1. PhaseOf(b)' = PhaseOf(b)
    BY <1>1, <1>5 DEF PhaseOf
  <2>2. Phases' = Phases
    BY <1>4, <2>1, PhasesStay
  <2> QED BY <1>1, <1>2, <1>3, <2>2 DEF Ledger!ledgerVars
<1>6. CASE status[b] # "gone"
  <2>1. PhaseOf(b) = (IF status[b] = "in_progress" THEN "open" ELSE "cancelled") /\ PhaseOf(b)' = "failed"
    BY <1>1, <1>6 DEF PhaseOf
  <2>2. Phases' = [Phases EXCEPT ![b] = "failed"]
    BY <1>4, <2>1, PhaseMoves
  <2>3. CASE status[b] = "in_progress"
    <3>1. Phases' = [c \in Batches |-> IF c \in {b} THEN "failed" ELSE Phases[c]]
      BY <2>2 DEF Phases
    <3>2. Ledger!Fail({b})
      BY <1>1, <1>2, <1>3, <2>1, <2>3, <3>1, View DEF Ledger!Fail
    <3> QED BY <3>2 DEF Ledger!LedgerNext
  <2>4. CASE status[b] # "in_progress"
    <3>1. Ledger!FailLate(b)
      BY <1>1, <1>2, <1>3, <2>1, <2>2, <2>4, View DEF Ledger!FailLate
    <3> QED BY <3>1 DEF Ledger!LedgerNext
  <2> QED BY <2>3, <2>4
<1> QED BY <1>5, <1>6

\* A deletion that a crash cuts short forgets outcomes, and maybe files.
LEMMA TearRefines ==
  ASSUME Linked, NEW b \in Batches, CrashInDelete(b) PROVE [Ledger!LedgerNext]_(Ledger!ledgerVars)
<1> USE DEF Linked, IInv
<1>1. /\ lines' = lines /\ status' = status /\ sentIn' = sentIn /\ lateSent' = lateSent
      /\ ck' = [ck EXCEPT ![b] = Nothing] /\ status[b] \in TERMINAL
  BY DEF CrashInDelete, Restart
<1>2. Phases' = Phases /\ Lates' = Lates
  BY <1>1 DEF Phases, PhaseOf, Lates
<1>3. Ledger!Forget(b)
  <2>1. ck'[b] = Nothing /\ \A c \in Batches : c # b => ck'[c] = ck[c] /\ status'[c] = status[c]
    BY <1>1 DEF TypeOK
  <2> QED BY <1>1, <2>1, Forgets
<1>4. Phases[b] \in {"cancelled", "completed", "failed"}
  <2>1. PhaseOf(b) \in {"cancelled", "completed", "failed"}
    BY <1>1 DEF PhaseOf, TERMINAL
  <2> QED BY <2>1, View
<1>5. \E output \in {files[b].output, {}}, error \in {files[b].error, {}} :
        files' = [files EXCEPT ![b] = [output |-> output, error |-> error]]
  <2>1. PICK n \in 0..3 :
          files' = [files EXCEPT ![b] = [output |-> IF n >= 2 THEN {} ELSE @.output,
                                         error |-> IF n = 3 THEN {} ELSE @.error]]
    BY Zenon DEF CrashInDelete
  <2>2. files' = [files EXCEPT ![b] = [output |-> IF n >= 2 THEN {} ELSE files[b].output,
                                       error |-> IF n = 3 THEN {} ELSE files[b].error]]
    BY <2>1
  <2>3. /\ (IF n >= 2 THEN {} ELSE files[b].output) \in {files[b].output, {}}
        /\ (IF n = 3 THEN {} ELSE files[b].error) \in {files[b].error, {}}
    OBVIOUS
  <2> QED BY <2>2, <2>3, Zenon
<1>6. Ledger!DropPart(b)
  BY <1>1, <1>2, <1>3, <1>4, <1>5 DEF Ledger!DropPart
<1> QED BY <1>6 DEF Ledger!LedgerNext

\* A restart changes nothing the owner sees.
LEMMA RestartRefines ==
  ASSUME Linked, Restart, UNCHANGED <<lines, ck, files>>,
         \A c \in Batches : status'[c] # status[c] =>
           status[c] = "in_progress" /\ status'[c] = "finalizing"
  PROVE  UNCHANGED Ledger!ledgerVars
<1>1. sentIn' = sentIn /\ lateSent' = lateSent
  BY DEF Restart
<1>2. Phases' = Phases
  BY DEF Phases, PhaseOf
<1>3. Fates' = Fates
  BY <1>1, FateStays, FatesStay
<1> QED BY <1>1, <1>2, <1>3 DEF Lates, Ledger!ledgerVars

\* The batch processor keeps its promise to the owners of batches: over
\* recoveries, cancellations, deletions, failures of the store and any number of
\* restarts, a line is sent in one life of the process at most, keeps the outcome
\* it got as long as its batch exists, and is in the files of a completed batch
\* with this outcome (processBatchItems, applyRecoveredCheckpoint, finalizeBatch,
\* recoverStaleBatch).  In its one life a line may be sent again, after an answer
\* of 429, 502 or 504 (processSingleItemWithRetry): for the ledger a stutter.
THEOREM BatchImplementsLedger == Spec => ImplementsLedger
<1> SUFFICES Spec => Ledger!LedgerSpec
  BY DEF ImplementsLedger
<1>1. Init => Ledger!LedgerInit
  <2> SUFFICES ASSUME Init PROVE Ledger!LedgerInit
    OBVIOUS
  <2>1. Phases = [b \in Batches |-> "new"]
    BY DEF Init, Phases, PhaseOf
  <2>2. Fates = [b \in Batches |-> [i \in 1..MaxLines |-> "unsent"]]
    BY DEF Init, Fates, FateOf, Line
  <2>3. Lates = [b \in Batches |-> FALSE]
    <3>1. \A b \in Batches : (lateSent[b] # {}) = FALSE
      BY DEF Init
    <3> QED BY <3>1 DEF Lates
  <2> QED BY <2>1, <2>2, <2>3 DEF Init, Ledger!LedgerInit, NoFiles, Line
<1>2. Init => \A b \in Batches : BookOf(b) /\ AccountOf(b) /\ LinkOf(b)
  BY DEF Init, Nothing, BookOf, AccountOf, LinkOf
<1>3. Linked /\ [Next]_vars => Linked'
  <2> SUFFICES ASSUME Linked, [Next]_vars PROVE Linked'
    OBVIOUS
  <2>1. IInv'
    BY InvStep DEF Linked
  <2>2. \A b \in Batches : BookOf(b)' /\ AccountOf(b)'
    BY BookStep DEF Linked
  <2>3. \A b \in Batches : LinkOf(b)'
    BY LinkStep DEF Linked
  <2> QED BY <2>1, <2>2, <2>3 DEF Linked
<1>4. Linked /\ [Next]_vars => [Ledger!LedgerNext]_(Ledger!ledgerVars)
  <2> SUFFICES ASSUME Linked, [Next]_vars PROVE [Ledger!LedgerNext]_(Ledger!ledgerVars)
    OBVIOUS
  <2>1. CASE Poll
    BY <2>1, PollRefines
  <2>2. CASE Crash
    <3>1. Restart /\ UNCHANGED <<lines, ck, files>> /\ \A c \in Batches : status'[c] = status[c]
      BY <2>2 DEF Crash, rows
    <3>2. UNCHANGED Ledger!ledgerVars
      BY <3>1, RestartRefines
    <3> QED BY <3>2
  <2>3. ASSUME NEW b \in Batches, Routes(b) PROVE [Ledger!LedgerNext]_(Ledger!ledgerVars)
    BY <2>3, RoutesRefine
  <2>4. ASSUME NEW b \in Batches, Loop(b) PROVE [Ledger!LedgerNext]_(Ledger!ledgerVars)
    BY <2>4, LoopRefines
  <2>5. ASSUME NEW b \in Batches, LoopFails(b) PROVE [Ledger!LedgerNext]_(Ledger!ledgerVars)
    BY <2>5, FailureRefines
  <2>6. ASSUME NEW b \in Batches, CrashInFinalize(b) PROVE [Ledger!LedgerNext]_(Ledger!ledgerVars)
    <3>1. status[b] = "in_progress"
      BY <2>6 DEF CrashInFinalize, LoopDone, IsBatchCancelled, Linked, IInv, LoopOwnsBatch
    <3>2. /\ Restart /\ UNCHANGED <<lines, ck, files>>
          /\ \A c \in Batches : status'[c] # status[c] =>
               status[c] = "in_progress" /\ status'[c] = "finalizing"
      BY <2>6, <3>1 DEF CrashInFinalize, Linked, IInv, TypeOK
    <3>3. UNCHANGED Ledger!ledgerVars
      BY <3>2, RestartRefines
    <3> QED BY <3>3
  <2>7. ASSUME NEW b \in Batches, CrashInDelete(b) PROVE [Ledger!LedgerNext]_(Ledger!ledgerVars)
    BY <2>7, TearRefines
  <2>8. CASE UNCHANGED vars
    <3>1. UNCHANGED <<rows, history>>
      BY <2>8 DEF vars
    <3>2. Phases' = Phases /\ Fates' = Fates /\ Lates' = Lates
      BY <3>1 DEF rows, history, Phases, PhaseOf, Fates, FateOf, Lates
    <3> QED BY <3>1, <3>2 DEF rows, history, Ledger!ledgerVars
  <2> QED BY <2>1, <2>2, <2>3, <2>4, <2>5, <2>6, <2>7, <2>8 DEF Next
<1>5. Init => Linked
  BY InvInit, <1>2 DEF Linked
<1> QED BY <1>1, <1>3, <1>4, <1>5, PTL DEF Spec, Ledger!LedgerSpec
=============================================================================
