------------------------ MODULE StreamPromotionProofs ------------------------
(***************************************************************************)
(* Proofs about StreamPromotion, for bodies and channels of every length,  *)
(* with or without failing tiers and clients that go away.                 *)
(***************************************************************************)
EXTENDS StreamPromotion, TLAPS

(* Between a read and the return of its chunk there is a chunk.            *)
HasChunk == pc \in Slots => read \in Chunks

LEMMA Typed == Spec => [](TypeOK /\ HasChunk)
<1>1. Init => TypeOK /\ HasChunk
  BY ConstantsAssumption DEF Init, TypeOK, HasChunk, Tiers, Slots
<1>2. TypeOK /\ HasChunk /\ [Next]_vars => TypeOK'
  <2> SUFFICES ASSUME TypeOK, HasChunk, [Next]_vars PROVE TypeOK'
    OBVIOUS
  <2>a. \A q \in Seq(Chunks), c \in Chunks : Append(q, c) \in Seq(Chunks)
    OBVIOUS
  <2>b. \A q \in Seq(Chunks) : q # <<>> => /\ Head(q) \in Chunks
                                           /\ Tail(q) \in Seq(Chunks)
    OBVIOUS
  <2> USE ConstantsAssumption DEF TypeOK, Tiers, Slots
  <2>1. CASE ReadChunk
    <3>1. read + 1 \in Chunks /\ read + 1 \in 0 .. Length
      BY <2>1 DEF ReadChunk, Chunks
    <3>2. Append(buf["l0"], read + 1) \in Seq(Chunks)
      BY <2>a, <3>1
    <3>3. buf' \in [Tiers -> Seq(Chunks)]
      BY <2>1, <3>2 DEF ReadChunk
    <3>4. QED
      BY <2>1, <3>1, <3>3 DEF ReadChunk
  <2>2. CASE ReadEof
    BY <2>2 DEF ReadEof
  <2>3. CASE ReadFails
    BY <2>3 DEF ReadFails
  <2>4. CASE Finish
    BY <2>4 DEF Finish
  <2>5. CASE JoinL1
    BY <2>5 DEF JoinL1
  <2>6. CASE JoinL2
    BY <2>6 DEF JoinL2
  <2>7. CASE CommitL0
    BY <2>7 DEF CommitL0
  <2>8. CASE Drop
    BY <2>8 DEF Drop
  <2>9. ASSUME NEW s \in Slots, Spawn(s) PROVE TypeOK'
    BY <2>9 DEF Spawn
  <2>10. ASSUME NEW s \in Slots, SpawnFails(s) PROVE TypeOK'
    BY <2>10 DEF SpawnFails
  <2>11. ASSUME NEW s \in Slots, TrySend(s) PROVE TypeOK'
    <3>1. read \in Chunks
      BY <2>11 DEF HasChunk, TrySend
    <3>2. Append(chan[s], read) \in Seq(Chunks)
      BY <2>a, <2>11, <3>1
    <3>3. chan' \in [Slots -> Seq(Chunks)]
      <4>1. \/ chan' = [chan EXCEPT ![s] = Append(chan[s], read)]
            \/ chan' = chan
        BY <2>11 DEF TrySend
      <4>2. QED
        BY <2>11, <3>2, <4>1
    <3>4. lost' \in [Slots -> SUBSET Chunks]
      BY <2>11, <3>1 DEF TrySend
    <3>5. QED
      BY <2>11, <3>3, <3>4 DEF TrySend
  <2>12. ASSUME NEW s \in Slots, Receive(s) PROVE TypeOK'
    <3>1. chan' \in [Slots -> Seq(Chunks)]
      BY <2>12, <2>b DEF Receive
    <3>2. buf' \in [Tiers -> Seq(Chunks)]
      BY <2>12, <2>a, <2>b DEF Receive
    <3>3. QED
      BY <2>12, <3>1, <3>2 DEF Receive
  <2>13. ASSUME NEW s \in Slots, Commit(s) PROVE TypeOK'
    BY <2>13 DEF Commit
  <2>14. ASSUME NEW s \in Slots, WorkerFails(s) PROVE TypeOK'
    BY <2>14 DEF WorkerFails
  <2>15. CASE UNCHANGED vars
    BY <2>15 DEF vars
  <2>16. CASE FinishFails
    BY <2>16 DEF FinishFails
  <2>17. QED
    BY <2>1, <2>2, <2>3, <2>4, <2>5, <2>6, <2>7, <2>8, <2>9, <2>10, <2>11,
       <2>12, <2>13, <2>14, <2>15, <2>16
    DEF Next, ReadBody, Finishing, Work
<1>3. TypeOK /\ HasChunk /\ [Next]_vars => HasChunk'
  <2> SUFFICES ASSUME TypeOK, HasChunk, [Next]_vars PROVE HasChunk'
    OBVIOUS
  <2> USE ConstantsAssumption DEF TypeOK, HasChunk, Slots, Chunks
  <2>1. CASE ReadChunk
    BY <2>1 DEF ReadChunk
  <2>2. CASE ReadEof
    BY <2>2 DEF ReadEof
  <2>3. CASE ReadFails
    BY <2>3 DEF ReadFails
  <2>4. CASE Finish
    BY <2>4 DEF Finish
  <2>5. CASE JoinL1
    BY <2>5 DEF JoinL1
  <2>6. CASE JoinL2
    BY <2>6 DEF JoinL2
  <2>7. CASE CommitL0
    BY <2>7 DEF CommitL0
  <2>8. CASE Drop
    BY <2>8 DEF Drop
  <2>9. ASSUME NEW s \in Slots, Spawn(s) PROVE HasChunk'
    BY <2>9 DEF Spawn
  <2>10. ASSUME NEW s \in Slots, SpawnFails(s) PROVE HasChunk'
    BY <2>10 DEF SpawnFails
  <2>11. ASSUME NEW s \in Slots, TrySend(s) PROVE HasChunk'
    BY <2>11 DEF TrySend
  <2>12. ASSUME NEW s \in Slots, Receive(s) PROVE HasChunk'
    BY <2>12 DEF Receive
  <2>13. ASSUME NEW s \in Slots, Commit(s) PROVE HasChunk'
    BY <2>13 DEF Commit
  <2>14. ASSUME NEW s \in Slots, WorkerFails(s) PROVE HasChunk'
    BY <2>14 DEF WorkerFails
  <2>15. CASE UNCHANGED vars
    BY <2>15 DEF vars
  <2>16. CASE FinishFails
    BY <2>16 DEF FinishFails
  <2>17. QED
    BY <2>1, <2>2, <2>3, <2>4, <2>5, <2>6, <2>7, <2>8, <2>9, <2>10, <2>11,
       <2>12, <2>13, <2>14, <2>15, <2>16
    DEF Next, ReadBody, Finishing, Work
<1>4. QED
  BY <1>1, <1>2, <1>3, PTL DEF Spec

(* Every behaviour keeps the handler, the tasks and the tiers well typed:  *)
(* the hit handler never hands on more than the body has.                  *)
THEOREM TypeCorrect == Spec => []TypeOK
<1>1. TypeOK /\ HasChunk => TypeOK
  OBVIOUS
<1>2. QED
  BY <1>1, Typed, PTL

(* finish has joined the tasks it has gone past.                           *)
JoinedInOrder ==
    /\ pc \in {"join_l2", "commit_l0", "finished"} => worker["l1"] # "running"
    /\ pc \in {"commit_l0", "finished"} => worker["l2"] # "running"

LEMMA JoinedInvariance == Spec => []JoinedInOrder
<1>1. Init => JoinedInOrder
  BY DEF Init, JoinedInOrder
<1>2. TypeOK /\ JoinedInOrder /\ [Next]_vars => JoinedInOrder'
  <2> SUFFICES ASSUME TypeOK, JoinedInOrder, [Next]_vars PROVE JoinedInOrder'
    OBVIOUS
  <2> USE DEF TypeOK, JoinedInOrder, Slots
  <2>1. CASE ReadChunk
    BY <2>1 DEF ReadChunk
  <2>2. CASE ReadEof
    BY <2>2 DEF ReadEof
  <2>3. CASE ReadFails
    BY <2>3 DEF ReadFails
  <2>4. CASE Finish
    BY <2>4 DEF Finish
  <2>5. CASE JoinL1
    BY <2>5 DEF JoinL1
  <2>6. CASE JoinL2
    BY <2>6 DEF JoinL2
  <2>7. CASE CommitL0
    BY <2>7 DEF CommitL0
  <2>8. CASE Drop
    BY <2>8 DEF Drop
  <2>9. ASSUME NEW s \in Slots, Spawn(s) PROVE JoinedInOrder'
    BY <2>9 DEF Spawn
  <2>10. ASSUME NEW s \in Slots, SpawnFails(s) PROVE JoinedInOrder'
    BY <2>10 DEF SpawnFails
  <2>11. ASSUME NEW s \in Slots, TrySend(s) PROVE JoinedInOrder'
    BY <2>11 DEF TrySend
  <2>12. ASSUME NEW s \in Slots, Receive(s) PROVE JoinedInOrder'
    BY <2>12 DEF Receive
  <2>13. ASSUME NEW s \in Slots, Commit(s) PROVE JoinedInOrder'
    BY <2>13 DEF Commit
  <2>14. ASSUME NEW s \in Slots, WorkerFails(s) PROVE JoinedInOrder'
    BY <2>14 DEF WorkerFails
  <2>15. CASE UNCHANGED vars
    BY <2>15 DEF vars
  <2>16. CASE FinishFails
    BY <2>16 DEF FinishFails
  <2>17. QED
    BY <2>1, <2>2, <2>3, <2>4, <2>5, <2>6, <2>7, <2>8, <2>9, <2>10, <2>11,
       <2>12, <2>13, <2>14, <2>15, <2>16
    DEF Next, ReadBody, Finishing, Work
<1>3. QED
  BY <1>1, <1>2, TypeCorrect, PTL DEF Spec

(* When finish has answered Ok no task of the hit is running, however long *)
(* the body, whatever failed and whoever went away.                        *)
THEOREM FinishJoinsWorkers == Spec => []NoWorkerOutlivesFinish
<1>1. JoinedInOrder => NoWorkerOutlivesFinish
  BY DEF JoinedInOrder, NoWorkerOutlivesFinish, Slots
<1>2. QED
  BY <1>1, JoinedInvariance, PTL
-----------------------------------------------------------------------------
(* What holds of the targets, the senders and the tasks of the slots.  The *)
(* tasks are spawned at the first chunk: from the second chunk on no lazy  *)
(* target is left.                                                         *)
Setup ==
    /\ lazy \subseteq promote
    /\ outcome # "reading" => pc \notin Slots
    /\ pc \in Slots /\ read > 1 => lazy = {}
    /\ pc = "idle" /\ outcome = "reading" /\ read >= 1 => lazy = {}
    /\ pc = "l2" => "l1" \notin lazy

Senders ==
    /\ \A s \in lazy : worker[s] = "none"
    /\ \A s \in tx : worker[s] \in {"running", "failed"}
    /\ pc \in {"idle", "l1", "l2"} =>
         \A s \in Slots : worker[s] # "none" => s \in tx
    /\ \A s \in Slots : worker[s] # "none" => read >= 1
    /\ pc = "l1" /\ worker["l2"] # "none" => read >= 2

(* The chunk just read has not been offered to slot s yet.                 *)
Ahead(s) == pc \in {"l1", s}

Kept(s, i) == \/ \E j \in DOMAIN buf[s] : buf[s][j] = i
              \/ \E j \in DOMAIN chan[s] : chan[s][j] = i

(* What the task and the channel of a slot hold: chunks in order, the      *)
(* task's before the channel's, none of them ahead of the handler ...      *)
InOrder(s) ==
    /\ \A i, j \in DOMAIN buf[s] : i < j => buf[s][i] < buf[s][j]
    /\ \A i, j \in DOMAIN chan[s] : i < j => chan[s][i] < chan[s][j]
    /\ \A i \in DOMAIN buf[s], j \in DOMAIN chan[s] : buf[s][i] < chan[s][j]
    /\ \A i \in DOMAIN buf[s] : buf[s][i] <= read
    /\ \A i \in DOMAIN chan[s] : chan[s][i] <= read
    /\ Ahead(s) => /\ \A i \in DOMAIN buf[s] : buf[s][i] # read
                   /\ \A i \in DOMAIN chan[s] : chan[s][i] # read

(* ... no more of them than were offered, so that the channel is full only *)
(* after Capacity chunks ...                                               *)
Bounded(s) ==
    /\ Len(chan[s]) <= IF Ahead(s) THEN read - 1 ELSE read
    /\ worker[s] # "failed" => \A i \in lost[s] : i > Capacity

(* ... and all that were offered and not refused.                          *)
Whole(s) ==
    /\ worker[s] # "none" =>
         \A i \in 1 .. read : \/ Kept(s, i)
                              \/ i \in lost[s]
                              \/ i = read /\ (Ahead(s) \/ pc = "dropped")
    /\ worker[s] = "committed" => stored[s] = buf[s] /\ chan[s] = <<>>

StreamInv ==
    /\ TypeOK /\ HasChunk /\ Setup /\ Senders /\ OnlySetupFailsTheRead
    /\ \A s \in Slots : InOrder(s) /\ Bounded(s) /\ Whole(s)

LEMMA StepSetup ==
    ASSUME TypeOK, HasChunk, Setup, Senders, OnlySetupFailsTheRead,
           [Next]_vars
    PROVE  Setup' /\ OnlySetupFailsTheRead'
<1>1. Setup'
  <2> USE ConstantsAssumption
      DEF TypeOK, HasChunk, Setup, Slots, Chunks
  <2>1. CASE ReadChunk
    BY <2>1 DEF ReadChunk
  <2>2. CASE ReadEof
    BY <2>2 DEF ReadEof
  <2>3. CASE ReadFails
    BY <2>3 DEF ReadFails
  <2>4. CASE Finish
    BY <2>4 DEF Finish
  <2>5. CASE JoinL1
    BY <2>5 DEF JoinL1
  <2>6. CASE JoinL2
    BY <2>6 DEF JoinL2
  <2>7. CASE CommitL0
    BY <2>7 DEF CommitL0
  <2>8. CASE Drop
    BY <2>8 DEF Drop
  <2>9. ASSUME NEW u \in Slots, Spawn(u) PROVE Setup'
    BY <2>9 DEF Spawn
  <2>10. ASSUME NEW u \in Slots, SpawnFails(u) PROVE Setup'
    BY <2>10 DEF SpawnFails
  <2>11. ASSUME NEW u \in Slots, TrySend(u) PROVE Setup'
    BY <2>11 DEF TrySend
  <2>12. ASSUME NEW u \in Slots, Receive(u) PROVE Setup'
    BY <2>12 DEF Receive
  <2>13. ASSUME NEW u \in Slots, Commit(u) PROVE Setup'
    BY <2>13 DEF Commit
  <2>14. ASSUME NEW u \in Slots, WorkerFails(u) PROVE Setup'
    BY <2>14 DEF WorkerFails
  <2>15. CASE UNCHANGED vars
    BY <2>15 DEF vars
  <2>16. CASE FinishFails
    BY <2>16 DEF FinishFails
  <2>17. QED
    BY <2>1, <2>2, <2>3, <2>4, <2>5, <2>6, <2>7, <2>8, <2>9, <2>10, <2>11,
       <2>12, <2>13, <2>14, <2>15, <2>16
    DEF Next, ReadBody, Finishing, Work
<1>2. OnlySetupFailsTheRead'
  <2> USE ConstantsAssumption
      DEF TypeOK, Setup, Slots, OnlySetupFailsTheRead
  <2>1. CASE ReadChunk
    BY <2>1 DEF ReadChunk
  <2>2. CASE ReadEof
    BY <2>2 DEF ReadEof
  <2>3. CASE ReadFails
    BY <2>3 DEF ReadFails
  <2>4. CASE Finish
    BY <2>4 DEF Finish
  <2>5. CASE JoinL1
    BY <2>5 DEF JoinL1
  <2>6. CASE JoinL2
    BY <2>6 DEF JoinL2
  <2>7. CASE CommitL0
    BY <2>7 DEF CommitL0
  <2>8. CASE Drop
    BY <2>8 DEF Drop
  <2>9. ASSUME NEW u \in Slots, Spawn(u) PROVE OnlySetupFailsTheRead'
    BY <2>9 DEF Spawn
  <2>10. ASSUME NEW u \in Slots, SpawnFails(u) PROVE OnlySetupFailsTheRead'
    BY <2>10, HasChunk DEF SpawnFails, HasChunk, Senders, Chunks
  <2>11. ASSUME NEW u \in Slots, TrySend(u) PROVE OnlySetupFailsTheRead'
    BY <2>11 DEF TrySend
  <2>12. ASSUME NEW u \in Slots, Receive(u) PROVE OnlySetupFailsTheRead'
    BY <2>12 DEF Receive
  <2>13. ASSUME NEW u \in Slots, Commit(u) PROVE OnlySetupFailsTheRead'
    BY <2>13 DEF Commit
  <2>14. ASSUME NEW u \in Slots, WorkerFails(u) PROVE OnlySetupFailsTheRead'
    BY <2>14 DEF WorkerFails
  <2>15. CASE UNCHANGED vars
    BY <2>15 DEF vars
  <2>16. CASE FinishFails
    BY <2>16 DEF FinishFails
  <2>17. QED
    BY <2>1, <2>2, <2>3, <2>4, <2>5, <2>6, <2>7, <2>8, <2>9, <2>10, <2>11,
       <2>12, <2>13, <2>14, <2>15, <2>16
    DEF Next, ReadBody, Finishing, Work
<1>3. QED
  BY <1>1, <1>2

LEMMA StepSenders ==
    ASSUME TypeOK, HasChunk, Setup, Senders, OnlySetupFailsTheRead,
           [Next]_vars
    PROVE  Senders'
<1> USE ConstantsAssumption
    DEF TypeOK, HasChunk, Setup, Senders, Slots, Chunks
<1>1. Senders'
  <2>1. CASE ReadChunk
    BY <2>1 DEF ReadChunk
  <2>2. CASE ReadEof
    BY <2>2 DEF ReadEof
  <2>3. CASE ReadFails
    BY <2>3 DEF ReadFails
  <2>4. CASE Finish
    BY <2>4 DEF Finish
  <2>5. CASE JoinL1
    BY <2>5 DEF JoinL1
  <2>6. CASE JoinL2
    BY <2>6 DEF JoinL2
  <2>7. CASE CommitL0
    BY <2>7 DEF CommitL0
  <2>8. CASE Drop
    BY <2>8 DEF Drop
  <2>9. ASSUME NEW u \in Slots, Spawn(u) PROVE Senders'
    BY <2>9 DEF Spawn
  <2>10. ASSUME NEW u \in Slots, SpawnFails(u) PROVE Senders'
    BY <2>10 DEF SpawnFails, OnlySetupFailsTheRead
  <2>11. ASSUME NEW u \in Slots, TrySend(u) PROVE Senders'
    BY <2>11 DEF TrySend
  <2>12. ASSUME NEW u \in Slots, Receive(u) PROVE Senders'
    BY <2>12 DEF Receive
  <2>13. ASSUME NEW u \in Slots, Commit(u) PROVE Senders'
    BY <2>13 DEF Commit
  <2>14. ASSUME NEW u \in Slots, WorkerFails(u) PROVE Senders'
    BY <2>14 DEF WorkerFails
  <2>15. CASE UNCHANGED vars
    BY <2>15 DEF vars
  <2>16. CASE FinishFails
    BY <2>16 DEF FinishFails
  <2>17. QED
    BY <2>1, <2>2, <2>3, <2>4, <2>5, <2>6, <2>7, <2>8, <2>9, <2>10, <2>11,
       <2>12, <2>13, <2>14, <2>15, <2>16
    DEF Next, ReadBody, Finishing, Work
<1>2. QED
  BY <1>1
-----------------------------------------------------------------------------
(* What a step does to one slot.                                           *)

Same(s) == /\ chan'[s] = chan[s]
           /\ buf'[s] = buf[s]
           /\ lost'[s] = lost[s]

Stays(s) == stored'[s] = stored[s] /\ worker'[s] = worker[s]

(* The handler goes on and does nothing to the slot ...                    *)
Reads(s) == /\ Same(s) /\ Stays(s)
            /\ pc = "idle" /\ pc' = "l1" /\ read' = read + 1

Passes(s) == /\ Same(s) /\ Stays(s)
             /\ read' = read
             /\ pc' \in {"l1", s} => Ahead(s)
             /\ Ahead(s) => \/ pc' \in {"l1", s}
                            \/ pc' = "dropped"
                            \/ worker[s] = "none"
             /\ pc = "dropped" => pc' = "dropped"

(* ... or it spawns the task, or offers it the chunk ...                   *)
Spawns(s) == /\ Same(s)
             /\ pc = s /\ pc' = s
             /\ read = 1 /\ read' = 1
             /\ worker[s] = "none" /\ worker'[s] = "running"

Offers(s) == /\ pc = s /\ pc' \notin {"l1", s, "dropped"}
             /\ read' = read
             /\ Stays(s)
             /\ buf'[s] = buf[s]

Sends(s) == /\ Offers(s)
            /\ worker[s] = "running"
            /\ Len(chan[s]) < Capacity
            /\ chan'[s] = Append(chan[s], read)
            /\ lost'[s] = lost[s]

Refuses(s) == /\ Offers(s)
              /\ worker[s] = "failed" \/ Len(chan[s]) >= Capacity
              /\ chan'[s] = chan[s]
              /\ lost'[s] = lost[s] \cup {read}

(* ... or the task goes on.                                                *)
Receives(s) == /\ Stays(s)
               /\ pc' = pc /\ read' = read
               /\ worker[s] = "running"
               /\ chan[s] # <<>>
               /\ chan'[s] = Tail(chan[s])
               /\ buf'[s] = Append(buf[s], Head(chan[s]))
               /\ lost'[s] = lost[s]

Commits(s) == /\ Same(s)
              /\ pc' = pc /\ read' = read
              /\ worker[s] = "running" /\ worker'[s] = "committed"
              /\ chan[s] = <<>>
              /\ stored'[s] = buf[s]

Fails(s) == /\ Same(s)
            /\ pc' = pc /\ read' = read
            /\ worker[s] = "running" /\ worker'[s] = "failed"

SlotStep(s) == \/ Reads(s) \/ Passes(s) \/ Spawns(s)
               \/ Sends(s) \/ Refuses(s)
               \/ Receives(s) \/ Commits(s) \/ Fails(s)

LEMMA StepSlot ==
    ASSUME TypeOK, HasChunk, Setup, Senders, [Next]_vars,
           NEW s \in Slots
    PROVE  SlotStep(s)
<1> USE ConstantsAssumption
    DEF TypeOK, Slots, Tiers, Same, Stays, SlotStep
<1>p. /\ s # "l0" /\ s # "idle" /\ s # "dropped"
      /\ s \in {"l1", "l2"} /\ s \in Tiers
  OBVIOUS
<1>1. CASE ReadChunk
  <2>1. chan'[s] = chan[s] /\ lost'[s] = lost[s] /\ Stays(s)
    BY <1>1 DEF ReadChunk
  <2>2. buf'[s] = buf[s]
    BY <1>1, <1>p DEF ReadChunk
  <2>3. QED
    BY <2>1, <2>2, <1>1 DEF ReadChunk, Reads
<1>2. CASE ReadEof
  BY <1>2 DEF ReadEof, Passes, Ahead
<1>3. CASE ReadFails
  BY <1>3 DEF ReadFails, Passes, Ahead
<1>4. CASE Finish
  BY <1>4 DEF Finish, Passes, Ahead
<1>5. CASE JoinL1
  BY <1>5 DEF JoinL1, Passes, Ahead
<1>6. CASE JoinL2
  BY <1>6 DEF JoinL2, Passes, Ahead
<1>7. CASE CommitL0
  BY <1>7, <1>p DEF CommitL0, Passes, Ahead
<1>8. CASE Drop
  BY <1>8 DEF Drop, Over, Passes, Ahead
<1>9. ASSUME NEW u \in Slots, Spawn(u)
      PROVE  SlotStep(s)
  <2>1. CASE u = s
    <3>1. read = 1
      BY <1>9 DEF Spawn, Setup, HasChunk, Chunks
    <3>2. worker[s] = "none"
      BY <1>9, <2>1 DEF Spawn, Senders
    <3>3. QED
      BY <1>9, <2>1, <3>1, <3>2 DEF Spawn, Spawns
  <2>2. CASE u # s
    BY <1>9, <2>2 DEF Spawn, Passes, Ahead
  <2>3. QED
    BY <2>1, <2>2
<1>10. ASSUME NEW u \in Slots, SpawnFails(u)
      PROVE  SlotStep(s)
  <2>1. pc = "l1" => worker[s] = "none"
    BY <1>10 DEF SpawnFails, Setup, Senders, HasChunk, Chunks
  <2>2. pc = s => worker[s] = "none"
    BY <1>10 DEF SpawnFails, Senders
  <2>3. QED
    BY <1>10, <2>1, <2>2 DEF SpawnFails, Passes, Ahead
<1>11. ASSUME NEW u \in Slots, TrySend(u)
      PROVE  SlotStep(s)
  <2>1. CASE u # s
    <3>1. Same(s) /\ Stays(s) /\ read' = read
      BY <1>11, <2>1 DEF TrySend
    <3>2. pc' \in {"l1", s} => Ahead(s)
      BY <1>11, <2>1 DEF TrySend, Ahead
    <3>3. Ahead(s) => pc' \in {"l1", s}
      BY <1>11, <2>1 DEF TrySend, Ahead
    <3>4. pc # "dropped"
      BY <1>11 DEF TrySend
    <3>5. QED
      BY <3>1, <3>2, <3>3, <3>4 DEF Passes
  <2>2. CASE u = s /\ s \notin tx
    <3>1. worker[s] = "none"
      BY <1>11, <2>2 DEF TrySend, Senders
    <3>2. QED
      BY <1>11, <2>2, <3>1 DEF TrySend, Passes, Ahead
  <2>3. CASE u = s /\ s \in tx
    <3>1. worker[s] \in {"running", "failed"}
      BY <2>3 DEF Senders
    <3>2. Offers(s)
      BY <1>11, <2>3 DEF TrySend, Offers
    <3>3. CASE HasRoom(s)
      BY <1>11, <2>3, <3>2, <3>3 DEF TrySend, Sends, HasRoom
    <3>4. CASE ~HasRoom(s)
      <4>1. Len(chan[s]) \in Nat
        OBVIOUS
      <4>2. QED
        BY <1>11, <2>3, <3>1, <3>2, <3>4, <4>1 DEF TrySend, Refuses, HasRoom
    <3>5. QED
      BY <3>3, <3>4
  <2>4. QED
    BY <2>1, <2>2, <2>3
<1>12. ASSUME NEW u \in Slots, Receive(u)
      PROVE  SlotStep(s)
  BY <1>12, <1>p DEF Receive, Receives, Passes, Ahead
<1>13. ASSUME NEW u \in Slots, Commit(u)
      PROVE  SlotStep(s)
  BY <1>13, <1>p DEF Commit, Commits, Passes, Ahead
<1>14. ASSUME NEW u \in Slots, WorkerFails(u)
      PROVE  SlotStep(s)
  BY <1>14 DEF WorkerFails, Fails, Passes, Ahead
<1>15. CASE UNCHANGED vars
  BY <1>15 DEF vars, Passes, Ahead
<1>16. CASE FinishFails
  BY <1>16 DEF FinishFails, Passes, Ahead
<1>17. QED
  BY <1>1, <1>2, <1>3, <1>4, <1>5, <1>6, <1>7, <1>8, <1>9,
     <1>10, <1>11, <1>12, <1>13, <1>14, <1>15, <1>16
  DEF Next, ReadBody, Finishing, Work

LEMMA StepInOrder ==
    ASSUME TypeOK, HasChunk, NEW s \in Slots, InOrder(s), SlotStep(s)
    PROVE  InOrder(s)'
<1>1. /\ chan[s] \in Seq(Nat) /\ buf[s] \in Seq(Nat)
      /\ read \in Nat
  BY ConstantsAssumption DEF TypeOK, Tiers, Slots, Chunks
<1>2. CASE Reads(s)
  BY <1>1, <1>2 DEF Reads, Same, InOrder, Ahead
<1>3. CASE Passes(s) \/ Spawns(s) \/ Commits(s) \/ Fails(s)
  BY <1>1, <1>3 DEF Passes, Spawns, Commits, Fails, Same, InOrder, Ahead
<1>4. CASE Refuses(s)
  BY <1>1, <1>4 DEF Refuses, Offers, InOrder, Ahead
<1>5. CASE Sends(s)
  <2> DEFINE q == chan[s]
  <2>1. /\ chan'[s] = Append(q, read) /\ buf'[s] = buf[s] /\ read' = read
        /\ ~Ahead(s)' /\ Ahead(s)
    BY <1>5 DEF Sends, Offers, Ahead
  <2>2. \A i \in DOMAIN q : q[i] < read
    BY <1>1, <2>1 DEF InOrder
  <2>3. \A i \in DOMAIN buf[s] : buf[s][i] < read
    BY <1>1, <2>1 DEF InOrder
  <2>4. /\ \A i, j \in DOMAIN q : i < j => q[i] < q[j]
        /\ \A i \in DOMAIN buf[s], j \in DOMAIN q : buf[s][i] < q[j]
    BY DEF InOrder
  <2>5. /\ DOMAIN Append(q, read) = 1 .. Len(q) + 1
        /\ DOMAIN q = 1 .. Len(q) /\ Len(q) \in Nat
        /\ \A i \in DOMAIN q : Append(q, read)[i] = q[i]
        /\ Append(q, read)[Len(q) + 1] = read
    BY <1>1
  <2> HIDE DEF q
  <2>6. \A i \in 1 .. Len(q) + 1 : i \in 1 .. Len(q) \/ i = Len(q) + 1
    BY <2>5
  <2>7. \A i \in DOMAIN q : q[i] \in Nat
    BY <1>1 DEF q
  <2>8. \A i, j \in DOMAIN chan'[s] : i < j => chan'[s][i] < chan'[s][j]
    BY <2>1, <2>2, <2>4, <2>5, <2>6, <2>7
  <2>9. \A i \in DOMAIN buf'[s], j \in DOMAIN chan'[s] :
          buf'[s][i] < chan'[s][j]
    BY <2>1, <2>3, <2>4, <2>5, <2>6
  <2>10. \A i \in DOMAIN chan'[s] : chan'[s][i] <= read'
    BY <1>1, <2>1, <2>2, <2>5, <2>6, <2>7
  <2>11. /\ \A i, j \in DOMAIN buf'[s] : i < j => buf'[s][i] < buf'[s][j]
         /\ \A i \in DOMAIN buf'[s] : buf'[s][i] <= read'
    BY <2>1 DEF InOrder
  <2>12. QED
    BY <2>1, <2>8, <2>9, <2>10, <2>11 DEF InOrder
<1>6. CASE Receives(s)
  <2> DEFINE q == chan[s]
             b == buf[s]
  <2>1. /\ chan'[s] = Tail(q) /\ buf'[s] = Append(b, q[1]) /\ read' = read
        /\ Ahead(s)' = Ahead(s) /\ q # <<>>
    BY <1>1, <1>6 DEF Receives, Ahead
  <2>2. /\ DOMAIN q = 1 .. Len(q) /\ Len(q) \in Nat /\ Len(q) >= 1
        /\ DOMAIN Tail(q) = 1 .. Len(q) - 1
        /\ \A i \in 1 .. Len(q) - 1 : Tail(q)[i] = q[i + 1]
    BY <1>1, <2>1
  <2>3. /\ DOMAIN b = 1 .. Len(b) /\ Len(b) \in Nat
        /\ DOMAIN Append(b, q[1]) = 1 .. Len(b) + 1
        /\ \A i \in DOMAIN b : Append(b, q[1])[i] = b[i]
        /\ Append(b, q[1])[Len(b) + 1] = q[1]
    BY <1>1
  <2>4. /\ \A i, j \in DOMAIN q : i < j => q[i] < q[j]
        /\ \A i, j \in DOMAIN b : i < j => b[i] < b[j]
        /\ \A i \in DOMAIN b, j \in DOMAIN q : b[i] < q[j]
        /\ \A i \in DOMAIN b : b[i] <= read
        /\ \A i \in DOMAIN q : q[i] <= read
        /\ Ahead(s) => /\ \A i \in DOMAIN b : b[i] # read
                       /\ \A i \in DOMAIN q : q[i] # read
    BY DEF InOrder
  <2> HIDE DEF q, b
  <2>5. \A i \in 1 .. Len(b) + 1 : i \in 1 .. Len(b) \/ i = Len(b) + 1
    BY <2>3
  <2>6. /\ 1 \in DOMAIN q
        /\ \A i \in 1 .. Len(q) - 1 : i + 1 \in DOMAIN q /\ 1 < i + 1
    BY <2>2
  <2>7. \A i, j \in DOMAIN chan'[s] : i < j => chan'[s][i] < chan'[s][j]
    BY <2>1, <2>2, <2>4, <2>6
  <2>8. \A i, j \in DOMAIN buf'[s] : i < j => buf'[s][i] < buf'[s][j]
    BY <2>1, <2>3, <2>4, <2>5, <2>6
  <2>9. \A i \in DOMAIN buf'[s], j \in DOMAIN chan'[s] :
          buf'[s][i] < chan'[s][j]
    BY <2>1, <2>2, <2>3, <2>4, <2>5, <2>6
  <2>10. /\ \A i \in DOMAIN buf'[s] : buf'[s][i] <= read'
         /\ \A i \in DOMAIN chan'[s] : chan'[s][i] <= read'
    BY <2>1, <2>2, <2>3, <2>4, <2>5, <2>6
  <2>11. Ahead(s)' => /\ \A i \in DOMAIN buf'[s] : buf'[s][i] # read'
                      /\ \A i \in DOMAIN chan'[s] : chan'[s][i] # read'
    BY <2>1, <2>2, <2>3, <2>4, <2>5, <2>6
  <2>12. QED
    BY <2>7, <2>8, <2>9, <2>10, <2>11 DEF InOrder
<1>7. QED
  BY <1>2, <1>3, <1>4, <1>5, <1>6 DEF SlotStep

LEMMA StepBounded ==
    ASSUME TypeOK, HasChunk, NEW s \in Slots, Bounded(s), SlotStep(s)
    PROVE  Bounded(s)'
<1>1. /\ chan[s] \in Seq(Chunks) /\ Len(chan[s]) \in Nat
      /\ read \in Nat /\ Capacity \in Nat \ {0}
      /\ \A c : Len(Append(chan[s], c)) = Len(chan[s]) + 1
      /\ chan[s] # <<>> => Len(Tail(chan[s])) = Len(chan[s]) - 1
      /\ pc \in Slots => read >= 1
  BY ConstantsAssumption DEF TypeOK, Slots, Chunks, HasChunk
<1>2. CASE Reads(s) \/ Passes(s)
  BY <1>1, <1>2
  DEF Reads, Passes, Same, Stays, Bounded, Ahead, Slots
<1>3. CASE Spawns(s) \/ Commits(s) \/ Fails(s)
  BY <1>1, <1>3
  DEF Spawns, Commits, Fails, Same, Stays, Bounded, Ahead
<1>4. CASE Refuses(s)
  <2>1. worker[s] # "failed" => read > Capacity
    BY <1>1, <1>4 DEF Refuses, Offers, Bounded, Ahead
  <2>2. QED
    BY <1>1, <1>4, <2>1 DEF Refuses, Offers, Stays, Bounded, Ahead
<1>5. CASE Sends(s)
  BY <1>1, <1>5 DEF Sends, Offers, Stays, Bounded, Ahead
<1>6. CASE Receives(s)
  BY <1>1, <1>6 DEF Receives, Stays, Bounded, Ahead
<1>7. QED
  BY <1>2, <1>3, <1>4, <1>5, <1>6 DEF SlotStep

LEMMA StepWhole ==
    ASSUME TypeOK, HasChunk, NEW s \in Slots, Whole(s), SlotStep(s)
    PROVE  Whole(s)'
<1> DEFINE Late(i) == i = read /\ (Ahead(s) \/ pc = "dropped")
<1>1. /\ chan[s] \in Seq(Nat) /\ buf[s] \in Seq(Nat) /\ read \in Nat
      /\ s # "dropped" /\ s # "idle"
  BY ConstantsAssumption DEF TypeOK, Tiers, Slots, Chunks
<1>2. CASE Reads(s)
  <2>1. \A i : Kept(s, i)' <=> Kept(s, i)
    BY <1>2 DEF Reads, Same, Kept
  <2>2. \A i \in 1 .. read' : i \in 1 .. read \/ i = read'
    BY <1>1, <1>2 DEF Reads
  <2>3. ~Late(read) /\ Ahead(s)'
    BY <1>1, <1>2 DEF Reads, Ahead
  <2>4. worker[s] # "none" =>
          \A i \in 1 .. read : Kept(s, i) \/ i \in lost[s]
    BY <2>3 DEF Whole
  <2>5. QED
    BY <1>2, <2>1, <2>2, <2>3, <2>4 DEF Reads, Same, Stays, Whole
<1>3. CASE Passes(s)
  BY <1>1, <1>3 DEF Passes, Same, Stays, Whole, Kept, Ahead
<1>4. CASE Spawns(s)
  BY <1>1, <1>4 DEF Spawns, Whole, Ahead
<1>5. CASE Commits(s) \/ Fails(s)
  BY <1>1, <1>5 DEF Commits, Fails, Same, Whole, Kept, Ahead
<1>6. CASE Refuses(s)
  BY <1>1, <1>6 DEF Refuses, Offers, Stays, Whole, Kept, Ahead
<1>7. CASE Sends(s)
  <2>1. /\ \A j \in DOMAIN chan[s] : /\ j \in DOMAIN chan'[s]
                                    /\ chan'[s][j] = chan[s][j]
        /\ \E j \in DOMAIN chan'[s] : chan'[s][j] = read
    <3>1. /\ DOMAIN chan'[s] = 1 .. Len(chan[s]) + 1
          /\ DOMAIN chan[s] = 1 .. Len(chan[s])
          /\ Len(chan[s]) \in Nat
          /\ chan'[s][Len(chan[s]) + 1] = read
          /\ \A j \in 1 .. Len(chan[s]) : chan'[s][j] = chan[s][j]
      BY <1>1, <1>7 DEF Sends
    <3>2. Len(chan[s]) + 1 \in DOMAIN chan'[s]
      BY <3>1
    <3>3. QED
      BY <3>1, <3>2
  <2>2. \A i \in 1 .. read : Kept(s, i) \/ i \in lost[s] \/ i = read
    BY <1>7 DEF Sends, Whole
  <2>3. \A i : Kept(s, i) => Kept(s, i)'
    BY <1>7, <2>1 DEF Sends, Offers, Kept
  <2>4. read' = read /\ lost'[s] = lost[s] /\ worker'[s] = "running"
    BY <1>7 DEF Sends, Offers, Stays
  <2>5. Kept(s, read)'
    BY <2>1, <2>4 DEF Kept
  <2>6. QED
    BY <2>2, <2>3, <2>4, <2>5 DEF Whole
<1>8. CASE Receives(s)
  <2>1. /\ DOMAIN chan[s] = 1 .. Len(chan[s]) /\ Len(chan[s]) \in Nat
        /\ DOMAIN chan'[s] = 1 .. Len(chan[s]) - 1
        /\ \A i \in DOMAIN chan'[s] : chan'[s][i] = chan[s][i + 1]
        /\ DOMAIN buf[s] = 1 .. Len(buf[s]) /\ Len(buf[s]) \in Nat
        /\ DOMAIN buf'[s] = 1 .. Len(buf[s]) + 1
        /\ \A i \in DOMAIN buf[s] : buf'[s][i] = buf[s][i]
        /\ buf'[s][Len(buf[s]) + 1] = chan[s][1]
    BY <1>1, <1>8 DEF Receives
  <2>2. ASSUME NEW i, Kept(s, i) PROVE Kept(s, i)'
    <3>1. CASE \E j \in DOMAIN buf[s] : buf[s][j] = i
      BY <2>1, <3>1 DEF Kept
    <3>2. ASSUME NEW j \in DOMAIN chan[s], chan[s][j] = i
          PROVE  Kept(s, i)'
      <4>1. CASE j = 1
        <5>1. Len(buf[s]) + 1 \in DOMAIN buf'[s]
          BY <2>1
        <5>2. QED
          BY <2>1, <3>2, <4>1, <5>1 DEF Kept
      <4>2. CASE j # 1
        <5>1. j - 1 \in DOMAIN chan'[s] /\ (j - 1) + 1 = j
          BY <2>1, <4>2
        <5>2. chan'[s][j - 1] = i
          BY <2>1, <3>2, <5>1
        <5>3. QED
          BY <5>1, <5>2 DEF Kept
      <4>3. QED
        BY <4>1, <4>2
    <3>3. QED
      BY <2>2, <3>1, <3>2 DEF Kept
  <2>3. /\ read' = read /\ lost'[s] = lost[s] /\ pc' = pc
        /\ worker[s] = "running" /\ worker'[s] = "running"
    BY <1>8 DEF Receives, Stays
  <2>4. \A i \in 1 .. read : Kept(s, i) \/ i \in lost[s] \/ Late(i)
    BY <2>3 DEF Whole
  <2>5. \A i : Late(i) => Late(i)'
    BY <2>3 DEF Ahead
  <2>6. \A i \in 1 .. read' : \/ Kept(s, i)' \/ i \in lost'[s]
                              \/ Late(i)'
    BY <2>2, <2>3, <2>4, <2>5
  <2>7. QED
    BY <2>3, <2>6 DEF Whole
<1>9. QED
  BY <1>2, <1>3, <1>4, <1>5, <1>6, <1>7, <1>8 DEF SlotStep

LEMMA StreamInvariance == Spec => []StreamInv
<1>1. Init => Setup /\ Senders /\ OnlySetupFailsTheRead
  BY ConstantsAssumption
  DEF Init, Setup, Senders, OnlySetupFailsTheRead, Slots
<1>2. ASSUME Init, NEW s \in Slots
      PROVE  InOrder(s) /\ Bounded(s) /\ Whole(s)
  <2>1. /\ chan[s] = <<>> /\ buf[s] = <<>> /\ lost[s] = {}
        /\ worker[s] = "none" /\ read = 0 /\ pc = "idle"
        /\ s \in {"l1", "l2"}
    BY <1>2 DEF Init, Tiers, Slots
  <2>2. DOMAIN chan[s] = {} /\ DOMAIN buf[s] = {} /\ Len(chan[s]) = 0
    BY <2>1
  <2>3. QED
    BY <2>1, <2>2 DEF InOrder, Bounded, Whole, Ahead
<1>3. ASSUME TypeOK, HasChunk, Setup, Senders, OnlySetupFailsTheRead,
             \A s \in Slots : InOrder(s) /\ Bounded(s) /\ Whole(s),
             [Next]_vars
      PROVE  /\ (Setup /\ Senders /\ OnlySetupFailsTheRead)'
             /\ (\A s \in Slots : InOrder(s) /\ Bounded(s) /\ Whole(s))'
  <2>1. (Setup /\ Senders /\ OnlySetupFailsTheRead)'
    BY <1>3, StepSetup, StepSenders
  <2>2. \A s \in Slots : SlotStep(s)
    BY <1>3, StepSlot
  <2>3. \A s \in Slots : (InOrder(s) /\ Bounded(s) /\ Whole(s))'
    BY <1>3, <2>2, StepInOrder, StepBounded, StepWhole
  <2>4. QED
    BY <2>1, <2>3 DEF Slots
<1>4. Init /\ TypeOK /\ HasChunk => StreamInv
  BY <1>1, <1>2 DEF StreamInv
<1>5. StreamInv /\ [Next]_vars /\ (TypeOK /\ HasChunk)' => StreamInv'
  BY <1>3 DEF StreamInv
<1>6. QED
  BY <1>4, <1>5, Typed, PTL DEF Spec

(* Promotion costs the client its response only if a tier opens no miss    *)
(* handler for the first chunk, for every body, capacity and interleaving. *)
THEOREM PromotionFailsAtFirstChunkOnly == Spec => []OnlySetupFailsTheRead
<1>1. StreamInv => OnlySetupFailsTheRead
  BY DEF StreamInv
<1>2. QED
  BY <1>1, StreamInvariance, PTL

(* A task that has not failed is refused no chunk among the first          *)
(* Capacity, however slow it is.                                           *)
THEOREM ChannelTakesItsCapacity == Spec => []FirstChunksAreNotRefused
<1>1. StreamInv => FirstChunksAreNotRefused
  BY DEF StreamInv, Bounded, FirstChunksAreNotRefused
<1>2. QED
  BY <1>1, StreamInvariance, PTL

(* What a task has committed is the body in order, less the chunks its     *)
(* channel refused and the one in hand when the handler was dropped.       *)
THEOREM CommitsAllButRefused == Spec => []OnlyRefusedChunksAreMissing
<1>1. ASSUME StreamInv, NEW s \in Slots, worker[s] = "committed"
      PROVE  /\ \A i, j \in DOMAIN stored[s] :
                   i < j => stored[s][i] < stored[s][j]
             /\ Missing(s) \subseteq
                   lost[s] \cup (IF pc = "dropped" THEN {read} ELSE {})
  <2>1. stored[s] = buf[s] /\ chan[s] = <<>>
    BY <1>1 DEF StreamInv, Whole
  <2>2. \A i, j \in DOMAIN buf[s] : i < j => buf[s][i] < buf[s][j]
    BY <1>1 DEF StreamInv, InOrder
  <2>3. ~Ahead(s)
    BY <1>1 DEF StreamInv, Senders, Ahead, Slots
  <2>4. \A i \in 1 .. read : \/ \E j \in DOMAIN buf[s] : buf[s][j] = i
                             \/ i \in lost[s]
                             \/ i = read /\ pc = "dropped"
    <3>1. DOMAIN chan[s] = {}
      BY <2>1
    <3>2. QED
      BY <1>1, <2>3, <3>1 DEF StreamInv, Whole, Kept
  <2>5. QED
    BY <2>1, <2>2, <2>4 DEF Missing
<1>2. StreamInv => OnlyRefusedChunksAreMissing
  BY <1>1 DEF OnlyRefusedChunksAreMissing
<1>3. QED
  BY <1>2, StreamInvariance, PTL
-----------------------------------------------------------------------------
(* What the steps of the contract need to know besides: when a body has    *)
(* been read, who is copied to, when a tier has got its copy, and that the *)
(* body in a miss handler is part of what was read, no chunk before its    *)
(* place.                                                                  *)
PartOf(b, n) == /\ \A i, j \in DOMAIN b : i < j => b[i] < b[j]
                /\ \A i \in DOMAIN b : i <= b[i] /\ b[i] <= n

CopyInv ==
    /\ outcome = "eof" => read = Length
    /\ \A s \in Slots : worker[s] # "none" => s \in promote
    /\ \A s \in Slots : stored[s] # None => worker[s] = "committed"
    /\ stored["l0"] # None => pc = "finished"
    /\ \A t \in Tiers : PartOf(buf[t], read)

(* A part with one more chunk, later than all in it.                       *)
LEMMA PartGrows ==
    ASSUME NEW b \in Seq(Nat), NEW n \in Nat, NEW m \in Nat, NEW c \in Nat,
           PartOf(b, n), n <= m, c <= m, c >= 1,
           \A i \in DOMAIN b : b[i] < c
    PROVE  PartOf(Append(b, c), m)
<1> DEFINE d == Append(b, c)
<1>1. /\ DOMAIN b = 1 .. Len(b) /\ Len(b) \in Nat
      /\ DOMAIN d = 1 .. Len(b) + 1
      /\ \A i \in 1 .. Len(b) : d[i] = b[i] /\ b[i] \in Nat
      /\ d[Len(b) + 1] = c
  OBVIOUS
<1> HIDE DEF d
<1>2. \A i \in 1 .. Len(b) + 1 : i \in 1 .. Len(b) \/ i = Len(b) + 1
  BY <1>1
<1>3. Len(b) + 1 <= c
  <2>1. CASE Len(b) = 0
    BY <2>1
  <2>2. CASE Len(b) # 0
    <3>1. Len(b) \in DOMAIN b
      BY <1>1, <2>2
    <3>2. Len(b) <= b[Len(b)] /\ b[Len(b)] < c /\ b[Len(b)] \in Nat
      BY <1>1, <3>1 DEF PartOf
    <3>3. QED
      BY <1>1, <3>2
  <2>3. QED
    BY <2>1, <2>2
<1> DEFINE k == Len(b)
<1>7. /\ \A i, j \in 1 .. k : i < j => d[i] < d[j]
      /\ \A i \in 1 .. k : i <= d[i] /\ d[i] <= n /\ d[i] < c /\ d[i] \in Nat
      /\ d[k + 1] = c /\ k \in Nat /\ k + 1 <= c
  BY <1>1, <1>3 DEF PartOf
<1> HIDE DEF k
<1>4. ASSUME NEW i \in 1 .. k + 1
      PROVE  i <= d[i] /\ d[i] <= m
  <2>1. CASE i \in 1 .. k
    <3>1. i <= d[i] /\ d[i] <= n /\ d[i] \in Nat
      BY <1>7, <2>1
    <3>2. QED
      BY <3>1
  <2>2. CASE i = k + 1
    BY <1>7, <2>2
  <2>3. QED
    BY <1>7, <2>1, <2>2
<1>5. ASSUME NEW i \in 1 .. k + 1, NEW j \in 1 .. k + 1, i < j
      PROVE  d[i] < d[j]
  <2>1. i \in 1 .. k
    BY <1>5, <1>7
  <2>2. CASE j \in 1 .. k
    BY <1>5, <1>7, <2>1, <2>2
  <2>3. CASE j = k + 1
    BY <1>7, <2>1, <2>3
  <2>4. QED
    BY <1>7, <2>2, <2>3
<1>6. QED
  BY <1>1, <1>4, <1>5 DEF PartOf, d, k

LEMMA StepCopies ==
    ASSUME StreamInv, CopyInv, [Next]_vars
    PROVE  CopyInv'
<1> DEFINE Copied ==
             /\ outcome = "eof" => read = Length
             /\ \A s \in Slots : worker[s] # "none" => s \in promote
             /\ \A s \in Slots : stored[s] # None => worker[s] = "committed"
             /\ stored["l0"] # None => pc = "finished"
<1>0. /\ TypeOK /\ HasChunk /\ Setup /\ Senders /\ OnlySetupFailsTheRead
      /\ \A s \in Slots : InOrder(s)
  BY DEF StreamInv
<1>1. Copied'
  <2>1. Copied /\ lazy \subseteq promote
    BY <1>0 DEF CopyInv, Setup
  <2> USE <1>0, <2>1 DEF TypeOK, Slots, Tiers
  <2>2. CASE ReadChunk
    BY <2>2 DEF ReadChunk
  <2>3. CASE ReadEof
    BY <2>3 DEF ReadEof
  <2>4. CASE ReadFails
    BY <2>4 DEF ReadFails
  <2>5. CASE Finish
    BY <2>5 DEF Finish
  <2>6. CASE JoinL1
    BY <2>6 DEF JoinL1
  <2>7. CASE JoinL2
    BY <2>7 DEF JoinL2
  <2>8. CASE CommitL0
    BY <2>8 DEF CommitL0
  <2>9. CASE Drop
    BY <2>9 DEF Drop, Over
  <2>10. ASSUME NEW u \in Slots, Spawn(u) PROVE Copied'
    <3>1. worker[u] = "none"
      BY <2>10 DEF Spawn, Senders
    <3>2. QED
      BY <2>10, <3>1 DEF Spawn
  <2>11. ASSUME NEW u \in Slots, SpawnFails(u) PROVE Copied'
    BY <2>11 DEF SpawnFails
  <2>12. ASSUME NEW u \in Slots, TrySend(u) PROVE Copied'
    BY <2>12 DEF TrySend
  <2>13. ASSUME NEW u \in Slots, Receive(u) PROVE Copied'
    BY <2>13 DEF Receive
  <2>14. ASSUME NEW u \in Slots, Commit(u) PROVE Copied'
    BY <2>14 DEF Commit
  <2>15. ASSUME NEW u \in Slots, WorkerFails(u) PROVE Copied'
    BY <2>15 DEF WorkerFails
  <2>16. CASE UNCHANGED vars
    BY <2>16 DEF vars
  <2>17. CASE FinishFails
    BY <2>17 DEF FinishFails
  <2>18. QED
    BY <2>2, <2>3, <2>4, <2>5, <2>6, <2>7, <2>8, <2>9, <2>10, <2>11, <2>12,
       <2>13, <2>14, <2>15, <2>16, <2>17
    DEF Next, ReadBody, Finishing, Work
<1>2. /\ \A t \in Tiers : buf[t] \in Seq(Nat)
      /\ \A s \in Slots : chan[s] \in Seq(Nat)
      /\ read \in Nat
  BY <1>0, ConstantsAssumption DEF TypeOK, Chunks, Tiers, Slots
<1>3. \A t \in Tiers : PartOf(buf[t], read)
  BY DEF CopyInv
<1>4. ASSUME NEW s \in Slots PROVE PartOf(buf'[s], read')
  <2>1. SlotStep(s)
    BY <1>0, StepSlot
  <2>2. s \in Tiers
    BY DEF Tiers
  <2>3. CASE Receives(s)
    <3>1. /\ chan[s] # <<>> /\ read' = read
          /\ buf'[s] = Append(buf[s], Head(chan[s]))
      BY <2>3 DEF Receives
    <3>2. 1 \in DOMAIN chan[s] /\ Head(chan[s]) = chan[s][1]
      BY <1>2, <3>1
    <3>3. /\ Head(chan[s]) \in Chunks
      BY <1>0, <3>1 DEF TypeOK
    <3>4. /\ Head(chan[s]) <= read
          /\ \A i \in DOMAIN buf[s] : buf[s][i] < Head(chan[s])
      BY <1>0, <3>2 DEF InOrder
    <3>5. Head(chan[s]) \in Nat /\ Head(chan[s]) >= 1
      BY <3>3, ConstantsAssumption DEF Chunks
    <3>6. /\ buf[s] \in Seq(Nat) /\ PartOf(buf[s], read)
          /\ read \in Nat /\ read <= read
      BY <1>2, <1>3, <2>2
    <3> HIDE <1>3
    <3>7. PartOf(Append(buf[s], Head(chan[s])), read)
      BY <3>4, <3>5, <3>6, PartGrows
    <3>8. QED
      BY <3>1, <3>7
  <2>4. CASE ~Receives(s)
    <3>1. buf'[s] = buf[s] /\ (read' = read \/ read' = read + 1)
      BY <2>1, <2>4
      DEF SlotStep, Reads, Passes, Spawns, Sends, Refuses, Offers, Commits,
          Fails, Same
    <3>2. PartOf(buf[s], read)
      BY <1>3, <2>2
    <3>3. \A i \in DOMAIN buf[s] : buf[s][i] \in Nat
      BY <1>2, <2>2
    <3>4. QED
      BY <1>2, <3>1, <3>2, <3>3 DEF PartOf
  <2>5. QED
    BY <2>3, <2>4
<1>5. PartOf(buf'["l0"], read')
  <2>1. /\ "l0" \in Tiers /\ "l0" \notin Slots /\ buf["l0"] \in Seq(Nat)
        /\ PartOf(buf["l0"], read)
        /\ \A i \in DOMAIN buf["l0"] :
              buf["l0"][i] \in Nat /\ buf["l0"][i] <= read
    <3>1. "l0" \in Tiers /\ "l0" \notin Slots
      BY DEF Tiers, Slots
    <3>2. buf["l0"] \in Seq(Nat) /\ PartOf(buf["l0"], read)
      BY <1>2, <1>3, <3>1
    <3>3. QED
      BY <3>1, <3>2 DEF PartOf
  <2>2. CASE ReadChunk /\ buf' # buf
    <3>1. buf'["l0"] = Append(buf["l0"], read + 1) /\ read' = read + 1
      BY <1>0, <2>1, <2>2 DEF ReadChunk, TypeOK
    <3>2. \A i \in DOMAIN buf["l0"] : buf["l0"][i] < read + 1
      BY <1>2, <2>1
    <3>3. read + 1 \in Nat /\ read <= read + 1 /\ read + 1 >= 1
          /\ read + 1 <= read + 1
      BY <1>2
    <3> HIDE <1>3
    <3>4. QED
      BY <1>2, <2>1, <3>1, <3>2, <3>3, PartGrows
  <2>3. CASE ~(ReadChunk /\ buf' # buf)
    <3>1. buf'["l0"] = buf["l0"] /\ (read' = read \/ read' = read + 1)
      BY <1>0, <2>1, <2>3
      DEF TypeOK, Next, ReadBody, Finishing, Work, vars, ReadChunk, ReadEof,
          ReadFails, Finish, FinishFails, JoinL1, JoinL2, CommitL0, Drop, Spawn,
          SpawnFails, TrySend, Receive, Commit, WorkerFails
    <3>2. QED
      BY <1>2, <2>1, <3>1 DEF PartOf
  <2>4. QED
    BY <2>2, <2>3
<1>6. QED
  BY <1>1, <1>4, <1>5 DEF CopyInv, Tiers

LEMMA CopyInvariance == Spec => []CopyInv
<1>1. Init => CopyInv
  <2> SUFFICES ASSUME Init PROVE CopyInv
    OBVIOUS
  <2>1. \A t \in Tiers : buf[t] = <<>>
    BY DEF Init
  <2>2. \A t \in Tiers : PartOf(buf[t], read)
    BY <2>1 DEF PartOf
  <2>3. QED
    BY <2>2 DEF Init, CopyInv, Slots, Tiers
<1>2. StreamInv /\ CopyInv /\ [Next]_vars => CopyInv'
  BY StepCopies
<1>3. QED
  BY <1>1, <1>2, StreamInvariance, PTL DEF Spec

(* A part of the first n chunks is one of the contract's.                  *)
LEMMA PartsArePromised ==
    ASSUME NEW b \in Seq(Nat), NEW n \in Nat, PartOf(b, n)
    PROVE  b \in Contract!Parts(n)
<1>1. /\ DOMAIN b = 1 .. Len(b) /\ Len(b) \in Nat
      /\ b \in [1 .. Len(b) -> Nat]
  OBVIOUS
<1>2. Len(b) \in 0 .. n
  <2>1. CASE Len(b) = 0
    BY <2>1
  <2>2. CASE Len(b) # 0
    <3>1. Len(b) \in DOMAIN b /\ b[Len(b)] \in Nat
      BY <1>1, <2>2
    <3>2. Len(b) <= b[Len(b)] /\ b[Len(b)] <= n
      BY <3>1 DEF PartOf
    <3>3. QED
      BY <1>1, <3>1, <3>2
  <2>3. QED
    BY <2>1, <2>2
<1>3. \A i \in 1 .. Len(b) : b[i] \in 1 .. n
  BY <1>1 DEF PartOf
<1>4. b \in [1 .. Len(b) -> 1 .. n]
  BY <1>1, <1>3
<1>5. b \in UNION {[1 .. m -> 1 .. n] : m \in 0 .. n}
  BY <1>2, <1>4
<1>6. QED
  BY <1>5 DEF Contract!Parts, PartOf

(* A task that commits has all that fits its channel.                      *)
LEMMA CommitSettles ==
    ASSUME StreamInv, CopyInv, JoinedInOrder, NEW s \in Slots, Commit(s)
    PROVE  Contract!Settle(s)
<1>1. /\ TypeOK /\ HasChunk /\ Senders
      /\ InOrder(s) /\ Bounded(s) /\ Whole(s)
  BY DEF StreamInv
<1>2. /\ worker[s] = "running" /\ chan[s] = <<>> /\ s \notin tx
      /\ stored' = [stored EXCEPT ![s] = buf[s]]
      /\ UNCHANGED <<promote, pc, read>>
  BY DEF Commit
<1>3. pc \in {"join_l1", "join_l2", "commit_l0", "failed", "dropped"}
  BY <1>1, <1>2 DEF TypeOK, Senders, JoinedInOrder, Slots
<1>4. /\ Phase \in {"finishing", "failed", "dropped"}
      /\ Phase = "dropped" <=> pc = "dropped"
  BY <1>3 DEF Phase, Slots
<1>5. UNCHANGED Phase
  BY <1>2 DEF Phase
<1>6. Contract!Gets(s, buf[s])
  <2>1. s \in promote /\ stored[s] = None
    BY <1>2 DEF CopyInv
  <2>2. QED
    BY <1>2, <2>1 DEF Contract!Gets
<1>7. buf[s] \in Contract!Parts(read)
  <2>1. s \in Tiers
    BY DEF Tiers
  <2>2. buf[s] \in Seq(Nat) /\ read \in Nat
    BY <1>1, <2>1, ConstantsAssumption DEF TypeOK, Chunks
  <2>3. PartOf(buf[s], read)
    BY <2>1 DEF CopyInv
  <2>4. QED
    BY <2>2, <2>3, PartsArePromised
<1>8. ASSUME NEW i \in Contract!Fits PROVE \E j \in DOMAIN buf[s] : buf[s][j] = i
  <2>1. i \in 1 .. read /\ i <= Capacity /\ (pc = "dropped" => i # read)
    BY <1>4 DEF Contract!Fits
  <2>2. i \notin lost[s]
    <3>1. lost[s] \subseteq Nat /\ Capacity \in Nat /\ i \in Nat
      BY <1>1, <2>1, ConstantsAssumption DEF TypeOK, Chunks
    <3>2. \A k \in lost[s] : k > Capacity
      BY <1>1, <1>2 DEF Bounded
    <3>3. QED
      BY <2>1, <3>1, <3>2
  <2>3. ~Ahead(s)
    BY <1>3 DEF Ahead, Slots
  <2>4. Kept(s, i)
    BY <1>1, <1>2, <2>1, <2>2, <2>3 DEF Whole
  <2>5. DOMAIN chan[s] = {}
    BY <1>2
  <2>6. QED
    BY <2>4, <2>5 DEF Kept
<1>9. QED
  BY <1>4, <1>5, <1>2, <1>6, <1>7, <1>8 DEF Contract!Settle

(* Whatever the interleaving, the lengths and the failures, promotion does *)
(* what its contract says: one copy for a tier at most, in order, with all *)
(* that fits a channel, after the read and, if finish answers Ok, before   *)
(* it does.                                                                *)
THEOREM ImplementsContract == Spec => ContractSpec
<1>1. Init => Contract!Init
  BY DEF Init, Contract!Init, Phase
<1>2. StreamInv /\ CopyInv /\ JoinedInOrder /\ [Next]_vars
        => [Contract!Next]_(Contract!vars)
  <2> SUFFICES ASSUME StreamInv, CopyInv, JoinedInOrder, [Next]_vars
               PROVE  Contract!Next \/ UNCHANGED Contract!vars
    OBVIOUS
  <2>0. TypeOK /\ HasChunk /\ Setup
    BY DEF StreamInv
  <2>1. CASE ReadChunk
    <3>1. Contract!Take
      BY <2>1 DEF ReadChunk, Contract!Take, Phase, Slots
    <3>2. QED
      BY <3>1 DEF Contract!Next
  <2>2. CASE Finish
    <3>1. read \in {0, Length}
      BY <2>2 DEF Finish, MayFinish, CopyInv
    <3>2. Contract!Close
      BY <2>2, <3>1 DEF Finish, Contract!Close, Phase, Slots
    <3>3. QED
      BY <3>2 DEF Contract!Next
  <2>3. CASE Drop
    <3>1. Contract!Abandon
      BY <2>0, <2>3 DEF TypeOK, Drop, Over, Contract!Abandon, Phase, Slots
    <3>2. QED
      BY <3>1 DEF Contract!Next
  <2>4. CASE CommitL0
    <3>1. Contract!Return
      <4>1. Phase = "finishing" /\ Phase' = "returned"
            /\ UNCHANGED <<promote, read>>
        BY <2>4 DEF CommitL0, Phase, Slots
      <4>2. CASE UNCHANGED stored
        BY <4>1, <4>2 DEF Contract!Return
      <4>3. CASE "l0" \in promote
                   /\ stored' = [stored EXCEPT !["l0"] = buf["l0"]]
        <5>1. "l0" \in Tiers \ Slots
          BY DEF Tiers, Slots
        <5>2. buf["l0"] \in Seq(Nat) /\ read \in Nat
          BY <2>0, <5>1, ConstantsAssumption DEF TypeOK, Chunks
        <5>3. buf["l0"] \in Contract!Parts(read)
          BY <5>1, <5>2, PartsArePromised DEF CopyInv
        <5>4. stored["l0"] = None
          BY <2>4 DEF CommitL0, CopyInv
        <5>5. Contract!Gets("l0", buf["l0"])
          BY <4>3, <5>4 DEF Contract!Gets
        <5>6. QED
          BY <4>1, <5>1, <5>3, <5>5 DEF Contract!Return
      <4>4. QED
        BY <2>4, <4>2, <4>3 DEF CommitL0
    <3>2. QED
      BY <3>1 DEF Contract!Next
  <2>5. ASSUME NEW s \in Slots, Commit(s) PROVE Contract!Next
    BY <2>5, CommitSettles DEF Contract!Next
  <2>6. CASE \/ ReadEof \/ ReadFails \/ JoinL1 \/ JoinL2
             \/ UNCHANGED vars
             \/ \E s \in Slots : \/ Spawn(s) \/ SpawnFails(s) \/ TrySend(s)
                                 \/ Receive(s) \/ WorkerFails(s)
    <3>1. UNCHANGED <<promote, read, stored>>
      BY <2>6
      DEF ReadEof, ReadFails, JoinL1, JoinL2, vars, Spawn, SpawnFails,
          TrySend, Receive, WorkerFails
    <3>2. UNCHANGED Phase
      BY <2>6
      DEF ReadEof, ReadFails, JoinL1, JoinL2, vars, Spawn, SpawnFails,
          TrySend, Receive, WorkerFails, Phase, Slots
    <3>3. QED
      BY <3>1, <3>2 DEF Contract!vars
  <2>7. CASE FinishFails
    <3>1. read \in {0, Length}
      BY <2>7 DEF FinishFails, MayFinish, CopyInv
    <3>2. Contract!CloseFails
      BY <2>7, <3>1 DEF FinishFails, Contract!CloseFails, Phase, Slots
    <3>3. QED
      BY <3>2 DEF Contract!Next
  <2>8. QED
    BY <2>1, <2>2, <2>3, <2>4, <2>5, <2>6, <2>7
    DEF Next, ReadBody, Finishing, Work
<1>3. QED
  BY <1>1, <1>2, StreamInvariance, CopyInvariance, JoinedInvariance, PTL
  DEF Spec, ContractSpec, Contract!Spec
=============================================================================
