--------------------------- MODULE StreamPromotion ---------------------------
(***************************************************************************)
(* A hit found in a lower tier is read by one client and copied into the   *)
(* faster tiers on the way (HitFromLower and HitFromL1PromoteL0 of         *)
(* src/src/storage/multi_tier.rs, driven by request_filter of              *)
(* src/src/proxy.rs).                                                      *)
(*                                                                         *)
(* L0 is filled by the hit handler itself.  L1 and L2 are each filled by a *)
(* task of their own, spawned at the first chunk and fed through a bounded *)
(* channel; the task commits what it has received when the sending half of *)
(* its channel is gone.  The hit handler, the two tasks and the client     *)
(* that may go away run concurrently.                                      *)
(*                                                                         *)
(* Chunk i of the body is the number i.                                    *)
(***************************************************************************)
EXTENDS Naturals, Sequences

CONSTANTS
    Length,     \* number of chunks of the body
    Capacity,   \* of a channel (64 in the code)
    None,       \* nothing stored
    SetupFails, \* may get_miss_handler of L1 or L2 fail?
    Faulty,     \* may a tier fail to write or commit, or the source to read
                \* or to finish?
    Cancels     \* may the client go away in the middle?

ASSUME ConstantsAssumption ==
    /\ Length \in Nat
    /\ Capacity \in Nat \ {0}
    /\ {SetupFails, Faulty, Cancels} \subseteq BOOLEAN
    /\ None \notin Seq(Nat)

Slots == {"l1", "l2"}       \* l1_async and l2_async
Tiers == {"l0"} \cup Slots

VARIABLES
    promote,  \* tiers the policy and the size gate admit the body to
    pc,       \* where the hit handler stands
    outcome,  \* of reading, as the client sees it
    read,     \* number of chunks taken from the source
    lazy,     \* slots with a lazy target, whose task is not spawned yet
    tx,       \* slots whose sending half the handler holds
    worker,   \* state of the task of each slot
    chan,     \* channel of each slot
    buf,      \* body in the miss handler of each tier
    stored,   \* what a tier has committed, or None
    lost      \* history: chunks try_send refused, per slot

vars == <<promote, pc, outcome, read, lazy, tx, worker, chan, buf, stored,
          lost>>

Chunks == 1 .. Length

TypeOK ==
    /\ promote \subseteq Tiers
    /\ pc \in {"idle", "l1", "l2", "join_l1", "join_l2", "commit_l0",
               "finished", "failed", "dropped"}
    /\ outcome \in {"reading", "eof", "source_error", "promotion_error"}
    /\ read \in 0 .. Length
    /\ lazy \subseteq Slots
    /\ tx \subseteq Slots
    /\ worker \in [Slots -> {"none", "running", "committed", "failed"}]
    /\ chan \in [Slots -> Seq(Chunks)]
    /\ buf \in [Tiers -> Seq(Chunks)]
    /\ stored \in [Tiers -> Seq(Chunks) \cup {None}]
    /\ lost \in [Slots -> SUBSET Chunks]

(* MultiTier::lookup wraps the hit for the tiers that are there, that the  *)
(* policy promotes to, and that a body of this length may enter.           *)
Init ==
    /\ promote \in SUBSET Tiers
    /\ pc = "idle"
    /\ outcome = "reading"
    /\ read = 0
    /\ lazy = promote \cap Slots
    /\ tx = {}
    /\ worker = [s \in Slots |-> "none"]
    /\ chan = [s \in Slots |-> <<>>]
    /\ buf = [t \in Tiers |-> <<>>]
    /\ stored = [t \in Tiers |-> None]
    /\ lost = [s \in Slots |-> {}]
-----------------------------------------------------------------------------
(* read_body                                                               *)

(* Mutant of ReadChunk: one chunk too many.                                *)
ReadChunkPastEnd ==
    /\ pc = "idle"
    /\ outcome = "reading"
    /\ read <= Length
    /\ read' = read + 1
    /\ pc' = "l1"
    /\ UNCHANGED <<promote, outcome, lazy, tx, worker, chan, buf, stored,
                   lost>>

(* The source gives a chunk and L0 buffers it; an error of L0 is ignored.  *)
ReadChunk ==
    /\ pc = "idle"
    /\ outcome = "reading"
    /\ read < Length
    /\ read' = read + 1
    /\ \/ /\ "l0" \in promote
          /\ buf' = [buf EXCEPT !["l0"] = Append(@, read + 1)]
       \/ /\ "l0" \notin promote \/ Faulty
          /\ UNCHANGED buf
    /\ pc' = "l1"
    /\ UNCHANGED <<promote, outcome, lazy, tx, worker, chan, stored, lost>>

ReadEof ==
    /\ pc = "idle"
    /\ outcome = "reading"
    /\ read = Length
    /\ outcome' = "eof"
    /\ UNCHANGED <<promote, pc, read, lazy, tx, worker, chan, buf, stored,
                   lost>>

ReadFails ==
    /\ Faulty
    /\ pc = "idle"
    /\ outcome = "reading"
    /\ outcome' = "source_error"
    /\ UNCHANGED <<promote, pc, read, lazy, tx, worker, chan, buf, stored,
                   lost>>

(* ensure_async_worker takes the lazy target and spawns the task.          *)
Spawn(s) ==
    /\ pc = s
    /\ s \in lazy
    /\ lazy' = lazy \ {s}
    /\ tx' = tx \cup {s}
    /\ worker' = [worker EXCEPT ![s] = "running"]
    /\ UNCHANGED <<promote, pc, outcome, read, chan, buf, stored, lost>>

(* get_miss_handler fails: the target is gone and the error is read_body's.*)
SpawnFails(s) ==
    /\ SetupFails
    /\ pc = s
    /\ s \in lazy
    /\ lazy' = lazy \ {s}
    /\ pc' = "idle"
    /\ outcome' = "promotion_error"
    /\ UNCHANGED <<promote, read, tx, worker, chan, buf, stored, lost>>

(* Mutant of HasRoom: the last place of the channel is never used.         *)
HasRoomForTwo(s) == worker[s] = "running" /\ Len(chan[s]) + 1 < Capacity

(* try_send succeeds while the task lives and the channel is not full.     *)
HasRoom(s) == worker[s] = "running" /\ Len(chan[s]) < Capacity

(* Mutant of TrySend: an error of try_send is read_body's, like that of    *)
(* ensure_async_worker.                                                    *)
TrySendPropagates(s) ==
    LET refused == s \in tx /\ ~HasRoom(s) IN
    /\ pc = s
    /\ s \notin lazy
    /\ IF s \in tx /\ HasRoom(s)
       THEN chan' = [chan EXCEPT ![s] = Append(@, read)]
       ELSE UNCHANGED chan
    /\ outcome' = IF refused THEN "promotion_error" ELSE outcome
    /\ pc' = IF s = "l1" /\ ~refused THEN "l2" ELSE "idle"
    /\ UNCHANGED <<promote, read, lazy, tx, worker, buf, stored, lost>>

(* After L1 comes L2; after L2 the chunk goes to the client.               *)
TrySend(s) ==
    /\ pc = s
    /\ s \notin lazy
    /\ IF s \in tx /\ HasRoom(s)
       THEN chan' = [chan EXCEPT ![s] = Append(@, read)]
       ELSE UNCHANGED chan
    /\ IF s \in tx /\ ~HasRoom(s)
       THEN lost' = [lost EXCEPT ![s] = @ \cup {read}]
       ELSE UNCHANGED lost
    /\ pc' = IF s = "l1" THEN "l2" ELSE "idle"
    /\ UNCHANGED <<promote, outcome, read, lazy, tx, worker, buf, stored>>
-----------------------------------------------------------------------------
(* finish, called by the proxy at the end of the body, or without reading  *)
(* it for a HEAD request or a 304 response.                                *)

MayFinish == outcome = "eof" \/ (outcome = "reading" /\ read = 0)

(* Mutant of Finish: L1's sender is kept while its task is joined.         *)
FinishKeepsSender ==
    /\ pc = "idle"
    /\ MayFinish
    /\ pc' = "join_l1"
    /\ UNCHANGED <<promote, outcome, read, lazy, tx, worker, chan, buf, stored,
                   lost>>

(* The source is finished first.                                           *)
Finish ==
    /\ pc = "idle"
    /\ MayFinish
    /\ pc' = "join_l1"
    /\ tx' = tx \ {"l1"}
    /\ UNCHANGED <<promote, outcome, read, lazy, worker, chan, buf, stored,
                   lost>>

(* Mutant of FinishFails: the senders outlive the call.                    *)
FinishFailsKeepsSenders ==
    /\ Faulty
    /\ pc = "idle"
    /\ MayFinish
    /\ pc' = "failed"
    /\ UNCHANGED <<promote, outcome, read, lazy, tx, worker, chan, buf, stored,
                   lost>>

(* Its error is finish's, which returns at once: the handler is dropped,   *)
(* the tasks are joined by nobody and L0 is not committed.                 *)
FinishFails ==
    /\ Faulty
    /\ pc = "idle"
    /\ MayFinish
    /\ pc' = "failed"
    /\ tx' = {}
    /\ UNCHANGED <<promote, outcome, read, lazy, worker, chan, buf, stored,
                   lost>>

JoinL1 ==
    /\ pc = "join_l1"
    /\ worker["l1"] # "running"
    /\ pc' = "join_l2"
    /\ tx' = tx \ {"l2"}
    /\ UNCHANGED <<promote, outcome, read, lazy, worker, chan, buf, stored,
                   lost>>

(* Mutant of JoinL2: the task of L2 is not awaited.                        *)
SkipJoinL2 ==
    /\ pc = "join_l2"
    /\ pc' = "commit_l0"
    /\ UNCHANGED <<promote, outcome, read, lazy, tx, worker, chan, buf, stored,
                   lost>>

JoinL2 ==
    /\ pc = "join_l2"
    /\ worker["l2"] # "running"
    /\ pc' = "commit_l0"
    /\ UNCHANGED <<promote, outcome, read, lazy, tx, worker, chan, buf, stored,
                   lost>>

(* An error of L0 is ignored here too.                                     *)
CommitL0 ==
    /\ pc = "commit_l0"
    /\ pc' = "finished"
    /\ \/ /\ "l0" \in promote
          /\ stored' = [stored EXCEPT !["l0"] = buf["l0"]]
       \/ /\ "l0" \notin promote \/ Faulty
          /\ UNCHANGED stored
    /\ UNCHANGED <<promote, outcome, read, lazy, tx, worker, chan, buf, lost>>

Over == {"finished", "failed", "dropped"}

(* Mutant of Drop: the senders outlive the handler.                        *)
DropKeepsSenders ==
    /\ pc \notin Over
    /\ Cancels \/ outcome \in {"source_error", "promotion_error"}
    /\ pc' = "dropped"
    /\ UNCHANGED <<promote, outcome, read, lazy, tx, worker, chan, buf, stored,
                   lost>>

(* The proxy drops the handler unfinished when a read or a write to the    *)
(* client fails, or is itself dropped at an await.                         *)
Drop ==
    /\ pc \notin Over
    /\ Cancels \/ outcome \in {"source_error", "promotion_error"}
    /\ pc' = "dropped"
    /\ tx' = {}
    /\ UNCHANGED <<promote, outcome, read, lazy, worker, chan, buf, stored,
                   lost>>
-----------------------------------------------------------------------------
(* The task of a slot.                                                     *)

Receive(s) ==
    /\ worker[s] = "running"
    /\ chan[s] # <<>>
    /\ chan' = [chan EXCEPT ![s] = Tail(@)]
    /\ buf' = [buf EXCEPT ![s] = Append(@, Head(chan[s]))]
    /\ UNCHANGED <<promote, pc, outcome, read, lazy, tx, worker, stored, lost>>

(* Mutant of Commit: what is left in the channel is not drained.           *)
CommitUndrained(s) ==
    /\ worker[s] = "running"
    /\ s \notin tx
    /\ stored' = [stored EXCEPT ![s] = buf[s]]
    /\ worker' = [worker EXCEPT ![s] = "committed"]
    /\ UNCHANGED <<promote, pc, outcome, read, lazy, tx, chan, buf, lost>>

(* recv answers None: the channel is empty and its sender gone.            *)
Commit(s) ==
    /\ worker[s] = "running"
    /\ chan[s] = <<>>
    /\ s \notin tx
    /\ stored' = [stored EXCEPT ![s] = buf[s]]
    /\ worker' = [worker EXCEPT ![s] = "committed"]
    /\ UNCHANGED <<promote, pc, outcome, read, lazy, tx, chan, buf, lost>>

(* Mutant of WorkerFails: a task that cannot write commits what it has.    *)
WorkerFailsAndCommits(s) ==
    /\ Faulty
    /\ worker[s] = "running"
    /\ chan[s] # <<>> \/ s \notin tx
    /\ worker' = [worker EXCEPT ![s] = "failed"]
    /\ stored' = [stored EXCEPT ![s] = buf[s]]
    /\ UNCHANGED <<promote, pc, outcome, read, lazy, tx, chan, buf, lost>>

(* write_body or finish of the tier fails, and the task ends.              *)
WorkerFails(s) ==
    /\ Faulty
    /\ worker[s] = "running"
    /\ chan[s] # <<>> \/ s \notin tx
    /\ worker' = [worker EXCEPT ![s] = "failed"]
    /\ UNCHANGED <<promote, pc, outcome, read, lazy, tx, chan, buf, stored,
                   lost>>
-----------------------------------------------------------------------------
ReadBody == \/ ReadChunk \/ ReadEof \/ ReadFails
            \/ \E s \in Slots : Spawn(s) \/ SpawnFails(s) \/ TrySend(s)

Finishing == JoinL1 \/ JoinL2 \/ CommitL0

Work(s) == Receive(s) \/ Commit(s) \/ WorkerFails(s)

Next == \/ ReadBody \/ Finish \/ FinishFails \/ Finishing \/ Drop
        \/ \E s \in Slots : Work(s)

Spec == Init /\ [][Next]_vars

(* Tokio polls a task that is ready, and a tier's write_body and finish    *)
(* return.  Nothing obliges a client to read on or to stay.                *)
FairSpec == Spec /\ WF_vars(Finishing) /\ \A s \in Slots : WF_vars(Work(s))
-----------------------------------------------------------------------------
(* Properties.                                                             *)

(* A chunk that a task committed without is one that try_send refused: the *)
(* body in L1 or L2 is what the client read, in order, less those.  Holds  *)
(* whether the hit was finished or dropped.                                *)
Missing(s) == {i \in 1 .. read : \A j \in DOMAIN stored[s] : stored[s][j] # i}

OnlyRefusedChunksAreMissing ==
    \A s \in Slots :
        worker[s] = "committed" =>
            /\ \A i, j \in DOMAIN stored[s] :
                 i < j => stored[s][i] < stored[s][j]
            /\ Missing(s) \subseteq
                 lost[s] \cup (IF pc = "dropped" THEN {read} ELSE {})

(* Once finish has answered Ok no task of the hit still runs, so nothing   *)
(* is stored behind the client's back.  When it answers the source's error *)
(* they do run on, as they do when the hit is dropped: for their end see   *)
(* AbandonedWorkersEnd, for what they may still store ContractSpec.        *)
NoWorkerOutlivesFinish ==
    pc = "finished" => \A s \in Slots : worker[s] # "running"

(* A channel's worth of chunks is never refused, however slow the tasks    *)
(* are: a body that fits the channel is promoted whole.                    *)
FirstChunksAreNotRefused ==
    \A s \in Slots :
        worker[s] # "failed" => \A i \in lost[s] : i > Capacity

(* How far the code is from PromotionIsBestEffort below: promotion can     *)
(* cost the client its response at the first chunk only, and only if a     *)
(* tier opened no miss handler -- never by a full channel, nor by a task   *)
(* that has failed, however late.                                          *)
OnlySetupFailsTheRead ==
    outcome = "promotion_error" =>
        /\ read = 1
        /\ \E s \in promote \cap Slots : s \notin lazy /\ worker[s] = "none"

(* finish returns: it closes each channel before it joins the task that    *)
(* waits for that.                                                         *)
FinishReturns == pc = "join_l1" ~> pc \in Over

(* The tasks of a hit that nobody joins, because it was dropped unfinished *)
(* or finish has failed, come to an end.                                   *)
AbandonedWorkersEnd ==
    pc \in {"failed", "dropped"} ~> \A s \in Slots : worker[s] # "running"
-----------------------------------------------------------------------------
(* What promotion promises: the contract of PromotionContract.             *)

(* Phase of the hit that a place of the handler belongs to.                *)
Phase == CASE pc \in {"idle"} \cup Slots -> "reading"
           [] pc \in {"join_l1", "join_l2", "commit_l0"} -> "finishing"
           [] pc = "finished" -> "returned"
           [] pc = "failed" -> "failed"
           [] pc = "dropped" -> "dropped"

Contract == INSTANCE PromotionContract
              WITH phase <- Phase, taken <- read, copy <- stored

(* Chunks, channels, tasks and failures, in any order, amount to the steps *)
(* of the contract: a tier gets one copy at most, after the read and, if   *)
(* finish answers Ok, before it does, and nothing that was read and fits   *)
(* its channel is missing from it.                                         *)
ContractSpec == Contract!Spec
-----------------------------------------------------------------------------
(* What the code's comments and tests say and the code does not do.        *)

(* proxy.rs:240 "Best-effort cleanup of unused hit handler": finishing a   *)
(* hit that was not read stores nothing.                                   *)
CleanupStoresNothing ==
    pc = "finished" /\ outcome = "reading"
        => \A t \in Tiers : stored[t] = None

(* multi_tier.rs:67 "Promotion is best-effort; ignore failures so the      *)
(* client path stays clean": a tier that a body is promoted to never fails *)
(* the client's read.                                                      *)
PromotionIsBestEffort == outcome # "promotion_error"
=============================================================================
