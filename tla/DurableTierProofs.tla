-------------------------- MODULE DurableTierProofs --------------------------
(***************************************************************************)
(* Proofs about DurableTier, for every set of keys, of concurrent calls    *)
(* and of response lifetimes, with or without failing stores.              *)
(*                                                                         *)
(* The argument: every step of a call does one of four things to the index *)
(* (StepEffect), versions grow within a life and lives are counted up, so  *)
(* whatever a call has won lies in the past (WonInPast), and so does the   *)
(* entry a finished purge had found (PurgeInPast).                         *)
(***************************************************************************)
EXTENDS DurableTier, TLAPS

(* What the program counter of a call says about the rest of its state.    *)
CallShape ==
    \A t \in Tasks :
        /\ task[t].pc \in {"purging", "updating"} => task[t].seen # None
        /\ task[t].won # None => task[t].pc \in {"bumped", "unblobbed", "done"}
        /\ task[t].op = "purge"
              => task[t].pc \in {"purging", "bumped", "unblobbed", "done"}
        /\ task[t].res = "true" => task[t].pc = "done"

(* A call that goes to another place stays well typed.                     *)
LEMMA GotoType ==
    ASSUME task \in [Tasks -> CallState], NEW t \in Tasks, NEW pc \in PCs,
           Goto(t, pc)
    PROVE  task' \in [Tasks -> CallState]
<1> DEFINE c == [task[t] EXCEPT !.pc = pc]
<1>1. c \in CallState
  BY DEF CallState
<1>2. QED
  BY <1>1 DEF Goto

(* So does a call that answers ...                                         *)
LEMMA AnswerType ==
    ASSUME task \in [Tasks -> CallState], NEW t \in Tasks, NEW res \in Results,
           Answer(t, res)
    PROVE  task' \in [Tasks -> CallState]
<1> DEFINE c == [task[t] EXCEPT !.pc = "done", !.res = res]
<1>1. c \in CallState
  BY DEF CallState, PCs
<1>2. QED
  BY <1>1 DEF Answer

(* ... be it in its first step or in a later one,                          *)
LEMMA AnswerAtOnceType ==
    ASSUME task \in [Tasks -> CallState], NEW t \in Tasks,
           NEW op \in Ops, NEW res \in Results,
           AnswerAtOnce(t, op, res)
    PROVE  task' \in [Tasks -> CallState]
<1> DEFINE c == [task[t] EXCEPT !.op = op, !.pc = "done", !.res = res]
<1>1. c \in CallState
  BY DEF CallState, PCs
<1>2. QED
  BY <1>1 DEF AnswerAtOnce

(* a call that has read a manifest,                                        *)
LEMMA StartType ==
    ASSUME task \in [Tasks -> CallState], epoch \in [Keys -> Nat],
           NEW t \in Tasks, NEW op \in Ops, NEW pc \in PCs,
           NEW m \in Manifest \cup {None},
           Start(t, op, pc, m)
    PROVE  task' \in [Tasks -> CallState]
<1> DEFINE c == [task[t] EXCEPT !.op = op, !.pc = pc, !.seen = m,
                                !.epoch = epoch[Key(t)]]
<1>1. epoch[Key(t)] \in Nat
  BY DEF Key, CallState
<1>2. c \in CallState
  BY <1>1 DEF CallState
<1>3. QED
  BY <1>2 DEF Start

(* and a call whose write to the index takes effect.                       *)
LEMMA WinType ==
    ASSUME task \in [Tasks -> CallState], epoch \in [Keys -> Nat],
           NEW t \in Tasks, NEW pc \in PCs, NEW res \in Results,
           Win(t, pc, res)
    PROVE  task' \in [Tasks -> CallState]
<1> DEFINE c == [task[t] EXCEPT !.pc = pc, !.res = res, !.won = epoch[Key(t)]]
<1>1. epoch[Key(t)] \in Nat
  BY DEF Key, CallState
<1>2. c \in CallState
  BY <1>1 DEF CallState
<1>3. QED
  BY <1>2 DEF Win

(* What a well-typed call refers to.                                       *)
LEMMA KeyType ==
    ASSUME task \in [Tasks -> CallState], NEW t \in Tasks
    PROVE  /\ Key(t) \in Keys
           /\ task[t].seen \in Manifest \cup {None}
BY DEF Key, CallState

(* A cas_update leaves a manifest under the key.                           *)
LEMMA CasUpdateType ==
    ASSUME index \in [Keys -> Manifest \cup {None}], NEW k \in Keys,
           NEW version \in Nat, NEW meta \in Tasks, NEW expires_at \in Nat,
           CasUpdate(k, version, meta, expires_at)
    PROVE  index' \in [Keys -> Manifest \cup {None}]
BY DEF CasUpdate, Manifest

(* A call that takes one step knows no manifest and wins nothing by it.    *)
LEMMA AnswersAtOnce ==
    ASSUME task \in [Tasks -> CallState], NEW t \in Tasks,
           NEW op, NEW res, AnswerAtOnce(t, op, res)
    PROVE  /\ task'[t].op = op /\ task'[t].pc = "done"
           /\ task'[t].won = task[t].won /\ task'[t].seen = task[t].seen
<1>1. task[t] \in CallState
  OBVIOUS
<1>2. QED
  BY <1>1 DEF AnswerAtOnce, CallState

(* A first store call that fails ends the call and changes nothing else.   *)
LEMMA FirstCallFailsEffect ==
    ASSUME NEW t \in Tasks, FirstCallFails(t)
    PROVE  /\ task[t].pc \in {"idle", "hit"}
           /\ UNCHANGED <<index, blob, now, epoch>>
           /\ \E op \in Ops : /\ AnswerAtOnce(t, op, "backend")
                              /\ task[t].pc = "idle" \/ op = "fill"
<1>1. PICK op \in Calls :
            /\ Begins(t, op) \/ (op = "fill" /\ task[t].pc = "hit")
            /\ AnswerAtOnce(t, op, "backend")
  BY DEF FirstCallFails
<1>2. op \in Ops
  BY ConstantsAssumption DEF Ops
<1>3. QED
  BY <1>1, <1>2 DEF FirstCallFails, Begins

(* Every step of a call keeps the types.                                   *)
LEMMA StepTypeOK ==
    ASSUME TypeOK, CallShape, NEW t \in Tasks, Step(t)
    PROVE  TypeOK'
<1> USE DEF TypeOK
<1>a. /\ Key(t) \in Keys
      /\ task[t].seen \in Manifest \cup {None}
  BY KeyType
<1>b. \A m \in Manifest : /\ m # None 
                         /\ m.version \in Nat
                         /\ m.meta \in Tasks
                         /\ m.expires_at \in Nat
  BY ConstantsAssumption DEF Manifest
<1>c. \A ttl \in Ttls : now + ttl \in Nat
  BY ConstantsAssumption
<1>d. task[t].pc = "purging" => task[t].seen # None
  BY DEF CallShape
<1>1. CASE LookupMiss(t)
  BY <1>1, AnswerAtOnceType DEF LookupMiss, Results, Ops
<1>2. CASE LookupIndex(t)
  <2> DEFINE m == index[Key(t)]
             res == IF m.expires_at > now THEN "fresh" ELSE "stale"
             c == [task[t] EXCEPT !.op = "lookup", !.pc = "lookup",
                                  !.seen = m, !.epoch = epoch[Key(t)],
                                  !.res = res]
  <2>1. m \in Manifest \cup {None} /\ epoch[Key(t)] \in Nat
    BY <1>a
  <2>2. res \in Results
    BY DEF Results
  <2>3. c \in CallState
    <3> HIDE DEF m, res
    <3> QED
      BY <2>1, <2>2 DEF CallState, Ops, PCs
  <2>4. QED
    BY <1>2, <2>3 DEF LookupIndex
<1>3. CASE LookupBlob(t)
  BY <1>3, GotoType, AnswerType DEF LookupBlob, PCs, Results
<1>4. CASE HitFinish(t)
  BY <1>4, GotoType DEF HitFinish, PCs
<1>5. CASE StartFill(t)
  BY <1>5, <1>a, StartType DEF StartFill, PCs, Ops
<1>6. CASE StartRefill(t)
  <2> DEFINE c == [task[t] EXCEPT !.op = "fill", !.pc = "open"]
  <2>1. c \in CallState
    BY DEF CallState, Ops, PCs
  <2>2. QED
    BY <1>6, <2>1 DEF StartRefill
<1>7. CASE WriteBody(t)
  BY <1>7, GotoType DEF WriteBody, PCs
<1>8. CASE DropFill(t)
  BY <1>8, GotoType DEF DropFill, PCs
<1>9. CASE FillComplete(t)
  BY <1>9, <1>a, GotoType DEF FillComplete, PutBlob, PCs
<1>10. CASE FillPutNew(t)
  <2>1. PICK ttl \in Ttls :
          index' = [index EXCEPT ![Key(t)] =
                      [version |-> 0, meta |-> t, expires_at |-> now + ttl]]
    BY <1>10 DEF FillPutNew, PutNew
  <2>2. [version |-> 0, meta |-> t, expires_at |-> now + ttl] \in Manifest
    BY <1>c DEF Manifest
  <2>3. index' \in [Keys -> Manifest \cup {None}]
    BY <1>a, <2>1, <2>2
  <2>4. task' \in [Tasks -> CallState]
    BY <1>10, WinType DEF FillPutNew, PCs, Results
  <2>5. QED
    BY <1>10, <2>3, <2>4 DEF FillPutNew
<1>11. CASE FillCas(t)
  BY <1>11, <1>a, <1>b, <1>c, WinType, CasUpdateType DEF FillCas,
     CasMatches, PCs, Results
<1>12. CASE FillLoses(t)
  BY <1>12, AnswerType DEF FillLoses, Results
<1>13. CASE PurgeFindsNothing(t)
  BY <1>13, AnswerAtOnceType DEF PurgeFindsNothing, Results, Ops
<1>14. CASE PurgeGet(t)
  <2>1. PICK typ \in PurgeTypes :
          task' = [task EXCEPT ![t] =
                     [@ EXCEPT !.op = "purge", !.pc = "purging",
                               !.seen = index[Key(t)], !.typ = typ,
                               !.epoch = epoch[Key(t)]]]
    BY <1>14 DEF PurgeGet
  <2> DEFINE c == [task[t] EXCEPT !.op = "purge", !.pc = "purging",
                                  !.seen = index[Key(t)], !.typ = typ,
                                  !.epoch = epoch[Key(t)]]
  <2>2. /\ index[Key(t)] \in Manifest \cup {None}
        /\ epoch[Key(t)] \in Nat
        /\ typ \in {"Soft", "Hard"}
    BY <1>a, ConstantsAssumption
  <2>3. c \in CallState
    BY <2>2 DEF CallState, Ops, PCs
  <2>4. QED
    BY <1>14, <2>1, <2>3 DEF PurgeGet
<1>15. CASE PurgeBump(t)
  <2>1. CASE CasMatches(Key(t), task[t].seen.version)
    <3>1. /\ CasUpdate(Key(t), task[t].seen.version, task[t].seen.meta, 0)
          /\ Win(t, "bumped", "none")
      BY <1>15, <2>1 DEF PurgeBump
    <3>2. task[t].seen \in Manifest
      BY <1>15, <1>a, <1>d DEF PurgeBump
    <3>3. index' \in [Keys -> Manifest \cup {None}]
      BY <1>a, <1>b, <3>1, <3>2, CasUpdateType
    <3>4. QED
      BY <1>15, <3>1, <3>3, WinType DEF PurgeBump, PCs, Results
  <2>2. CASE ~CasMatches(Key(t), task[t].seen.version)
    BY <1>15, <2>2, GotoType DEF PurgeBump, PCs
  <2>3. QED
    BY <2>1, <2>2
<1>16. CASE PurgeBlob(t)
  BY <1>16, <1>a, GotoType DEF PurgeBlob, DeleteBlob, PCs
<1>17. CASE PurgeIndex(t)
  <2>1. index' \in [Keys -> Manifest \cup {None}]
    BY <1>17, <1>a DEF PurgeIndex, DeleteIndex
  <2>2. epoch' \in [Keys -> Nat]
    BY <1>17, <1>a DEF PurgeIndex, DeleteIndex
  <2>3. QED
    BY <1>17, <2>1, <2>2, AnswerType DEF PurgeIndex, DeleteIndex, Results
<1>18. CASE UpdateFindsNothing(t)
  BY <1>18, AnswerAtOnceType DEF UpdateFindsNothing, Results, Ops
<1>19. CASE UpdateGet(t)
  BY <1>19, <1>a, StartType DEF UpdateGet, PCs, Ops
<1>20. CASE UpdateCas(t)
  BY <1>20, <1>a, <1>b, <1>c, WinType, CasUpdateType DEF UpdateCas,
     CasMatches, PCs, Results
<1>21. CASE UpdateLoses(t)
  BY <1>21, AnswerType DEF UpdateLoses, Results
<1>22. CASE Touch(t)
  <2>1. index' \in [Keys -> Manifest \cup {None}]
    <3>1. CASE index[Key(t)] = None
      BY <1>22, <3>1 DEF Touch, TouchTtl
    <3>2. CASE index[Key(t)] # None
      <4>1. PICK e \in 0 .. MaxTime + 1 :
              index' = [index EXCEPT ![Key(t)].expires_at = e]
        BY <1>22, <3>2 DEF Touch, TouchTtl
      <4>2. e \in Nat
        BY ConstantsAssumption
      <4>3. [index[Key(t)] EXCEPT !.expires_at = e] \in Manifest
        BY <1>a, <3>2, <4>2 DEF Manifest
      <4>4. QED
        BY <1>a, <4>1, <4>3
    <3>3. QED
      BY <3>1, <3>2
  <2>2. QED
    BY <1>22, <2>1, AnswerAtOnceType DEF Touch, TouchTtl, Ops, Results
<1>23. CASE StoreFails(t)
  BY <1>23, AnswerType DEF StoreFails, Results
<1>24. CASE PurgeIgnoresFailure(t)
  BY <1>24, GotoType DEF PurgeIgnoresFailure, PCs
<1>25. CASE FirstCallFails(t)
  <2>1. /\ task[t].pc \in {"idle", "hit"}
        /\ UNCHANGED <<index, blob, now, epoch>>
        /\ \E op \in Ops : AnswerAtOnce(t, op, "backend")
    BY <1>25, FirstCallFailsEffect
  <2>2. QED
    BY <2>1, AnswerAtOnceType DEF Results
<1>26. QED
  BY <1>1, <1>2, <1>3, <1>4, <1>5, <1>6, <1>7, <1>8, <1>9, <1>10, <1>11, <1>12,
     <1>13, <1>14, <1>15, <1>16, <1>17, <1>18, <1>19, <1>20, <1>21, <1>22,
     <1>23, <1>24, <1>25
  DEF Step, Lookup, Fill, Purge, Update

(* Every step of a call keeps the shape of the calls.                      *)
LEMMA StepCallShape ==
    ASSUME TypeOK, CallShape, NEW t \in Tasks, Step(t)
    PROVE  CallShape'
<1> USE DEF TypeOK
<1> SUFFICES /\ \A u \in Tasks \ {t} : task'[u] = task[u]
             /\ task'[t].pc \in {"purging", "updating"} => task'[t].seen # None
             /\ task'[t].won # None
                   => task'[t].pc \in {"bumped", "unblobbed", "done"}
             /\ task'[t].op = "purge"
                   => task'[t].pc \in {"purging", "bumped", "unblobbed", "done"}
             /\ task'[t].res = "true" => task'[t].pc = "done"
  BY DEF CallShape
<1>a. task[t] \in CallState
  OBVIOUS
<1>1. CASE LookupMiss(t)
  BY <1>1, <1>a DEF CallShape, CallState, LookupMiss, Begins, AnswerAtOnce
<1>2. CASE LookupIndex(t)
  BY <1>2, <1>a DEF CallShape, CallState, LookupIndex, Begins
<1>3. CASE LookupBlob(t)
  <2>1. CASE Goto(t, "hit")
    BY <1>3, <1>a, <2>1 DEF CallShape, CallState, LookupBlob, Goto
  <2>2. CASE Answer(t, "notfound")
    BY <1>3, <1>a, <2>2 DEF CallShape, CallState, LookupBlob, Answer
  <2>3. QED
    BY <1>3, <2>1, <2>2 DEF LookupBlob
<1>4. CASE HitFinish(t)
  BY <1>4, <1>a DEF CallShape, CallState, HitFinish, Goto
<1>5. CASE StartFill(t)
  BY <1>5, <1>a DEF CallShape, CallState, StartFill, Begins, Start
<1>6. CASE StartRefill(t)
  BY <1>6, <1>a DEF CallShape, CallState, StartRefill
<1>7. CASE WriteBody(t)
  BY <1>7, <1>a DEF CallShape, CallState, WriteBody, Goto
<1>8. CASE DropFill(t)
  BY <1>8, <1>a DEF CallShape, CallState, DropFill, Goto
<1>9. CASE FillComplete(t)
  BY <1>9, <1>a DEF CallShape, CallState, FillComplete, Goto
<1>10. CASE FillPutNew(t)
  BY <1>10, <1>a DEF CallShape, CallState, FillPutNew, Win
<1>11. CASE FillCas(t)
  BY <1>11, <1>a DEF CallShape, CallState, FillCas, Win
<1>12. CASE FillLoses(t)
  BY <1>12, <1>a DEF CallShape, CallState, FillLoses, Answer
<1>13. CASE PurgeFindsNothing(t)
  BY <1>13, <1>a DEF CallShape, CallState, PurgeFindsNothing, Begins,
     AnswerAtOnce
<1>14. CASE PurgeGet(t)
  BY <1>14, <1>a DEF CallShape, CallState, PurgeGet, Begins
<1>15. CASE PurgeBump(t)
  <2>1. CASE Win(t, "bumped", "none")
    BY <1>15, <1>a, <2>1 DEF CallShape, CallState, PurgeBump, Win
  <2>2. CASE Goto(t, "bumped")
    BY <1>15, <1>a, <2>2 DEF CallShape, CallState, PurgeBump, Goto
  <2>3. QED
    BY <1>15, <2>1, <2>2 DEF PurgeBump
<1>16. CASE PurgeBlob(t)
  BY <1>16, <1>a DEF CallShape, CallState, PurgeBlob, Goto
<1>17. CASE PurgeIndex(t)
  BY <1>17, <1>a DEF CallShape, CallState, PurgeIndex, DeleteIndex, Answer,
     BeforeIndexDelete
<1>18. CASE UpdateFindsNothing(t)
  BY <1>18, <1>a DEF CallShape, CallState, UpdateFindsNothing, Begins,
     AnswerAtOnce
<1>19. CASE UpdateGet(t)
  BY <1>19, <1>a DEF CallShape, CallState, UpdateGet, Begins, Start
<1>20. CASE UpdateCas(t)
  BY <1>20, <1>a DEF CallShape, CallState, UpdateCas, Win
<1>21. CASE UpdateLoses(t)
  BY <1>21, <1>a DEF CallShape, CallState, UpdateLoses, Answer
<1>22. CASE Touch(t)
  BY <1>22, <1>a DEF CallShape, CallState, Touch, TouchTtl, Begins,
     AnswerAtOnce
<1>23. CASE StoreFails(t)
  BY <1>23, <1>a DEF CallShape, CallState, StoreFails, Answer,
     BeforeIndexDelete
<1>24. CASE PurgeIgnoresFailure(t)
  BY <1>24, <1>a DEF CallShape, CallState, PurgeIgnoresFailure, Goto
<1>25. CASE FirstCallFails(t)
  <2>1. /\ task[t].pc \in {"idle", "hit"}
        /\ UNCHANGED <<index, blob, now, epoch>>
        /\ \E op \in Ops : AnswerAtOnce(t, op, "backend")
    BY <1>25, FirstCallFailsEffect
  <2>2. QED
    BY <1>25, <1>a, <2>1 DEF CallShape, CallState, AnswerAtOnce
<1>26. QED
  BY <1>1, <1>2, <1>3, <1>4, <1>5, <1>6, <1>7, <1>8, <1>9, <1>10, <1>11, <1>12,
     <1>13, <1>14, <1>15, <1>16, <1>17, <1>18, <1>19, <1>20, <1>21, <1>22,
     <1>23, <1>24, <1>25
  DEF Step, Lookup, Fill, Purge, Update
-----------------------------------------------------------------------------
(* Every step of a call does one of four things to the index.              *)

(* No entry comes, goes or changes its version or its metadata.            *)
Silent(t) ==
    /\ \A k \in Keys :
         \/ index'[k] = index[k]
         \/ /\ index[k] # None /\ index'[k] # None
            /\ index'[k].version = index[k].version
            /\ index'[k].meta = index[k].meta
    /\ UNCHANGED epoch
    /\ task'[t].won = task[t].won

(* put_new made a new entry.                                               *)
Created(t) ==
    /\ index[Key(t)] = None
    /\ \E e \in Nat :
         index' = [index EXCEPT ![Key(t)] =
                     [version |-> 0, meta |-> t, expires_at |-> e]]
    /\ task[t].seen = None
    /\ task'[t].won = epoch[Key(t)]
    /\ UNCHANGED epoch

(* cas_update took the entry the call had seen to the next version.        *)
Revised(t) ==
    /\ index[Key(t)] # None
    /\ task[t].seen # None
    /\ task[t].seen.version = index[Key(t)].version
    /\ \E meta \in Tasks, e \in Nat :
         index' = [index EXCEPT ![Key(t)] =
                     [version |-> index[Key(t)].version + 1, meta |-> meta,
                      expires_at |-> e]]
    /\ task'[t].won = epoch[Key(t)]
    /\ UNCHANGED epoch

(* delete ended the life of the entry.                                     *)
Removed(t) ==
    /\ index[Key(t)] # None
    /\ index' = [index EXCEPT ![Key(t)] = None]
    /\ epoch' = [epoch EXCEPT ![Key(t)] = @ + 1]
    /\ task'[t].won = task[t].won

(* ... and no fifth: a store call that fails, or that finds nothing to do, *)
(* is silent.                                                              *)
LEMMA StepEffect ==
    ASSUME TypeOK, CallShape, NEW t \in Tasks, Step(t)
    PROVE  Silent(t) \/ Created(t) \/ Revised(t) \/ Removed(t)
<1> USE DEF TypeOK
<1>a. /\ task[t] \in CallState
      /\ Key(t) \in Keys
      /\ task[t].seen \in Manifest \cup {None}
      /\ task[t].seen # None => task[t].seen.meta \in Tasks
      /\ now \in Nat /\ 0 \in Nat
      /\ \A ttl \in Ttls : now + ttl \in Nat
      /\ index \in [Keys -> Manifest \cup {None}]
  BY ConstantsAssumption, KeyType DEF Manifest
<1>1. CASE LookupMiss(t)
  BY <1>1, <1>a DEF Silent, CallState, Key, LookupMiss, Begins, AnswerAtOnce
<1>2. CASE LookupIndex(t)
  BY <1>2, <1>a DEF Silent, CallState, Key, LookupIndex, Begins
<1>3. CASE LookupBlob(t)
  BY <1>3, <1>a DEF Silent, CallState, Key, LookupBlob, Goto, Answer
<1>4. CASE HitFinish(t)
  BY <1>4, <1>a DEF Silent, CallState, Key, HitFinish, Goto
<1>5. CASE StartFill(t)
  BY <1>5, <1>a DEF Silent, CallState, Key, StartFill, Begins, Start
<1>6. CASE StartRefill(t)
  BY <1>6, <1>a DEF Silent, CallState, Key, StartRefill
<1>7. CASE WriteBody(t)
  BY <1>7, <1>a DEF Silent, CallState, Key, WriteBody, Goto
<1>8. CASE DropFill(t)
  BY <1>8, <1>a DEF Silent, CallState, Key, DropFill, Goto
<1>9. CASE FillComplete(t)
  BY <1>9, <1>a DEF Silent, CallState, Key, FillComplete, Goto
<1>10. CASE FillPutNew(t)
  BY <1>10, <1>a DEF FillPutNew, PutNew, Win, Created, CallState, Key
<1>11. CASE FillCas(t)
  BY <1>11, <1>a DEF FillCas, Win, CasMatches, CasUpdate, Revised, CallState,
     Key
<1>12. CASE FillLoses(t)
  BY <1>12, <1>a DEF Silent, CallState, Key, FillLoses, Answer
<1>13. CASE PurgeFindsNothing(t)
  BY <1>13, <1>a DEF Silent, CallState, Key, PurgeFindsNothing, Begins,
     AnswerAtOnce
<1>14. CASE PurgeGet(t)
  BY <1>14, <1>a DEF Silent, CallState, Key, PurgeGet, Begins
<1>15. CASE PurgeBump(t)
  <2>1. task[t].seen # None
    BY <1>15 DEF CallShape, PurgeBump
  <2>2. CASE CasMatches(Key(t), task[t].seen.version)
    <3>1. /\ CasUpdate(Key(t), task[t].seen.version, task[t].seen.meta, 0)
          /\ Win(t, "bumped", "none")
          /\ UNCHANGED epoch
      BY <1>15, <2>2 DEF PurgeBump
    <3>2. task'[t].won = epoch[Key(t)]
      BY <1>a, <3>1 DEF Win, CallState
    <3>3. QED
      BY <1>a, <2>1, <2>2, <3>1, <3>2 DEF CasMatches, CasUpdate, Revised
  <2>3. CASE ~CasMatches(Key(t), task[t].seen.version)
    BY <1>15, <1>a, <2>3 DEF PurgeBump, Goto, Silent, CallState, Key
  <2>4. QED
    BY <2>2, <2>3
<1>16. CASE PurgeBlob(t)
  BY <1>16, <1>a DEF Silent, CallState, Key, PurgeBlob, Goto
<1>17. CASE PurgeIndex(t)
  <2>1. CASE index[Key(t)] = None
    <3>1. index' = index /\ epoch' = epoch
      BY <1>17, <1>a, <2>1 DEF PurgeIndex, DeleteIndex
    <3>2. QED
      BY <1>17, <1>a, <3>1 DEF PurgeIndex, DeleteIndex, Answer, Silent,
         CallState, Key
  <2>2. CASE index[Key(t)] # None
    BY <1>17, <1>a, <2>2 DEF PurgeIndex, DeleteIndex, Answer, Removed,
       CallState, Key
  <2>3. QED
    BY <2>1, <2>2
<1>18. CASE UpdateFindsNothing(t)
  BY <1>18, <1>a DEF Silent, CallState, Key, UpdateFindsNothing, Begins,
     AnswerAtOnce
<1>19. CASE UpdateGet(t)
  BY <1>19, <1>a DEF Silent, CallState, Key, UpdateGet, Begins, Start
<1>20. CASE UpdateCas(t)
  <2>1. task[t].seen # None
    BY <1>20 DEF CallShape, UpdateCas
  <2>2. QED
    BY <1>20, <1>a, <2>1
    DEF UpdateCas, Win, CasMatches, CasUpdate, Revised, CallState
<1>21. CASE UpdateLoses(t)
  BY <1>21, <1>a DEF Silent, CallState, Key, UpdateLoses, Answer
<1>22. CASE Touch(t)
  <2>1. UNCHANGED epoch /\ task'[t].won = task[t].won
    BY <1>22, <1>a DEF Touch, TouchTtl, AnswerAtOnce, CallState
  <2>2. CASE index[Key(t)] = None
    BY <1>22, <2>1, <2>2 DEF Touch, TouchTtl, Silent
  <2>3. CASE index[Key(t)] # None
    <3>1. PICK e \in 0 .. MaxTime + 1 :
            index' = [index EXCEPT ![Key(t)].expires_at = e]
      BY <1>22, <2>3 DEF Touch, TouchTtl
    <3>2. index[Key(t)] \in Manifest /\ Key(t) \in Keys
      BY <1>a, <2>3
    <3>3. [index[Key(t)] EXCEPT !.expires_at = e] # None
      BY ConstantsAssumption, <3>2 DEF Manifest
    <3>4. \A k \in Keys \ {Key(t)} : index'[k] = index[k]
      BY <1>a, <3>1
    <3>5. /\ index'[Key(t)] = [index[Key(t)] EXCEPT !.expires_at = e]
          /\ index'[Key(t)].version = index[Key(t)].version
          /\ index'[Key(t)].meta = index[Key(t)].meta
      BY <1>a, <3>1, <3>2 DEF Manifest
    <3>6. QED
      BY <2>1, <2>3, <3>3, <3>4, <3>5 DEF Silent
  <2>4. QED
    BY <2>2, <2>3
<1>23. CASE StoreFails(t)
  BY <1>23, <1>a DEF Silent, CallState, Key, StoreFails, Answer,
     BeforeIndexDelete
<1>24. CASE PurgeIgnoresFailure(t)
  BY <1>24, <1>a DEF Silent, CallState, Key, PurgeIgnoresFailure, Goto
<1>25. CASE FirstCallFails(t)
  <2>1. /\ task[t].pc \in {"idle", "hit"}
        /\ UNCHANGED <<index, blob, now, epoch>>
        /\ \E op \in Ops : AnswerAtOnce(t, op, "backend")
    BY <1>25, FirstCallFailsEffect
  <2>2. QED
    BY <1>25, <1>a, <2>1 DEF Silent, CallState, Key, AnswerAtOnce
<1>26. QED
  BY <1>1, <1>2, <1>3, <1>4, <1>5, <1>6, <1>7, <1>8, <1>9, <1>10, <1>11, <1>12,
     <1>13, <1>14, <1>15, <1>16, <1>17, <1>18, <1>19, <1>20, <1>21, <1>22,
     <1>23, <1>24, <1>25
  DEF Step, Lookup, Fill, Purge, Update

(* A step changes no other call and no key, and a call that has written    *)
(* the index, or writes it now, keeps what it saw and what it won.         *)
LEMMA StepFrame ==
    ASSUME TypeOK, CallShape, NEW t \in Tasks, Step(t)
    PROVE  /\ \A u \in Tasks \ {t} : task'[u] = task[u]
           /\ task'[t].key = task[t].key
           /\ task[t].won # None => /\ task'[t].won = task[t].won
                                   /\ task'[t].seen = task[t].seen
           /\ task'[t].won # task[t].won => task'[t].seen = task[t].seen
<1> USE DEF TypeOK
<1>a. task[t] \in CallState
  OBVIOUS
<1>1. CASE LookupMiss(t)
  BY <1>1, <1>a DEF CallShape, CallState, LookupMiss, Begins, AnswerAtOnce
<1>2. CASE LookupIndex(t)
  BY <1>2, <1>a DEF CallShape, CallState, LookupIndex, Begins
<1>3. CASE LookupBlob(t)
  <2>1. CASE Goto(t, "hit")
    BY <1>3, <1>a, <2>1 DEF CallShape, CallState, LookupBlob, Goto
  <2>2. CASE Answer(t, "notfound")
    BY <1>3, <1>a, <2>2 DEF CallShape, CallState, LookupBlob, Answer
  <2>3. QED
    BY <1>3, <2>1, <2>2 DEF LookupBlob
<1>4. CASE HitFinish(t)
  BY <1>4, <1>a DEF CallShape, CallState, HitFinish, Goto
<1>5. CASE StartFill(t)
  BY <1>5, <1>a DEF CallShape, CallState, StartFill, Begins, Start
<1>6. CASE StartRefill(t)
  BY <1>6, <1>a DEF CallShape, CallState, StartRefill
<1>7. CASE WriteBody(t)
  BY <1>7, <1>a DEF CallShape, CallState, WriteBody, Goto
<1>8. CASE DropFill(t)
  BY <1>8, <1>a DEF CallShape, CallState, DropFill, Goto
<1>9. CASE FillComplete(t)
  BY <1>9, <1>a DEF CallShape, CallState, FillComplete, Goto
<1>10. CASE FillPutNew(t)
  BY <1>10, <1>a DEF CallShape, CallState, FillPutNew, Win
<1>11. CASE FillCas(t)
  BY <1>11, <1>a DEF CallShape, CallState, FillCas, Win
<1>12. CASE FillLoses(t)
  BY <1>12, <1>a DEF CallShape, CallState, FillLoses, Answer
<1>13. CASE PurgeFindsNothing(t)
  BY <1>13, <1>a DEF CallShape, CallState, PurgeFindsNothing, Begins,
     AnswerAtOnce
<1>14. CASE PurgeGet(t)
  BY <1>14, <1>a DEF CallShape, CallState, PurgeGet, Begins
<1>15. CASE PurgeBump(t)
  <2>1. CASE Win(t, "bumped", "none")
    BY <1>15, <1>a, <2>1 DEF CallShape, CallState, PurgeBump, Win
  <2>2. CASE Goto(t, "bumped")
    BY <1>15, <1>a, <2>2 DEF CallShape, CallState, PurgeBump, Goto
  <2>3. QED
    BY <1>15, <2>1, <2>2 DEF PurgeBump
<1>16. CASE PurgeBlob(t)
  BY <1>16, <1>a DEF CallShape, CallState, PurgeBlob, Goto
<1>17. CASE PurgeIndex(t)
  BY <1>17, <1>a DEF CallShape, CallState, PurgeIndex, DeleteIndex, Answer,
     BeforeIndexDelete
<1>18. CASE UpdateFindsNothing(t)
  BY <1>18, <1>a DEF CallShape, CallState, UpdateFindsNothing, Begins,
     AnswerAtOnce
<1>19. CASE UpdateGet(t)
  BY <1>19, <1>a DEF CallShape, CallState, UpdateGet, Begins, Start
<1>20. CASE UpdateCas(t)
  BY <1>20, <1>a DEF CallShape, CallState, UpdateCas, Win
<1>21. CASE UpdateLoses(t)
  BY <1>21, <1>a DEF CallShape, CallState, UpdateLoses, Answer
<1>22. CASE Touch(t)
  BY <1>22, <1>a DEF CallShape, CallState, Touch, TouchTtl, Begins,
     AnswerAtOnce
<1>23. CASE StoreFails(t)
  BY <1>23, <1>a DEF CallShape, CallState, StoreFails, Answer,
     BeforeIndexDelete
<1>24. CASE PurgeIgnoresFailure(t)
  BY <1>24, <1>a DEF CallShape, CallState, PurgeIgnoresFailure, Goto
<1>25. CASE FirstCallFails(t)
  <2>1. /\ task[t].pc \in {"idle", "hit"}
        /\ UNCHANGED <<index, blob, now, epoch>>
        /\ \E op \in Ops : AnswerAtOnce(t, op, "backend")
    BY <1>25, FirstCallFailsEffect
  <2>2. QED
    BY <1>25, <1>a, <2>1 DEF CallShape, CallState, AnswerAtOnce
<1>26. QED
  BY <1>1, <1>2, <1>3, <1>4, <1>5, <1>6, <1>7, <1>8, <1>9, <1>10, <1>11, <1>12,
     <1>13, <1>14, <1>15, <1>16, <1>17, <1>18, <1>19, <1>20, <1>21, <1>22,
     <1>23, <1>24, <1>25
  DEF Step, Lookup, Fill, Purge, Update
-----------------------------------------------------------------------------
(* What a call won lies in the past: in an earlier life of the key, or in  *)
(* the present one, whose version has moved beyond the one the call saw.   *)
WonInPast ==
    \A t \in Tasks :
        task[t].won # None =>
            \/ task[t].won < epoch[Key(t)]
            \/ /\ task[t].won = epoch[Key(t)]
               /\ index[Key(t)] # None
               /\ task[t].seen # None
                     => task[t].seen.version < index[Key(t)].version

(* Versions only grow within a life and lives only grow, so what is past   *)
(* stays past.                                                             *)
LEMMA StepWonInPast ==
    ASSUME TypeOK, CallShape, WonInPast, NEW t \in Tasks, Step(t)
    PROVE  WonInPast'
<1> SUFFICES ASSUME NEW u \in Tasks, task'[u].won # None
             PROVE  \/ task'[u].won < epoch'[task'[u].key]
                    \/ /\ task'[u].won = epoch'[task'[u].key]
                       /\ index'[task'[u].key] # None
                       /\ task'[u].seen # None
                             => task'[u].seen.version
                                  < index'[task'[u].key].version
  BY DEF WonInPast, Key
<1> USE DEF Key
<1>a. /\ task[u] \in CallState /\ task[t] \in CallState
      /\ task[u].key \in Keys /\ task[t].key \in Keys
      /\ task[u].won \in Nat \cup {None}
      /\ task[u].seen \in Manifest \cup {None}
      /\ \A k \in Keys : epoch[k] \in Nat /\ index[k] \in Manifest \cup {None}
      /\ \A m \in Manifest : m.version \in Nat
      /\ index \in [Keys -> Manifest \cup {None}]
      /\ epoch \in [Keys -> Nat]
  BY DEF TypeOK, CallState, Manifest
<1>b. task'[u].key = task[u].key
  BY StepFrame
<1>c. task[u].won # None => /\ task'[u].won = task[u].won
                            /\ task'[u].seen = task[u].seen
  BY StepFrame
<1>d. task[u].won # None =>
          \/ task[u].won < epoch[task[u].key]
          \/ /\ task[u].won = epoch[task[u].key]
             /\ index[task[u].key] # None
             /\ task[u].seen # None
                   => task[u].seen.version < index[task[u].key].version
  BY DEF WonInPast
<1>e. task[u].won = None => u = t /\ task'[t].won # task[t].won
  BY StepFrame
<1>1. CASE Silent(t)
  BY <1>1, <1>a, <1>b, <1>c, <1>d, <1>e DEF Silent
<1>2. CASE Created(t)
  <2>1. \A k \in Keys : index[k] # None => index'[k] = index[k]
    BY <1>2, <1>a DEF Created
  <2>2. CASE task[u].won # None
    BY <1>2, <1>a, <1>b, <1>c, <1>d, <2>1, <2>2 DEF Created
  <2>3. CASE task[u].won = None
    <3>1. u = t /\ task'[t].won = epoch[task[t].key] /\ task'[t].seen = None
      BY <1>2, <1>e, <2>3, StepFrame DEF Created
    <3>2. index'[task[t].key] # None
      BY <1>2, <1>a, ConstantsAssumption DEF Created, Manifest
    <3>3. QED
      BY <1>2, <1>b, <3>1, <3>2 DEF Created
  <2>4. QED
    BY <2>2, <2>3
<1>3. CASE Revised(t)
  <2>1. /\ \A k \in Keys \ {task[t].key} : index'[k] = index[k]
        /\ index'[task[t].key] # None
        /\ index'[task[t].key].version = index[task[t].key].version + 1
    BY <1>3, <1>a, ConstantsAssumption DEF Revised, Manifest
  <2>2. CASE task[u].won # None
    BY <1>3, <1>a, <1>b, <1>c, <1>d, <2>1, <2>2 DEF Revised
  <2>3. CASE task[u].won = None
    <3>1. u = t /\ task'[t].won = epoch[task[t].key]
                /\ task'[t].seen = task[t].seen
      BY <1>3, <1>e, <2>3, StepFrame DEF Revised
    <3>2. QED
      BY <1>3, <1>a, <1>b, <2>1, <3>1 DEF Revised
  <2>4. QED
    BY <2>2, <2>3
<1>4. CASE Removed(t)
  <2>1. task[u].won # None
    BY <1>4, <1>e DEF Removed
  <2>2. CASE task[u].key = task[t].key
    BY <1>4, <1>a, <1>b, <1>c, <1>d, <2>1, <2>2 DEF Removed
  <2>3. CASE task[u].key # task[t].key
    BY <1>4, <1>a, <1>b, <1>c, <1>d, <2>1, <2>3 DEF Removed
  <2>4. QED
    BY <2>2, <2>3
<1>5. QED
  BY <1>1, <1>2, <1>3, <1>4, StepEffect

(* A call that wins now is conditional on the absence of the entry or on   *)
(* its present version; whoever won before in this life was conditional on *)
(* an older one.                                                           *)
LEMMA StepOneWinner ==
    ASSUME TypeOK, CallShape, WonInPast, OneWinnerPerVersion,
           NEW t \in Tasks, Step(t)
    PROVE  OneWinnerPerVersion'
<1> DEFINE Apart(v, w) ==
             /\ task'[v].won # None
             /\ task'[v].won = task'[w].won
             /\ task'[v].key = task'[w].key
             => (Condition(v) # Condition(w))'
<1>a. /\ \A v \in Tasks : /\ task[v] \in CallState
                          /\ task[v].key \in Keys
                          /\ task[v].seen \in Manifest \cup {None}
                          /\ task'[v].key = task[v].key
      /\ \A m \in Manifest : m.version \in Nat /\ m # None
      /\ None \notin Nat
      /\ \A k \in Keys : epoch[k] \in Nat /\ index[k] \in Manifest \cup {None}
  BY ConstantsAssumption, StepFrame DEF TypeOK, CallState, Manifest
<1>b. \A v \in Tasks : task[v].won # None =>
                           /\ task'[v].won = task[v].won
                           /\ task'[v].seen = task[v].seen
  BY StepFrame
<1>c. \A v \in Tasks : task[v].won # None =>
          \/ task[v].won < epoch[task[v].key]
          \/ /\ task[v].won = epoch[task[v].key]
             /\ index[task[v].key] # None
             /\ task[v].seen # None
                   => task[v].seen.version < index[task[v].key].version
  BY DEF WonInPast, Key
(* Two calls that had won before stay apart.                               *)
<1>1. \A v, w \in Tasks :
          v # w /\ task[v].won # None /\ task[w].won # None => Apart(v, w)
  BY <1>a, <1>b DEF OneWinnerPerVersion, Condition, Key
(* A call that wins now is apart from all those that had won before.       *)
<1>2. ASSUME NEW v \in Tasks, v # t, task[v].won # None,
             task[t].won = None, task'[t].won # None
      PROVE  Apart(v, t) /\ Apart(t, v)
  <2>1. /\ task'[v] = task[v]
        /\ task'[t].seen = task[t].seen
        /\ task'[t].key = task[t].key
    BY <1>2, StepFrame
  <2>2. Created(t) \/ Revised(t)
    BY <1>2, StepEffect DEF Silent, Removed
  <2>3. SUFFICES ASSUME task[v].won = task'[t].won, task[v].key = task[t].key
                 PROVE  Condition(v)' # Condition(t)'
    BY <2>1
  <2>4. task[v].won = epoch[task[v].key]
    BY <2>2, <2>3 DEF Created, Revised, Key
  <2>5. /\ index[task[v].key] # None
        /\ task[v].seen # None
              => task[v].seen.version < index[task[v].key].version
    BY <1>2, <1>a, <1>c, <2>4
  <2>6. CASE Created(t)
    BY <2>3, <2>5, <2>6 DEF Created, Key
  <2>7. CASE Revised(t)
    BY <1>a, <2>1, <2>3, <2>5, <2>7 DEF Revised, Condition, Key
  <2>8. QED
    BY <2>2, <2>6, <2>7
<1>3. \A v \in Tasks : v # t /\ task[v].won = None => task'[v].won = None
  BY StepFrame
<1>4. \A v, w \in Tasks : v # w => Apart(v, w)
  BY <1>1, <1>2, <1>3
<1>5. QED
  BY <1>4 DEF OneWinnerPerVersion, Key

-----------------------------------------------------------------------------
(* A life that is new, or entered now, was opened by put_new.              *)
LEMMA StepCreator ==
    ASSUME TypeOK, CallShape, EveryLifeHasACreator, NEW t \in Tasks, Step(t)
    PROVE  EveryLifeHasACreator'
<1> SUFFICES ASSUME NEW k \in Keys, NEW e \in 0 .. epoch'[k],
                    e < epoch'[k] \/ index'[k] # None
             PROVE  \E u \in Tasks : Creates(u, k, e)'
  BY DEF EveryLifeHasACreator
<1>a. /\ epoch \in [Keys -> Nat]
      /\ index \in [Keys -> Manifest \cup {None}]
      /\ Key(t) \in Keys
      /\ task[t] \in CallState
      /\ None \notin Nat
  BY KeyType, ConstantsAssumption DEF TypeOK
<1>b. \A u \in Tasks : Creates(u, k, e) => Creates(u, k, e)'
  <2> SUFFICES ASSUME NEW u \in Tasks, Creates(u, k, e)
               PROVE  Creates(u, k, e)'
    OBVIOUS
  <2>1. e \in Nat
    BY <1>a, StepEffect DEF Silent, Created, Revised, Removed
  <2>2. task[u].won # None
    BY <1>a, <2>1 DEF Creates
  <2>3. QED
    BY <2>2, StepFrame DEF Creates, Key
<1>1. CASE e \in 0 .. epoch[k] /\ (e < epoch[k] \/ index[k] # None)
  BY <1>1, <1>b DEF EveryLifeHasACreator
<1>2. CASE ~(e \in 0 .. epoch[k] /\ (e < epoch[k] \/ index[k] # None))
  <2>1. Created(t) /\ k = Key(t) /\ e = epoch[k]
    <3>1. ~Silent(t)
      BY <1>2, <1>a DEF Silent
    <3>2. ~Revised(t)
      BY <1>2, <1>a DEF Revised
    <3>3. ~Removed(t)
      BY <1>2, <1>a DEF Removed
    <3>4. CASE Created(t)
      <4>1. epoch' = epoch /\ epoch[k] \in Nat
        BY <1>a, <3>4 DEF Created
      <4>2. e = epoch[k] /\ index[k] = None /\ index'[k] # None
        BY <1>2, <4>1
      <4>3. \A j \in Keys \ {Key(t)} : index'[j] = index[j]
        BY <1>a, <3>4 DEF Created
      <4>4. QED
        BY <3>4, <4>2, <4>3
    <3>5. QED
      BY <3>1, <3>2, <3>3, <3>4, StepEffect
  <2>2. /\ task'[t].won = e
        /\ task'[t].key = k
    BY <2>1, StepFrame DEF Created, Key
  <2>3. task'[t].seen = None
    <3>1. CASE task'[t].won # task[t].won
      BY <2>1, <3>1, StepFrame DEF Created
    <3>2. CASE task'[t].won = task[t].won
      <4>1. task[t].won # None
        BY <1>a, <2>1, <3>2 DEF Created
      <4>2. QED
        BY <2>1, <4>1, StepFrame DEF Created
    <3>3. QED
      BY <3>1, <3>2
  <2>4. QED
    BY <2>2, <2>3 DEF Creates, Key
<1>3. QED
  BY <1>1, <1>2
-----------------------------------------------------------------------------
(* A purge on its way has not outlived the entry it found, unless somebody *)
(* else has removed that already; a purge that has answered true has.      *)
PurgeInPast ==
    \A t \in Tasks :
        /\ task[t].op = "purge"
        /\ task[t].pc # "done" \/ task[t].res = "true"
        => \/ task[t].epoch < epoch[Key(t)]
           \/ /\ task[t].epoch = epoch[Key(t)]
              /\ task[t].pc # "done"
              /\ index[Key(t)] # None

(* The steps in which a call is, or becomes, an unfinished or a successful *)
(* purge.                                                                  *)
LEMMA StepOfPurge ==
    ASSUME TypeOK, CallShape, NEW t \in Tasks, Step(t),
           task'[t].op = "purge",
           task'[t].pc # "done" \/ task'[t].res = "true"
    PROVE  \/ PurgeGet(t)
           \/ PurgeIndex(t)
           \/ /\ task[t].op = "purge"
              /\ task[t].pc # "done" /\ task'[t].pc # "done"
              /\ task'[t].epoch = task[t].epoch
<1>a. /\ task[t] \in CallState
      /\ task \in [Tasks -> CallState]
      /\ task[t] \in [op : Ops, pc : PCs, key : Keys,
                      seen : Manifest \cup {None}, typ : {"Soft", "Hard"},
                      epoch : Nat, won : Nat \cup {None}, res : Results]
      /\ task[t].op = "purge"
            => task[t].pc \in {"purging", "bumped", "unblobbed", "done"}
      /\ task[t].res = "true" => task[t].pc = "done"
  BY DEF TypeOK, CallState, CallShape
<1>1. CASE LookupMiss(t)
  BY <1>1, <1>a DEF LookupMiss, Begins, AnswerAtOnce
<1>2. CASE LookupIndex(t)
  BY <1>2, <1>a DEF LookupIndex, Begins
<1>3. CASE LookupBlob(t)
  BY <1>3, <1>a DEF LookupBlob, Goto, Answer
<1>4. CASE HitFinish(t)
  BY <1>4, <1>a DEF HitFinish, Goto
<1>5. CASE StartFill(t)
  BY <1>5, <1>a DEF StartFill, Begins, Start
<1>6. CASE StartRefill(t)
  BY <1>6, <1>a DEF StartRefill
<1>7. CASE WriteBody(t)
  BY <1>7, <1>a DEF WriteBody, Goto
<1>8. CASE DropFill(t)
  BY <1>8, <1>a DEF DropFill, Goto
<1>9. CASE FillComplete(t)
  BY <1>9, <1>a DEF FillComplete, Goto
<1>10. CASE FillPutNew(t)
  BY <1>10, <1>a DEF FillPutNew, Win
<1>11. CASE FillCas(t)
  BY <1>11, <1>a DEF FillCas, Win
<1>12. CASE FillLoses(t)
  BY <1>12, <1>a DEF FillLoses, Answer
<1>13. CASE PurgeFindsNothing(t)
  BY <1>13, <1>a DEF PurgeFindsNothing, Begins, AnswerAtOnce
<1>14. CASE PurgeGet(t)
  BY <1>14
<1>15. CASE PurgeBump(t)
  <2>1. CASE Win(t, "bumped", "none")
    BY <1>15, <1>a, <2>1 DEF PurgeBump, Win
  <2>2. CASE Goto(t, "bumped")
    BY <1>15, <1>a, <2>2 DEF PurgeBump, Goto
  <2>3. QED
    BY <1>15, <2>1, <2>2 DEF PurgeBump
<1>16. CASE PurgeBlob(t)
  BY <1>16, <1>a DEF PurgeBlob, Goto
<1>17. CASE PurgeIndex(t)
  BY <1>17
<1>18. CASE UpdateFindsNothing(t)
  BY <1>18, <1>a DEF UpdateFindsNothing, Begins, AnswerAtOnce
<1>19. CASE UpdateGet(t)
  BY <1>19, <1>a DEF UpdateGet, Begins, Start
<1>20. CASE UpdateCas(t)
  BY <1>20, <1>a DEF UpdateCas, Win
<1>21. CASE UpdateLoses(t)
  BY <1>21, <1>a DEF UpdateLoses, Answer
<1>22. CASE Touch(t)
  BY <1>22, <1>a DEF Touch, TouchTtl, Begins, AnswerAtOnce
<1>23. CASE StoreFails(t)
  BY <1>23, <1>a DEF StoreFails, Answer
<1>24. CASE PurgeIgnoresFailure(t)
  BY <1>24, <1>a DEF PurgeIgnoresFailure, Goto
<1>25. CASE FirstCallFails(t)
  <2>1. /\ task[t].pc \in {"idle", "hit"}
        /\ UNCHANGED <<index, blob, now, epoch>>
        /\ \E op \in Ops : AnswerAtOnce(t, op, "backend")
    BY <1>25, FirstCallFailsEffect
  <2>2. QED
    BY <1>25, <1>a, <2>1 DEF AnswerAtOnce
<1>26. QED
  BY <1>1, <1>2, <1>3, <1>4, <1>5, <1>6, <1>7, <1>8, <1>9, <1>10, <1>11, <1>12,
     <1>13, <1>14, <1>15, <1>16, <1>17, <1>18, <1>19, <1>20, <1>21, <1>22,
     <1>23, <1>24, <1>25
  DEF Step, Lookup, Fill, Purge, Update

(* An entry that a purge found can only go together with its life.         *)
LEMMA StepPurgeInPast ==
    ASSUME TypeOK, CallShape, PurgeInPast, NEW t \in Tasks, Step(t)
    PROVE  PurgeInPast'
<1> DEFINE Open(u) == /\ task[u].op = "purge"
                      /\ task[u].pc # "done" \/ task[u].res = "true"
           Past(u) == \/ task[u].epoch < epoch[Key(u)]
                      \/ /\ task[u].epoch = epoch[Key(u)]
                         /\ task[u].pc # "done"
                         /\ index[Key(u)] # None
<1>a. /\ epoch \in [Keys -> Nat]
      /\ index \in [Keys -> Manifest \cup {None}]
      /\ None \notin Manifest
      /\ \A u \in Tasks : /\ task[u] \in CallState
                          /\ task[u].key \in Keys
                          /\ task[u].epoch \in Nat
                          /\ task'[u].key = task[u].key
  BY ConstantsAssumption, StepFrame DEF TypeOK, CallState
(* The entry a purge found goes only together with its life.               *)
<1>b. \A k \in Keys : /\ epoch[k] \in Nat /\ epoch'[k] \in Nat
                      /\ \/ epoch'[k] > epoch[k]
                         \/ /\ epoch'[k] = epoch[k]
                            /\ index[k] # None => index'[k] # None
  <2>1. CASE Silent(t)
    BY <2>1, <1>a DEF Silent
  <2>2. CASE Created(t)
    BY <2>2, <1>a DEF Created
  <2>3. CASE Revised(t)
    <3>1. index[Key(t)].version \in Nat
      BY <2>3, <1>a DEF Revised, Key, Manifest
    <3>2. index'[Key(t)] # None
      BY <2>3, <3>1, <1>a, ConstantsAssumption DEF Revised, Key, Manifest
    <3>3. QED
      BY <2>3, <3>2, <1>a DEF Revised
  <2>4. CASE Removed(t)
    BY <2>4, <1>a DEF Removed, Key
  <2>5. QED
    BY <2>1, <2>2, <2>3, <2>4, StepEffect
<1>1. \A u \in Tasks : Open(u) => Past(u)
  BY DEF PurgeInPast
<1>2. ASSUME NEW u \in Tasks, u # t, Open(u)' PROVE Past(u)'
  <2>1. task'[u] = task[u]
    BY <1>2, StepFrame
  <2>2. Past(u)
    BY <1>1, <1>2, <2>1
  <2>3. QED
    BY <1>a, <1>b, <2>1, <2>2 DEF Key
<1>3. ASSUME Open(t)' PROVE Past(t)'
  <2>1. CASE PurgeGet(t)
    <3>1. /\ task'[t].epoch = epoch[Key(t)]
          /\ task'[t].pc = "purging"
          /\ index[Key(t)] # None
          /\ UNCHANGED <<index, epoch>>
      <4>1. PICK typ \in PurgeTypes :
              task' = [task EXCEPT ![t] =
                         [@ EXCEPT !.op = "purge", !.pc = "purging",
                                   !.seen = index[Key(t)], !.typ = typ,
                                   !.epoch = epoch[Key(t)]]]
        BY <2>1 DEF PurgeGet
      <4>2. QED
        BY <2>1, <4>1, <1>a DEF PurgeGet, TypeOK, CallState
    <3>2. QED
      BY <1>a, <3>1 DEF Key
  <2>2. CASE PurgeIndex(t)
    <3>1. Past(t)
      BY <2>2, <1>1, <1>3, <1>a DEF PurgeIndex, DeleteIndex, BeforeIndexDelete,
         Answer, CallState
    <3>2. task'[t].epoch = task[t].epoch
      BY <2>2, <1>a DEF PurgeIndex, DeleteIndex, Answer, CallState
    <3>3. QED
      BY <2>2, <3>1, <3>2, <1>a DEF PurgeIndex, DeleteIndex, Key
  <2>3. CASE /\ task[t].op = "purge"
             /\ task[t].pc # "done" /\ task'[t].pc # "done"
             /\ task'[t].epoch = task[t].epoch
    <3>1. Past(t)
      BY <2>3, <1>1
    <3>2. QED
      BY <2>3, <3>1, <1>a, <1>b DEF Key
  <2>4. QED
    BY <1>3, <2>1, <2>2, <2>3, StepOfPurge
<1>4. QED
  BY <1>2, <1>3 DEF PurgeInPast
-----------------------------------------------------------------------------
(* The inductive invariant.                                                *)
IndInv ==
    /\ TypeOK
    /\ CallShape
    /\ WonInPast
    /\ OneWinnerPerVersion
    /\ EveryLifeHasACreator
    /\ PurgeInPast

(* The invariant holds initially, ...                                      *)
LEMMA InitIndInv == Init => IndInv
<1> SUFFICES ASSUME Init PROVE IndInv
  OBVIOUS
<1>1. /\ \A k \in Keys : index[k] = None /\ epoch[k] = 0
      /\ \A t \in Tasks : /\ task[t].op = "none" /\ task[t].pc = "idle"
                          /\ task[t].won = None /\ task[t].res = "none"
  BY DEF Init
<1>2. TypeOK
  BY ConstantsAssumption
  DEF Init, TypeOK, CallState, Ops, PCs, Results
<1>3. CallShape /\ WonInPast /\ OneWinnerPerVersion /\ PurgeInPast
  BY <1>1 DEF CallShape, WonInPast, OneWinnerPerVersion, PurgeInPast
<1>4. EveryLifeHasACreator
  BY <1>1 DEF EveryLifeHasACreator
<1>5. QED
  BY <1>2, <1>3, <1>4 DEF IndInv

(* ... every step keeps it, ...                                            *)
LEMMA NextIndInv == IndInv /\ [Next]_vars => IndInv'
<1> SUFFICES ASSUME IndInv, [Next]_vars PROVE IndInv'
  OBVIOUS
<1>1. CASE Tick \/ UNCHANGED vars
  <2>1. UNCHANGED <<index, blob, task, epoch>> /\ now' \in Nat
    BY <1>1 DEF Tick, vars, IndInv, TypeOK
  <2>2. TypeOK' /\ CallShape'
    BY <2>1 DEF IndInv, TypeOK, CallShape
  <2>3. WonInPast' /\ PurgeInPast'
    BY <2>1 DEF IndInv, WonInPast, PurgeInPast, Key
  <2>4. OneWinnerPerVersion' /\ EveryLifeHasACreator'
    BY <2>1 DEF IndInv, OneWinnerPerVersion, Condition,
                EveryLifeHasACreator, Creates, Key
  <2>5. QED
    BY <2>2, <2>3, <2>4 DEF IndInv
<1>2. ASSUME NEW t \in Tasks, Step(t) PROVE IndInv'
  BY <1>2, StepTypeOK, StepCallShape, StepWonInPast, StepOneWinner,
     StepCreator, StepPurgeInPast DEF IndInv
<1>3. QED
  BY <1>1, <1>2 DEF Next

(* ... and so it holds always.                                             *)
LEMMA Inductive == Spec => []IndInv
  BY InitIndInv, NextIndInv, PTL DEF Spec

(* Every behaviour keeps the stores, the clock and the calls well typed,   *)
(* whatever the number of keys and of concurrent calls.                    *)
THEOREM TypeCorrect == Spec => []TypeOK
<1>1. IndInv => TypeOK
  BY DEF IndInv
<1>2. QED
  BY <1>1, Inductive, PTL

(* First writer wins: under one condition at most one fill, purge or       *)
(* metadata update of DurableTier writes the index in a life of an entry.  *)
THEOREM FirstWriterWins == Spec => []OneWinnerPerVersion
<1>1. IndInv => OneWinnerPerVersion
  BY DEF IndInv
<1>2. QED
  BY <1>1, Inductive, PTL

(* No fill that carries a version brings a purged entry back: each life of *)
(* a key was created by a fill that carried none.                          *)
THEOREM VersionedFillsCreateNothing == Spec => []EveryLifeHasACreator
<1>1. IndInv => EveryLifeHasACreator
  BY DEF IndInv
<1>2. QED
  BY <1>1, Inductive, PTL

(* A purge that answers true has ended the life of the entry it found,     *)
(* whoever it raced with.                                                  *)
THEOREM PurgesEndLives == Spec => []PurgeEndsWhatItSaw
<1>1. IndInv => PurgeEndsWhatItSaw
  BY DEF IndInv, CallShape, PurgeInPast, PurgeEndsWhatItSaw
<1>2. QED
  BY <1>1, Inductive, PTL

-----------------------------------------------------------------------------
(* The index implements EntryLifecycle: a step of a call is one of its     *)
(* steps, or none.                                                         *)
LEMMA StepLifecycle ==
    ASSUME TypeOK, CallShape, NEW t \in Tasks, Step(t)
    PROVE  Lifecycle!Next \/ UNCHANGED Lifecycle!vars
<1> DEFINE Entry == [k \in Keys |->
                       IF index[k] = None
                       THEN None
                       ELSE [version |-> index[k].version,
                             meta |-> index[k].meta]]
<1>a. /\ index \in [Keys -> Manifest \cup {None}]
      /\ Key(t) \in Keys
      /\ \A m \in Manifest : m # None /\ m.version \in Nat /\ m.meta \in Tasks
  BY KeyType, ConstantsAssumption DEF TypeOK, Manifest
<1>b. \A v \in Nat, u \in Tasks : None # [version |-> v, meta |-> u]
  BY ConstantsAssumption
<1>c. PICK k \in Keys : k = Key(t)
  BY <1>a
<1>1. CASE Silent(t)
  <2>1. Entry' = Entry
    BY <1>1, <1>a DEF Silent
  <2>2. QED
    BY <1>1, <2>1 DEF Silent, Lifecycle!vars
<1>2. CASE Created(t)
  <2>1. Entry[k] = None
    BY <1>2, <1>c DEF Created
  <2>2. PICK e \in Nat :
          index' = [index EXCEPT ![k] =
                      [version |-> 0, meta |-> t, expires_at |-> e]]
    BY <1>2, <1>c DEF Created
  <2>3. [version |-> 0, meta |-> t, expires_at |-> e] # None
    BY ConstantsAssumption DEF Manifest
  <2>4. Entry' = [Entry EXCEPT ![k] = [version |-> 0, meta |-> t]]
    BY <1>a, <2>2, <2>3
  <2>5. Lifecycle!Create(k)
    BY <1>2, <2>1, <2>4 DEF Created, Lifecycle!Create
  <2>6. QED
    BY <2>5 DEF Lifecycle!Next
<1>3. CASE Revised(t)
  <2>1. index[k] # None /\ index[k] \in Manifest
    BY <1>3, <1>a, <1>c DEF Revised
  <2>2. Entry[k] # None /\ Entry[k].version = index[k].version
    BY <1>a, <1>b, <2>1
  <2>3. PICK meta \in Tasks, e \in Nat :
          index' = [index EXCEPT ![k] =
                      [version |-> index[k].version + 1, meta |-> meta,
                       expires_at |-> e]]
    BY <1>3, <1>c DEF Revised
  <2>4. [version |-> index[k].version + 1, meta |-> meta, expires_at |-> e]
          # None
    BY <1>a, <2>1, ConstantsAssumption DEF Manifest
  <2>5. Entry' = [Entry EXCEPT ![k] =
                    [version |-> Entry[k].version + 1, meta |-> meta]]
    BY <1>a, <2>2, <2>3, <2>4
  <2>6. Lifecycle!Revise(k)
    BY <1>3, <2>2, <2>5 DEF Revised, Lifecycle!Revise
  <2>7. QED
    BY <2>6 DEF Lifecycle!Next
<1>4. CASE Removed(t)
  <2>1. index[k] # None /\ index[k] \in Manifest
    BY <1>4, <1>a, <1>c DEF Removed
  <2>2. Entry[k] # None
    BY <1>a, <1>b, <2>1
  <2>3. Entry' = [Entry EXCEPT ![k] = None]
    BY <1>4, <1>a, <1>c DEF Removed
  <2>4. Lifecycle!Remove(k)
    BY <1>4, <1>c, <2>2, <2>3 DEF Removed, Lifecycle!Remove
  <2>5. QED
    BY <2>4 DEF Lifecycle!Next
<1>5. QED
  BY <1>1, <1>2, <1>3, <1>4, StepEffect

(* The durable tier implements EntryLifecycle: whatever calls interleave,  *)
(* the metadata of an entry changes only together with its version, which  *)
(* goes up one by one from 0, and only a delete ends its life.             *)
THEOREM ImplementsLifecycle == Spec => LifecycleSpec
<1>1. Init => Lifecycle!Init
  BY DEF Init, Lifecycle!Init
<1>2. IndInv /\ [Next]_vars => [Lifecycle!Next]_(Lifecycle!vars)
  <2> SUFFICES ASSUME IndInv, [Next]_vars
               PROVE  Lifecycle!Next \/ UNCHANGED Lifecycle!vars
    OBVIOUS
  <2>1. CASE Tick \/ UNCHANGED vars
    BY <2>1 DEF Tick, vars, Lifecycle!vars
  <2>2. ASSUME NEW t \in Tasks, Step(t)
        PROVE  Lifecycle!Next \/ UNCHANGED Lifecycle!vars
    BY <2>2, StepLifecycle DEF IndInv
  <2>3. QED
    BY <2>1, <2>2 DEF Next
<1>3. QED
  BY <1>1, <1>2, Inductive, PTL DEF Spec, LifecycleSpec, Lifecycle!Spec
-----------------------------------------------------------------------------
(* Until a hard purge begins no body is ever deleted.  A call that is      *)
(* about to write a manifest has written its body before, and a call that  *)
(* found a manifest will find a body.                                      *)
BodyFirst(t) ==
    /\ task[t].pc \in {"stored", "lookup"} => blob[task[t].key] # None
    /\ task[t].pc = "idle" => task[t].res = "none"
    /\ task[t].pc = "updating" => task[t].op # "lookup"
    /\ task[t].op = "lookup" => task[t].res # "notfound"

BodiesKept ==
    /\ \A k \in Keys : index[k] # None => blob[k] # None
    /\ \A t \in Tasks : BodyFirst(t)

SoftInv ==
    /\ \A t \in Tasks : task[t].pc = "idle" => task[t].typ = "Soft"
    /\ SoftOnly => BodiesKept

(* Only a purge that begins chooses its type, and no call begins twice.    *)
LEMMA StepTyp ==
    ASSUME TypeOK, CallShape, NEW t \in Tasks, Step(t)
    PROVE  /\ task'[t].typ # task[t].typ => task[t].pc = "idle"
           /\ task'[t].pc # "idle"
<1> USE DEF TypeOK
<1>a. task[t] \in CallState
  OBVIOUS
<1>1. CASE LookupMiss(t)
  BY <1>1, <1>a DEF CallShape, CallState, LookupMiss, Begins, AnswerAtOnce
<1>2. CASE LookupIndex(t)
  BY <1>2, <1>a DEF CallShape, CallState, LookupIndex, Begins
<1>3. CASE LookupBlob(t)
  <2>1. CASE Goto(t, "hit")
    BY <1>3, <1>a, <2>1 DEF CallShape, CallState, LookupBlob, Goto
  <2>2. CASE Answer(t, "notfound")
    BY <1>3, <1>a, <2>2 DEF CallShape, CallState, LookupBlob, Answer
  <2>3. QED
    BY <1>3, <2>1, <2>2 DEF LookupBlob
<1>4. CASE HitFinish(t)
  BY <1>4, <1>a DEF CallShape, CallState, HitFinish, Goto
<1>5. CASE StartFill(t)
  BY <1>5, <1>a DEF CallShape, CallState, StartFill, Begins, Start
<1>6. CASE StartRefill(t)
  BY <1>6, <1>a DEF CallShape, CallState, StartRefill
<1>7. CASE WriteBody(t)
  BY <1>7, <1>a DEF CallShape, CallState, WriteBody, Goto
<1>8. CASE DropFill(t)
  BY <1>8, <1>a DEF CallShape, CallState, DropFill, Goto
<1>9. CASE FillComplete(t)
  BY <1>9, <1>a DEF CallShape, CallState, FillComplete, Goto
<1>10. CASE FillPutNew(t)
  BY <1>10, <1>a DEF CallShape, CallState, FillPutNew, Win
<1>11. CASE FillCas(t)
  BY <1>11, <1>a DEF CallShape, CallState, FillCas, Win
<1>12. CASE FillLoses(t)
  BY <1>12, <1>a DEF CallShape, CallState, FillLoses, Answer
<1>13. CASE PurgeFindsNothing(t)
  BY <1>13, <1>a DEF CallShape, CallState, PurgeFindsNothing, Begins,
     AnswerAtOnce
<1>14. CASE PurgeGet(t)
  BY <1>14, <1>a DEF CallShape, CallState, PurgeGet, Begins
<1>15. CASE PurgeBump(t)
  <2>1. CASE Win(t, "bumped", "none")
    BY <1>15, <1>a, <2>1 DEF CallShape, CallState, PurgeBump, Win
  <2>2. CASE Goto(t, "bumped")
    BY <1>15, <1>a, <2>2 DEF CallShape, CallState, PurgeBump, Goto
  <2>3. QED
    BY <1>15, <2>1, <2>2 DEF PurgeBump
<1>16. CASE PurgeBlob(t)
  BY <1>16, <1>a DEF CallShape, CallState, PurgeBlob, Goto
<1>17. CASE PurgeIndex(t)
  BY <1>17, <1>a DEF CallShape, CallState, PurgeIndex, DeleteIndex, Answer,
     BeforeIndexDelete
<1>18. CASE UpdateFindsNothing(t)
  BY <1>18, <1>a DEF CallShape, CallState, UpdateFindsNothing, Begins,
     AnswerAtOnce
<1>19. CASE UpdateGet(t)
  BY <1>19, <1>a DEF CallShape, CallState, UpdateGet, Begins, Start
<1>20. CASE UpdateCas(t)
  BY <1>20, <1>a DEF CallShape, CallState, UpdateCas, Win
<1>21. CASE UpdateLoses(t)
  BY <1>21, <1>a DEF CallShape, CallState, UpdateLoses, Answer
<1>22. CASE Touch(t)
  BY <1>22, <1>a DEF CallShape, CallState, Touch, TouchTtl, Begins,
     AnswerAtOnce
<1>23. CASE StoreFails(t)
  BY <1>23, <1>a DEF CallShape, CallState, StoreFails, Answer,
     BeforeIndexDelete
<1>24. CASE PurgeIgnoresFailure(t)
  BY <1>24, <1>a DEF CallShape, CallState, PurgeIgnoresFailure, Goto
<1>25. CASE FirstCallFails(t)
  <2>1. /\ task[t].pc \in {"idle", "hit"}
        /\ UNCHANGED <<index, blob, now, epoch>>
        /\ \E op \in Ops : AnswerAtOnce(t, op, "backend")
    BY <1>25, FirstCallFailsEffect
  <2>2. QED
    BY <1>25, <1>a, <2>1 DEF CallShape, CallState, AnswerAtOnce
<1>26. QED
  BY <1>1, <1>2, <1>3, <1>4, <1>5, <1>6, <1>7, <1>8, <1>9, <1>10, <1>11, <1>12,
     <1>13, <1>14, <1>15, <1>16, <1>17, <1>18, <1>19, <1>20, <1>21, <1>22,
     <1>23, <1>24, <1>25
  DEF Step, Lookup, Fill, Purge, Update

(* No step deletes a body, and the ones that write a manifest come after   *)
(* the one that wrote its body.                                            *)
LEMMA StepBodiesKept ==
    ASSUME TypeOK, CallShape, BodiesKept, NEW t \in Tasks, Step(t),
           task[t].typ = "Soft"
    PROVE  BodiesKept'
<1> SUFFICES /\ \A k \in Keys : blob[k] # None => blob'[k] # None
             /\ \A k \in Keys : index'[k] # None
                                 => index[k] # None \/ blob'[k] # None
             /\ BodyFirst(t)'
  <2>1. \A u \in Tasks \ {t} : task'[u] = task[u]
    BY StepFrame
  <2>2. \A u \in Tasks : task[u].key \in Keys
    BY DEF TypeOK, CallState
  <2>3. \A u \in Tasks : BodyFirst(u)'
    BY <2>1, <2>2 DEF BodiesKept, BodyFirst
  <2>4. QED
    BY <2>3 DEF BodiesKept
<1> USE DEF BodyFirst
<1>a. /\ task[t] \in [op : Ops, pc : PCs, key : Keys,
                      seen : Manifest \cup {None}, typ : {"Soft", "Hard"},
                      epoch : Nat, won : Nat \cup {None}, res : Results]
      /\ task \in [Tasks -> CallState]
      /\ index \in [Keys -> Manifest \cup {None}]
      /\ blob \in [Keys -> Tasks \cup {None}]
      /\ task[t].key \in Keys
      /\ \A k \in Keys : index[k] # None => blob[k] # None
      /\ task[t].typ = "Soft"
      /\ None \notin Tasks
      /\ BodyFirst(t)
  BY ConstantsAssumption DEF TypeOK, CallState, BodiesKept
<1>1. CASE LookupMiss(t)
  BY <1>1, <1>a DEF LookupMiss, Begins, AnswerAtOnce
<1>2. CASE LookupIndex(t)
  BY <1>2, <1>a DEF LookupIndex, Key
<1>3. CASE LookupBlob(t)
  <2>1. blob[Key(t)] # None
    BY <1>3, <1>a DEF LookupBlob, Key
  <2>2. QED
    BY <1>3, <1>a, <2>1 DEF LookupBlob, Goto
<1>4. CASE HitFinish(t)
  BY <1>4, <1>a DEF HitFinish, Goto
<1>5. CASE StartFill(t)
  BY <1>5, <1>a DEF StartFill, Begins, Start
<1>6. CASE StartRefill(t)
  BY <1>6, <1>a DEF StartRefill
<1>7. CASE WriteBody(t)
  BY <1>7, <1>a DEF WriteBody, Goto
<1>8. CASE DropFill(t)
  BY <1>8, <1>a DEF DropFill, Goto
<1>9. CASE FillComplete(t)
  <2>1. blob'[task[t].key] # None
    BY <1>9, <1>a DEF FillComplete, PutBlob, Key
  <2>2. \A k \in Keys : blob[k] # None => blob'[k] # None
    BY <1>9, <1>a DEF FillComplete, PutBlob, Key
  <2>3. QED
    BY <1>9, <1>a, <2>1, <2>2 DEF FillComplete, Goto
<1>10. CASE FillPutNew(t)
  BY <1>10, <1>a DEF FillPutNew, PutNew, Win, Key
<1>11. CASE FillCas(t)
  <2>1. \A k \in Keys : index'[k] # None => index[k] # None
    BY <1>11, <1>a DEF FillCas, CasMatches, CasUpdate, Key
  <2>2. QED
    BY <1>11, <1>a, <2>1 DEF FillCas, Win
<1>12. CASE FillLoses(t)
  BY <1>12, <1>a DEF FillLoses, Answer
<1>13. CASE PurgeFindsNothing(t)
  BY <1>13, <1>a DEF PurgeFindsNothing, Begins, AnswerAtOnce
<1>14. CASE PurgeGet(t)
  <2>1. PICK typ \in PurgeTypes :
          task' = [task EXCEPT ![t] =
                     [@ EXCEPT !.op = "purge", !.pc = "purging",
                               !.seen = index[Key(t)], !.typ = typ,
                               !.epoch = epoch[Key(t)]]]
    BY <1>14 DEF PurgeGet
  <2>2. QED
    BY <1>14, <1>a, <2>1 DEF PurgeGet
<1>15. CASE PurgeBump(t)
  <2>1. \A k \in Keys : index'[k] # None => index[k] # None
    BY <1>15, <1>a DEF PurgeBump, CasMatches, CasUpdate, Key
  <2>2. CASE Win(t, "bumped", "none")
    BY <1>15, <1>a, <2>1, <2>2 DEF PurgeBump, Win
  <2>3. CASE Goto(t, "bumped")
    BY <1>15, <1>a, <2>1, <2>3 DEF PurgeBump, Goto
  <2>4. QED
    BY <1>15, <2>2, <2>3 DEF PurgeBump
<1>16. CASE PurgeBlob(t)
  BY <1>16, <1>a DEF PurgeBlob
<1>17. CASE PurgeIndex(t)
  <2>1. \A k \in Keys : index'[k] # None => index[k] # None
    BY <1>17, <1>a DEF PurgeIndex, DeleteIndex, Key
  <2>2. QED
    BY <1>17, <1>a, <2>1 DEF PurgeIndex, BeforeIndexDelete, Answer
<1>18. CASE UpdateFindsNothing(t)
  BY <1>18, <1>a DEF UpdateFindsNothing, Begins, AnswerAtOnce
<1>19. CASE UpdateGet(t)
  BY <1>19, <1>a DEF UpdateGet, Begins, Start
<1>20. CASE UpdateCas(t)
  <2>1. \A k \in Keys : index'[k] # None => index[k] # None
    BY <1>20, <1>a DEF UpdateCas, CasMatches, CasUpdate, Key
  <2>2. QED
    BY <1>20, <1>a, <2>1 DEF UpdateCas, Win
<1>21. CASE UpdateLoses(t)
  BY <1>21, <1>a DEF UpdateLoses, Answer
<1>22. CASE Touch(t)
  <2>1. \A k \in Keys : index'[k] # None => index[k] # None
    BY <1>22, <1>a DEF Touch, TouchTtl, Key
  <2>2. QED
    BY <1>22, <1>a, <2>1 DEF Touch, AnswerAtOnce
<1>23. CASE StoreFails(t)
  BY <1>23, <1>a DEF StoreFails, Answer
<1>24. CASE PurgeIgnoresFailure(t)
  BY <1>24, <1>a DEF PurgeIgnoresFailure, Goto
<1>25. CASE FirstCallFails(t)
  <2>1. /\ task[t].pc \in {"idle", "hit"}
        /\ UNCHANGED <<index, blob, now, epoch>>
        /\ \E op \in Ops : AnswerAtOnce(t, op, "backend")
    BY <1>25, FirstCallFailsEffect
  <2>2. QED
    BY <1>25, <1>a, <2>1 DEF AnswerAtOnce
<1>26. QED
  BY <1>1, <1>2, <1>3, <1>4, <1>5, <1>6, <1>7, <1>8, <1>9, <1>10, <1>11, <1>12,
     <1>13, <1>14, <1>15, <1>16, <1>17, <1>18, <1>19, <1>20, <1>21, <1>22,
     <1>23, <1>24, <1>25
  DEF Step, Lookup, Fill, Purge, Update

LEMMA SoftInvariance == Spec => []SoftInv
<1>1. Init => SoftInv
  BY DEF Init, SoftInv, BodiesKept, BodyFirst
<1>2. IndInv /\ SoftInv /\ [Next]_vars => SoftInv'
  <2> SUFFICES ASSUME IndInv, SoftInv, [Next]_vars
               PROVE  SoftInv'
    OBVIOUS
  <2>1. CASE Tick \/ UNCHANGED vars
    BY <2>1 DEF Tick, vars, SoftInv, SoftOnly, BodiesKept, BodyFirst
  <2>2. ASSUME NEW t \in Tasks, Step(t) PROVE SoftInv'
    <3>1. \A u \in Tasks \ {t} : task'[u] = task[u]
      BY <2>2, StepFrame DEF IndInv
    <3>2. /\ task'[t].typ # task[t].typ => task[t].pc = "idle"
          /\ task'[t].pc # "idle"
      BY <2>2, StepTyp DEF IndInv
    <3>3. SoftOnly' => SoftOnly
      BY <3>1, <3>2 DEF SoftInv, SoftOnly
    <3>4. SoftOnly' => BodiesKept'
      BY <2>2, <3>3, StepBodiesKept DEF SoftInv, SoftOnly, IndInv
    <3>5. QED
      BY <3>1, <3>2, <3>4 DEF SoftInv
  <2>3. QED
    BY <2>1, <2>2 DEF Next
<1>3. QED
  BY <1>1, <1>2, Inductive, PTL DEF Spec

(* Until a client purges hard, a manifest always has a body behind it ...  *)
THEOREM SoftPurgesKeepBodies == Spec => []NoDanglingManifest
<1>1. SoftInv => NoDanglingManifest
  BY DEF SoftInv, BodiesKept, NoDanglingManifest
<1>2. QED
  BY <1>1, SoftInvariance, PTL

(* ... and no lookup fails for want of one.                                *)
THEOREM SoftPurgesFailNoLookup == Spec => []LookupFindsBody
<1>1. SoftInv => LookupFindsBody
  BY DEF SoftInv, BodiesKept, BodyFirst, LookupFindsBody
<1>2. QED
  BY <1>1, SoftInvariance, PTL
-----------------------------------------------------------------------------
(* The places a call passes through belong to what it does.                *)
Phase(t) ==
    LET c == task[t] IN
    \/ c.pc = "done"
    \/ c.op = "none"   /\ c.pc = "idle"
    \/ c.op = "lookup" /\ c.pc \in {"lookup", "hit"}
    \/ c.op = "fill"   /\ c.pc \in {"open", "buffered", "stored"}
    \/ c.op = "purge"  /\ c.pc \in {"purging", "bumped", "unblobbed"}
    \/ c.op = "update" /\ c.pc = "updating"

(* Call t touches neither store and wins nothing.                          *)
Reads(t) == /\ UNCHANGED <<index, blob, epoch>>
            /\ task'[t].won = task[t].won
            /\ task'[t].pc # "stored"
            /\ task[t].pc = "stored" => task'[t].pc = "done"
            /\ task'[t].seen \in {task[t].seen, index[Key(t)], None}

Purges(t) == /\ task'[t].op = "purge"
             /\ \/ Reads(t)
                \/ PurgeBump(t)
                \/ PurgeBlob(t)
                \/ PurgeIndex(t)

(* A call keeps to its operation, but for a lookup that goes on to fill.   *)
LEMMA StepPhase ==
    ASSUME TypeOK, CallShape, NEW t \in Tasks, Phase(t), Step(t)
    PROVE  /\ Phase(t)'
           /\ task[t].pc # "done"
           /\ \/ task'[t].op = task[t].op
              \/ task[t].op = "none"
              \/ task[t].op = "lookup" /\ task'[t].op = "fill"
           /\ task'[t].seen = task[t].seen \/ Reads(t)
           /\ \/ Reads(t) \/ Purges(t)
              \/ FillComplete(t) \/ FillPutNew(t) \/ FillCas(t)
              \/ UpdateCas(t) \/ Touch(t)
<1> USE DEF Phase
<1>a. /\ task[t] \in [op : Ops, pc : PCs, key : Keys,
                      seen : Manifest \cup {None}, typ : {"Soft", "Hard"},
                      epoch : Nat, won : Nat \cup {None}, res : Results]
      /\ task \in [Tasks -> CallState]
      /\ task[t].won # None => task[t].pc \in {"bumped", "unblobbed", "done"}
      /\ task[t].op = "purge"
            => task[t].pc \in {"purging", "bumped", "unblobbed", "done"}
  BY DEF TypeOK, CallState, CallShape
<1>1. CASE LookupMiss(t)
  BY <1>1, <1>a DEF LookupMiss, Begins, AnswerAtOnce, Reads
<1>2. CASE LookupIndex(t)
  BY <1>2, <1>a DEF LookupIndex, Begins, Key, Reads
<1>3. CASE LookupBlob(t)
  <2>1. CASE Goto(t, "hit")
    BY <1>3, <1>a, <2>1 DEF LookupBlob, Goto, Reads
  <2>2. CASE Answer(t, "notfound")
    BY <1>3, <1>a, <2>2 DEF LookupBlob, Answer, Reads
  <2>3. QED
    BY <1>3, <2>1, <2>2 DEF LookupBlob
<1>4. CASE HitFinish(t)
  BY <1>4, <1>a DEF HitFinish, Goto, Reads
<1>5. CASE StartFill(t)
  BY <1>5, <1>a DEF StartFill, Begins, Start, Reads
<1>6. CASE StartRefill(t)
  BY <1>6, <1>a DEF StartRefill, Reads
<1>7. CASE WriteBody(t)
  BY <1>7, <1>a DEF WriteBody, Goto, Reads
<1>8. CASE DropFill(t)
  BY <1>8, <1>a DEF DropFill, Goto, Reads
<1>9. CASE FillComplete(t)
  BY <1>9, <1>a DEF FillComplete, Goto
<1>10. CASE FillPutNew(t)
  BY <1>10, <1>a DEF FillPutNew, Win
<1>11. CASE FillCas(t)
  BY <1>11, <1>a DEF FillCas, Win
<1>12. CASE FillLoses(t)
  BY <1>12, <1>a DEF FillLoses, Answer, Reads
<1>13. CASE PurgeFindsNothing(t)
  BY <1>13, <1>a DEF PurgeFindsNothing, Begins, AnswerAtOnce, Reads, Purges
<1>14. CASE PurgeGet(t)
  <2>1. PICK typ \in PurgeTypes :
          task' = [task EXCEPT ![t] =
                     [@ EXCEPT !.op = "purge", !.pc = "purging",
                               !.seen = index[Key(t)], !.typ = typ,
                               !.epoch = epoch[Key(t)]]]
    BY <1>14 DEF PurgeGet
  <2>2. QED
    BY <1>14, <1>a, <2>1 DEF PurgeGet, Begins, Reads, Purges
<1>15. CASE PurgeBump(t)
  <2>1. CASE Win(t, "bumped", "none")
    BY <1>15, <1>a, <2>1 DEF PurgeBump, Win, Purges
  <2>2. CASE Goto(t, "bumped")
    BY <1>15, <1>a, <2>2 DEF PurgeBump, Goto, Purges
  <2>3. QED
    BY <1>15, <2>1, <2>2 DEF PurgeBump
<1>16. CASE PurgeBlob(t)
  BY <1>16, <1>a DEF PurgeBlob, Goto, Purges
<1>17. CASE PurgeIndex(t)
  BY <1>17, <1>a DEF PurgeIndex, BeforeIndexDelete, Answer, Purges
<1>18. CASE UpdateFindsNothing(t)
  BY <1>18, <1>a DEF UpdateFindsNothing, Begins, AnswerAtOnce, Reads
<1>19. CASE UpdateGet(t)
  BY <1>19, <1>a DEF UpdateGet, Begins, Start, Key, Reads
<1>20. CASE UpdateCas(t)
  BY <1>20, <1>a DEF UpdateCas, Win
<1>21. CASE UpdateLoses(t)
  BY <1>21, <1>a DEF UpdateLoses, Answer, Reads
<1>22. CASE Touch(t)
  BY <1>22, <1>a DEF Touch, Begins, AnswerAtOnce
<1>23. CASE StoreFails(t)
  BY <1>23, <1>a DEF StoreFails, BeforeIndexDelete, Answer, Reads
<1>24. CASE PurgeIgnoresFailure(t)
  BY <1>24, <1>a DEF PurgeIgnoresFailure, Goto, Reads, Purges
<1>25. CASE FirstCallFails(t)
  <2>1. /\ task[t].pc \in {"idle", "hit"}
        /\ UNCHANGED <<index, blob, now, epoch>>
    BY <1>25, FirstCallFailsEffect
  <2>2. PICK op \in Ops : /\ AnswerAtOnce(t, op, "backend")
                          /\ task[t].pc = "idle" \/ op = "fill"
    BY <1>25, FirstCallFailsEffect
  <2>3. /\ task'[t].op = op /\ task'[t].pc = "done"
        /\ task'[t].won = task[t].won /\ task'[t].seen = task[t].seen
    BY <1>a, <2>2, AnswersAtOnce
  <2>4. Reads(t)
    BY <1>a, <2>1, <2>3 DEF Reads
  <2>5. QED
    BY <1>a, <2>1, <2>2, <2>3, <2>4
<1>26. QED
  BY <1>1, <1>2, <1>3, <1>4, <1>5, <1>6, <1>7, <1>8, <1>9, <1>10, <1>11, <1>12,
     <1>13, <1>14, <1>15, <1>16, <1>17, <1>18, <1>19, <1>20, <1>21, <1>22,
     <1>23, <1>24, <1>25
  DEF Step, Lookup, Fill, Purge, Update

(* Without a purge of its key an entry stays, and what a call saw of it    *)
(* lies in the past.                                                       *)
Unpurged(k) == \A t \in Tasks : Key(t) = k => task[t].op # "purge"

SeenInPast ==
    \A t \in Tasks :
        task[t].seen # None /\ Unpurged(Key(t)) =>
            /\ index[Key(t)] # None
            /\ task[t].seen.version <= index[Key(t)].version

(* A fill that has stored its body and not its manifest yet.               *)
Unsettled(t, k) ==
    task[t].key = k /\ task[t].op = "fill" /\ task[t].pc = "stored"

MayWin(t, k) == IF task[t].seen = None
                THEN index[k] = None
                ELSE CasMatches(k, task[t].seen.version)

(* The body is the manifest's, or that of the only fill that can still     *)
(* write the manifest: of two such fills one will lose.                    *)
BodyOf(k) ==
    (\A t \in Tasks : Harmless(t, k) \/ Unsettled(t, k)) =>
        /\ /\ index[k] # None
           /\ \A t \in Tasks : ~Unsettled(t, k)
           => blob[k] = index[k].meta
        /\ \A t \in Tasks :
              /\ Unsettled(t, k) /\ MayWin(t, k)
              /\ \A u \in Tasks \ {t} : ~Unsettled(u, k)
              => blob[k] = t

BodyInv ==
    /\ \A t \in Tasks : Phase(t)
    /\ SeenInPast
    /\ \A k \in Keys : BodyOf(k)

(* A step on one key leaves the others alone; without a purge it keeps the *)
(* entry, and no purge is ever forgotten.                                  *)
LEMMA StepUnpurged ==
    ASSUME TypeOK, CallShape, NEW t \in Tasks, Phase(t), Step(t), NEW k \in Keys
    PROVE  /\ Unpurged(k)' => Unpurged(k)
           /\ Key(t) # k => \/ index'[k] = index[k]
                            \/ /\ index[k] # None /\ index'[k] # None
                               /\ index'[k].version = index[k].version
                               /\ index'[k].meta = index[k].meta
           /\ Unpurged(k)' /\ index[k] # None =>
                 index'[k] # None /\ index[k].version <= index'[k].version
<1>a. /\ \A u \in Tasks \ {t} : task'[u] = task[u]
      /\ \A u \in Tasks : task'[u].key = task[u].key
      /\ Key(t) \in Keys
      /\ index \in [Keys -> Manifest \cup {None}]
      /\ epoch \in [Keys -> Nat]
      /\ None \notin Manifest
      /\ \A m \in Manifest : m.version \in Nat
  BY StepFrame, KeyType, ConstantsAssumption DEF TypeOK, Manifest
<1>1. Unpurged(k)' => Unpurged(k)
  BY <1>a, StepPhase DEF Unpurged, Key
<1>2. Key(t) # k => \/ index'[k] = index[k]
                    \/ /\ index[k] # None /\ index'[k] # None
                       /\ index'[k].version = index[k].version
                       /\ index'[k].meta = index[k].meta
  BY <1>a, StepEffect DEF Silent, Created, Revised, Removed
<1>3. ASSUME Unpurged(k)', index[k] # None
      PROVE  index'[k] # None /\ index[k].version <= index'[k].version
  <2>1. CASE Silent(t)
    BY <1>a, <1>3, <2>1 DEF Silent
  <2>2. CASE Created(t)
    BY <1>a, <1>3, <2>2 DEF Created
  <2>3. CASE Revised(t)
    <3>1. PICK meta \in Tasks, e \in Nat :
            index' = [index EXCEPT ![Key(t)] =
                        [version |-> index[Key(t)].version + 1, meta |-> meta,
                         expires_at |-> e]]
      BY <2>3 DEF Revised
    <3>2. [version |-> index[Key(t)].version + 1, meta |-> meta,
           expires_at |-> e] \in Manifest
      BY <1>a, <2>3 DEF Revised, Manifest
    <3>3. QED
      BY <1>a, <1>3, <3>1, <3>2
  <2>4. CASE Removed(t)
    <3>1. Key(t) # k
      <4>1. SUFFICES ASSUME Key(t) = k PROVE FALSE
        OBVIOUS
      <4>2. task'[t].op # "purge"
        BY <1>a, <1>3, <4>1 DEF Unpurged, Key
      <4>3. epoch' = epoch
        BY <4>2, StepPhase
        DEF Reads, Purges, FillComplete, FillPutNew, FillCas, UpdateCas, Touch
      <4>4. QED
        BY <1>a, <2>4, <4>3 DEF Removed
    <3>2. QED
      BY <1>a, <1>3, <2>4, <3>1 DEF Removed
  <2>5. QED
    BY <2>1, <2>2, <2>3, <2>4, StepEffect
<1>4. QED
  BY <1>1, <1>2, <1>3

LEMMA StepSeenInPast ==
    ASSUME TypeOK, CallShape, SeenInPast, NEW t \in Tasks, Phase(t), Step(t)
    PROVE  SeenInPast'
<1> SUFFICES ASSUME NEW u \in Tasks, NEW k \in Keys, k = task[u].key,
                    task'[u].seen # None, Unpurged(k)'
             PROVE  /\ index'[k] # None
                    /\ task'[u].seen.version <= index'[k].version
  <2>1. \A u \in Tasks : task[u].key \in Keys /\ task'[u].key = task[u].key
    BY StepFrame DEF TypeOK, CallState
  <2>2. QED
    BY <2>1 DEF SeenInPast, Key
<1>a. /\ \A m \in Manifest : m.version \in Nat
      /\ None \notin Manifest
      /\ index \in [Keys -> Manifest \cup {None}]
      /\ task[u].seen \in Manifest \cup {None}
  BY KeyType, ConstantsAssumption DEF TypeOK, Manifest
<1>b. /\ Unpurged(k)
      /\ index[k] # None =>
            index'[k] # None /\ index[k].version <= index'[k].version
  BY StepUnpurged
<1>1. CASE task'[u].seen = task[u].seen
  <2>1. index[k] # None /\ task[u].seen.version <= index[k].version
    BY <1>1, <1>b DEF SeenInPast, Key
  <2>2. index'[k] \in Manifest \cup {None}
    BY StepTypeOK DEF TypeOK
  <2>3. QED
    BY <1>1, <1>a, <1>b, <2>1, <2>2
<1>2. CASE task'[u].seen # task[u].seen
  <2>1. u = t /\ Reads(t)
    BY <1>2, StepFrame, StepPhase
  <2>2. index' = index /\ task'[u].seen = index[k]
    BY <1>2, <2>1 DEF Reads, Key
  <2>3. QED
    BY <1>a, <2>2
<1>3. QED
  BY <1>1, <1>2

LEMMA StepBodyOf ==
    ASSUME TypeOK, CallShape, SeenInPast, NEW t \in Tasks, Phase(t), Step(t),
           NEW k \in Keys, BodyOf(k)
    PROVE  BodyOf(k)'
<1> DEFINE Fine(u) == Harmless(u, k) \/ Unsettled(u, k)
<1> SUFFICES ASSUME \A u \in Tasks : Fine(u)'
             PROVE  /\ /\ index'[k] # None
                       /\ \A u \in Tasks : ~Unsettled(u, k)'
                       => blob'[k] = index'[k].meta
                    /\ \A u \in Tasks :
                          /\ Unsettled(u, k)' /\ MayWin(u, k)'
                          /\ \A w \in Tasks \ {u} : ~Unsettled(w, k)'
                          => blob'[k] = u
  BY DEF BodyOf
<1>a. /\ \A u \in Tasks \ {t} : task'[u] = task[u]
      /\ \A u \in Tasks : task'[u].key = task[u].key
      /\ index \in [Keys -> Manifest \cup {None}]
      /\ blob \in [Keys -> Tasks \cup {None}]
      /\ None \notin Manifest
      /\ \A m \in Manifest : m.version \in Nat
      /\ \A u \in Tasks : task[u].seen \in Manifest \cup {None}
      /\ task \in [Tasks -> CallState]
      /\ task[t] \in [op : Ops, pc : PCs, key : Keys,
                      seen : Manifest \cup {None}, typ : {"Soft", "Hard"},
                      epoch : Nat, won : Nat \cup {None}, res : Results]
      /\ task[t].won # None => task[t].pc \in {"bumped", "unblobbed", "done"}
  BY StepFrame, KeyType, ConstantsAssumption
  DEF TypeOK, Manifest, CallState, CallShape
<1>b. \A u \in Tasks \ {t} : Fine(u) /\ (Unsettled(u, k)' <=> Unsettled(u, k))
  BY <1>a DEF Harmless, Unsettled, Key
<1>p. /\ task[t].pc # "done"
      /\ \/ task'[t].op = task[t].op
         \/ task[t].op = "none"
         \/ task[t].op = "lookup" /\ task'[t].op = "fill"
      /\ task'[t].seen = task[t].seen \/ Reads(t)
      /\ \/ Reads(t) \/ Purges(t)
         \/ FillComplete(t) \/ FillPutNew(t) \/ FillCas(t)
         \/ UpdateCas(t) \/ Touch(t)
  BY StepPhase
(* A step that leaves the entry and the body alone, and settles nothing.   *)
<1>c. ASSUME Fine(t), Unsettled(t, k)' <=> Unsettled(t, k),
             Unsettled(t, k) => task'[t].seen = task[t].seen,
             blob'[k] = blob[k],
             \/ index'[k] = index[k]
             \/ /\ index[k] # None /\ index'[k] # None
                /\ index'[k].version = index[k].version
                /\ index'[k].meta = index[k].meta
      PROVE  /\ /\ index'[k] # None
                /\ \A u \in Tasks : ~Unsettled(u, k)'
                => blob'[k] = index'[k].meta
             /\ \A u \in Tasks :
                   /\ Unsettled(u, k)' /\ MayWin(u, k)'
                   /\ \A w \in Tasks \ {u} : ~Unsettled(w, k)'
                   => blob'[k] = u
  <2>1. \A u \in Tasks : Fine(u) /\ (Unsettled(u, k)' <=> Unsettled(u, k))
    BY <1>b, <1>c
  <2>2. \A u \in Tasks : Unsettled(u, k) => task'[u].seen = task[u].seen
    BY <1>a, <1>c
  <2>3. \A u \in Tasks : Unsettled(u, k) /\ MayWin(u, k)' => MayWin(u, k)
    BY <1>c, <2>2 DEF MayWin, CasMatches
  <2>4. QED
    BY <1>c, <2>1, <2>3 DEF BodyOf
<1>1. CASE Key(t) # k
  <2>1. Fine(t) /\ ~Unsettled(t, k) /\ ~Unsettled(t, k)'
    BY <1>1, <1>a DEF Harmless, Unsettled, Key
  <2>2. blob'[k] = blob[k]
    BY <1>1, <1>a, <1>p
    DEF Reads, Purges, FillComplete, PutBlob, FillPutNew, FillCas, UpdateCas,
        Touch, PurgeBump, PurgeBlob, DeleteBlob, PurgeIndex
  <2>3. QED
    BY <1>1, <1>c, <2>1, <2>2, StepUnpurged
<1>2. CASE Key(t) = k /\ Reads(t)
  <2>1. Harmless(t, k)' /\ ~Unsettled(t, k)'
    BY <1>2 DEF Reads, Unsettled
  <2>2. Harmless(t, k) /\ ~Unsettled(t, k)
    BY <1>2, <1>a, <1>p, <2>1 DEF Reads, Harmless, Unsettled, Key, Phase
  <2>3. QED
    BY <1>2, <1>c, <2>1, <2>2 DEF Reads
<1>3. CASE Key(t) = k /\ Purges(t)
  BY <1>3, <1>a DEF Purges, Harmless, Unsettled, Key
<1>4. CASE Key(t) = k /\ FillComplete(t)
  <2>1. blob'[k] = t /\ Unsettled(t, k)'
    BY <1>4, <1>a DEF FillComplete, PutBlob, Goto, Unsettled, Key, Phase
  <2>2. QED
    BY <2>1
<1>5. CASE Key(t) = k /\ (FillPutNew(t) \/ FillCas(t))
  <2>1. /\ Unsettled(t, k) /\ MayWin(t, k) /\ ~Unsettled(t, k)'
        /\ blob' = blob
    <3>1. CASE FillPutNew(t)
      BY <1>5, <1>a, <3>1
      DEF FillPutNew, PutNew, Win, Unsettled, MayWin, Key, Phase
    <3>2. CASE FillCas(t)
      BY <1>5, <1>a, <3>2 DEF FillCas, Win, Unsettled, MayWin, Key, Phase
    <3>3. QED
      BY <1>5, <3>1, <3>2
  <2>2. /\ index'[k].meta = t /\ index'[k] # None
        /\ index[k] # None => index'[k].version = index[k].version + 1
    <3>1. \A ttl \in Ttls : now + ttl \in Nat
      BY ConstantsAssumption DEF TypeOK
    <3>2. \A v \in Nat, e \in Nat :
            LET m == [version |-> v, meta |-> t, expires_at |-> e]
            IN m # None /\ m.meta = t /\ m.version = v
      BY ConstantsAssumption DEF Manifest
    <3>3. CASE FillPutNew(t)
      <4>1. PICK ttl \in Ttls :
              index' = [index EXCEPT ![k] = [version |-> 0, meta |-> t,
                                             expires_at |-> now + ttl]]
        BY <1>5, <3>3 DEF FillPutNew, PutNew
      <4>2. index[k] = None
        BY <1>5, <3>3 DEF FillPutNew, PutNew
      <4>3. QED
        BY <1>a, <3>1, <3>2, <4>1, <4>2
    <3>4. CASE FillCas(t)
      <4>1. PICK ttl \in Ttls :
              index' = [index EXCEPT ![k] =
                          [version |-> task[t].seen.version + 1, meta |-> t,
                           expires_at |-> now + ttl]]
        BY <1>5, <3>4 DEF FillCas, CasUpdate
      <4>2. /\ index[k].version = task[t].seen.version
            /\ task[t].seen.version + 1 \in Nat
        BY <1>5, <1>a, <3>4 DEF FillCas, CasMatches
      <4>3. QED
        BY <1>a, <3>1, <3>2, <4>1, <4>2
    <3>5. QED
      BY <1>5, <3>3, <3>4
  <2>3. \A u \in Tasks : Fine(u)
    BY <1>b, <2>1
  <2>4. Unpurged(k)
    BY <2>3 DEF Unpurged, Harmless, Unsettled, Key
  <2>5. ASSUME NEW u \in Tasks, Unsettled(u, k)'
        PROVE  ~MayWin(u, k)'
    <3>1. u # t /\ task'[u] = task[u] /\ Key(u) = k
      BY <1>a, <2>1, <2>5 DEF Unsettled, Key
    <3>2. task[u].seen # None =>
            index[k] # None /\ task[u].seen.version <= index[k].version
      BY <2>4, <3>1 DEF SeenInPast
    <3>3. task[u].seen # None =>
            task[u].seen.version \in Nat /\ index[k].version \in Nat
      BY <1>a, <3>2
    <3>4. QED
      BY <2>2, <3>1, <3>2, <3>3 DEF MayWin, CasMatches
  <2>6. (\A u \in Tasks : ~Unsettled(u, k)') => blob[k] = t
    BY <1>b, <2>1, <2>3 DEF BodyOf
  <2>7. QED
    BY <2>1, <2>2, <2>5, <2>6
<1>6. CASE Key(t) = k /\ UpdateCas(t)
  <2>1. task'[t].op = "update" /\ task'[t].won # None
    BY <1>6, <1>a, ConstantsAssumption DEF UpdateCas, Win, Phase, Key, TypeOK
  <2>2. QED
    BY <1>6, <1>a, <2>1 DEF Harmless, Unsettled, Key
<1>7. CASE Key(t) = k /\ Touch(t)
  <2>1. /\ Harmless(t, k) /\ ~Unsettled(t, k) /\ ~Unsettled(t, k)'
        /\ blob' = blob
    BY <1>7, <1>a DEF Touch, Begins, AnswerAtOnce, Phase, Harmless, Unsettled
  <2>2. Silent(t)
    <3>1. epoch' = epoch /\ task'[t].won = task[t].won
      BY <1>7, <1>a DEF Touch, AnswerAtOnce
    <3>2. task[t].won = None
      BY <1>7, <1>a DEF Touch, Begins
    <3>3. None \notin Nat /\ epoch[Key(t)] \in Nat /\ Key(t) \in Keys
      BY KeyType, ConstantsAssumption DEF TypeOK
    <3>4. ~Removed(t)
      BY <3>1, <3>3 DEF Removed, TypeOK
    <3>5. QED
      BY <3>1, <3>2, <3>3, <3>4, StepEffect DEF Created, Revised
  <2>3. QED
    BY <1>c, <2>1, <2>2 DEF Silent
<1>8. QED
  BY <1>1, <1>2, <1>3, <1>4, <1>5, <1>6, <1>7, <1>p

LEMMA BodyInvariance == Spec => []BodyInv
<1>1. Init => BodyInv
  BY DEF Init, BodyInv, Phase, SeenInPast, BodyOf, Unsettled
<1>2. IndInv /\ BodyInv /\ [Next]_vars => BodyInv'
  <2> SUFFICES ASSUME IndInv, BodyInv, [Next]_vars
               PROVE  BodyInv'
    OBVIOUS
  <2>1. CASE Tick \/ UNCHANGED vars
    BY <2>1
    DEF Tick, vars, BodyInv, Phase, SeenInPast, Unpurged, BodyOf, Harmless,
        Unsettled, MayWin, CasMatches, Key
  <2>2. ASSUME NEW t \in Tasks, Step(t) PROVE BodyInv'
    <3>1. \A u \in Tasks : Phase(u)'
      <4>1. \A u \in Tasks \ {t} : task'[u] = task[u]
        BY <2>2, StepFrame DEF IndInv
      <4>2. Phase(t)'
        BY <2>2, StepPhase DEF IndInv, BodyInv
      <4>3. QED
        BY <4>1, <4>2 DEF BodyInv, Phase
    <3>2. SeenInPast'
      BY <2>2, StepSeenInPast DEF IndInv, BodyInv
    <3>3. \A k \in Keys : BodyOf(k)'
      BY <2>2, StepBodyOf DEF IndInv, BodyInv
    <3>4. QED
      BY <3>1, <3>2, <3>3 DEF BodyInv
  <2>3. QED
    BY <2>1, <2>2 DEF Next
<1>3. QED
  BY <1>1, <1>2, Inductive, PTL DEF Spec

(* However the fills of a key overlap, the body behind a manifest is the   *)
(* one the manifest was written for, unless a fill has lost or failed      *)
(* between its two writes.                                                 *)
THEOREM BodiesAndManifestsAgree == Spec => []BodyIsTheManifests
<1>1. IndInv /\ BodyInv => BodyIsTheManifests
  <2> SUFFICES ASSUME IndInv, BodyInv, NEW k \in Keys, index[k] # None,
                      \A t \in Tasks : Harmless(t, k)
               PROVE  blob[k] = index[k].meta
    BY DEF BodyIsTheManifests
  <2>1. \A t \in Tasks : ~Unsettled(t, k)
    BY DEF Harmless, Unsettled, Key, IndInv, CallShape
  <2>2. QED
    BY <2>1 DEF BodyInv, BodyOf
<1>2. QED
  BY <1>1, Inductive, BodyInvariance, PTL
-----------------------------------------------------------------------------
(* A purge whose tombstone took effect had found a manifest.               *)
PurgeSaw ==
    \A t \in Tasks :
        task[t].op = "purge" /\ task[t].won # None => task[t].seen # None

(* The tombstone a purge has put in the present life is still there,       *)
(* expired, or what is there was written on top of it or of its successors *)
(* -- unless the key has been touched.                                     *)
LEMMA StepTombstone ==
    ASSUME IndInv, PurgeSaw, OlderCallsReviveNothing, NEW t \in Tasks, Phase(t),
           Step(t)
    PROVE  PurgeSaw' /\ OlderCallsReviveNothing'
<1>a. /\ \A u \in Tasks \ {t} : task'[u] = task[u]
      /\ \A u \in Tasks : task'[u].key = task[u].key /\ task[u].key \in Keys
      /\ task[t].won # None => /\ task'[t].won = task[t].won
                               /\ task'[t].seen = task[t].seen
      /\ task'[t].won # task[t].won => task'[t].seen = task[t].seen
      /\ index \in [Keys -> Manifest \cup {None}]
      /\ index' \in [Keys -> Manifest \cup {None}]
      /\ epoch \in [Keys -> Nat] /\ epoch' \in [Keys -> Nat]
      /\ None \notin Nat
      /\ \A m \in Manifest : m.version \in Nat /\ m # None
      /\ \A u \in Tasks : /\ task[u].seen \in Manifest \cup {None}
                          /\ task[u].won \in Nat \cup {None}
      /\ task[t] \in [op : Ops, pc : PCs, key : Keys,
                      seen : Manifest \cup {None}, typ : {"Soft", "Hard"},
                      epoch : Nat, won : Nat \cup {None}, res : Results]
      /\ task \in [Tasks -> CallState]
      /\ task[t].won # None => task[t].pc \in {"bumped", "unblobbed", "done"}
      /\ task[t].pc = "purging" => task[t].seen # None
  BY StepFrame, StepTypeOK, KeyType, ConstantsAssumption
  DEF IndInv, TypeOK, Manifest, CallState, CallShape
<1>n. /\ None \notin Nat
      /\ \A k \in Keys : epoch[k] \in Nat /\ epoch'[k] \in Nat
  BY <1>a
<1>t. Touch(t) => task'[t].op = "touch"
  <2>1. /\ task \in [Tasks -> CallState]
        /\ task[t] \in [op : Ops, pc : PCs, key : Keys,
                        seen : Manifest \cup {None}, typ : {"Soft", "Hard"},
                        epoch : Nat, won : Nat \cup {None}, res : Results]
    BY <1>a
  <2>2. QED
    BY <2>1 DEF Touch, AnswerAtOnce
<1>u. /\ FillComplete(t) \/ FillPutNew(t) \/ FillCas(t) => task'[t].op = "fill"
      /\ UpdateCas(t) => task'[t].op = "update"
  <2>1. /\ task \in [Tasks -> CallState]
        /\ task[t] \in [op : Ops, pc : PCs, key : Keys,
                        seen : Manifest \cup {None}, typ : {"Soft", "Hard"},
                        epoch : Nat, won : Nat \cup {None}, res : Results]
    BY <1>a
  <2>2. FillComplete(t) => task'[t].op = task[t].op /\ task[t].pc = "buffered"
    BY <2>1 DEF FillComplete, Goto
  <2>3. FillPutNew(t) => task'[t].op = task[t].op /\ task[t].pc = "stored"
    BY <2>1 DEF FillPutNew, Win
  <2>4. FillCas(t) => task'[t].op = task[t].op /\ task[t].pc = "stored"
    BY <2>1 DEF FillCas, Win
  <2>5. UpdateCas(t) => task'[t].op = task[t].op /\ task[t].pc = "updating"
    BY <2>1 DEF UpdateCas, Win
  <2>6. /\ task[t].pc \in {"buffered", "stored"} => task[t].op = "fill"
        /\ task[t].pc = "updating" => task[t].op = "update"
    BY <1>a DEF Phase
  <2>7. QED
    BY <2>2, <2>3, <2>4, <2>5, <2>6
<1>p. /\ task[t].pc # "done"
      /\ \/ task'[t].op = task[t].op
         \/ task[t].op = "none"
         \/ task[t].op = "lookup" /\ task'[t].op = "fill"
      /\ \/ Reads(t) \/ Purges(t)
         \/ FillComplete(t) \/ FillPutNew(t) \/ FillCas(t)
         \/ UpdateCas(t) \/ Touch(t)
  BY StepPhase DEF IndInv
(* A purge wins with its tombstone and with nothing else.                  *)
<1>b. task'[t].op = "purge" =>
          \/ task'[t].won = task[t].won
          \/ /\ task[t].pc = "purging"
             /\ index' = [index EXCEPT ![task[t].key] =
                             [version    |-> task[t].seen.version + 1,
                              meta       |-> task[t].seen.meta,
                              expires_at |-> 0]]
  <2>1. SUFFICES ASSUME task'[t].op = "purge"
                 PROVE  \/ task'[t].won = task[t].won
                        \/ /\ task[t].pc = "purging"
                           /\ index' = [index EXCEPT ![task[t].key] =
                                 [version    |-> task[t].seen.version + 1,
                                  meta       |-> task[t].seen.meta,
                                  expires_at |-> 0]]
    OBVIOUS
  <2>2. /\ ~FillPutNew(t) /\ ~FillCas(t) /\ ~UpdateCas(t)
        /\ ~FillComplete(t) /\ ~Touch(t)
    BY <1>t, <1>u, <2>1
  <2>3. CASE Reads(t)
    BY <2>3 DEF Reads
  <2>4. CASE PurgeBump(t)
    <3>1. CASE CasMatches(Key(t), task[t].seen.version)
      BY <2>4, <3>1 DEF PurgeBump, CasUpdate, Key
    <3>2. CASE ~CasMatches(Key(t), task[t].seen.version)
      BY <1>a, <2>4, <3>2 DEF PurgeBump, Goto
    <3>3. QED
      BY <3>1, <3>2
  <2>5. CASE PurgeBlob(t) \/ PurgeIndex(t)
    <3>1. CASE PurgeBlob(t)
      BY <1>a, <3>1 DEF PurgeBlob, Goto
    <3>2. CASE PurgeIndex(t)
      BY <1>a, <3>2 DEF PurgeIndex, Answer
    <3>3. QED
      BY <2>5, <3>1, <3>2
  <2>6. QED
    BY <1>p, <2>2, <2>3, <2>4, <2>5 DEF Purges
<1>1. PurgeSaw'
  <2>1. task'[t].op = "purge" /\ task'[t].won # None => task'[t].seen # None
    <3>1. CASE task[t].won # None
      BY <1>a, <1>p, <3>1 DEF PurgeSaw, Phase
    <3>2. CASE task[t].won = None
      BY <1>a, <1>b, <3>2
    <3>3. QED
      BY <3>1, <3>2
  <2>2. QED
    BY <1>a, <2>1 DEF PurgeSaw
(* Only a touch moves an expiry and nothing else.                          *)
<1>c. ASSUME Silent(t), ~Touch(t) PROVE index' = index
  <2>1. task'[t].won = task[t].won /\ Key(t) \in Keys
    BY <1>a, <1>c DEF Silent, Key
  <2>2. ASSUME NEW pc, NEW res, Win(t, pc, res), task[t].won = None
        PROVE  FALSE
    BY <1>a, <2>1, <2>2 DEF Win
  <2>4. ~FillPutNew(t) /\ ~FillCas(t) /\ ~UpdateCas(t)
    BY <1>a, <2>2 DEF FillPutNew, FillCas, UpdateCas
  <2>5. CASE Reads(t) \/ FillComplete(t) \/ PurgeBlob(t)
    BY <2>5 DEF Reads, FillComplete, PurgeBlob
  <2>6. CASE PurgeBump(t)
    BY <1>a, <2>2, <2>6 DEF PurgeBump
  <2>7. CASE PurgeIndex(t)
    BY <1>a, <1>c, <2>1, <2>7 DEF PurgeIndex, DeleteIndex, Silent
  <2>8. QED
    BY <1>c, <1>p, <2>4, <2>5, <2>6, <2>7 DEF Purges
(* What a purge, a fill and an update leave behind when they take the      *)
(* entry of k to its next version.                                         *)
<1>d. ASSUME Revised(t)
      PROVE  \/ index'[Key(t)].expires_at = 0
             \/ /\ task'[t].op \in {"fill", "update"}
                /\ index'[Key(t)].meta = t
  <2>1. /\ task'[t].won = epoch[Key(t)] /\ epoch[Key(t)] \in Nat
        /\ Key(t) \in Keys
        /\ index[Key(t)] # None /\ task[t].seen # None
        /\ index'[Key(t)].version = index[Key(t)].version + 1
        /\ index[Key(t)] \in Manifest
    BY <1>a, <1>d DEF Revised, Key
  <2>2. index'[Key(t)] # index[Key(t)]
    BY <1>a, <2>1
  <2>3. ~Touch(t) /\ ~Reads(t) /\ ~FillComplete(t) /\ ~FillPutNew(t)
        /\ ~PurgeBlob(t)
    <3>1. ~Touch(t)
      <4>1. SUFFICES ASSUME Touch(t) PROVE FALSE
        OBVIOUS
      <4>2. PICK e \in 0 .. MaxTime + 1 : TouchTtl(Key(t), e)
        BY <4>1 DEF Touch
      <4>3. index'[Key(t)].version = index[Key(t)].version
        BY <1>a, <2>1, <4>2 DEF TouchTtl, Manifest
      <4>4. QED
        BY <1>a, <2>1, <4>3
    <3>2. QED
      BY <2>1, <2>2, <3>1 DEF Reads, FillComplete, FillPutNew, PurgeBlob
  <2>4. CASE FillCas(t)
    <3>1. PICK ttl \in Ttls :
            CasUpdate(Key(t), task[t].seen.version, t, now + ttl)
      BY <2>4 DEF FillCas
    <3>2. index'[Key(t)].meta = t
      BY <1>a, <2>1, <3>1 DEF CasUpdate
    <3>3. QED
      BY <1>u, <2>4, <3>2
  <2>5. CASE UpdateCas(t)
    <3>1. PICK ttl \in Ttls :
            CasUpdate(Key(t), task[t].seen.version, t, now + ttl)
      BY <2>5 DEF UpdateCas
    <3>2. index'[Key(t)].meta = t
      BY <1>a, <2>1, <3>1 DEF CasUpdate
    <3>3. QED
      BY <1>u, <2>5, <3>2
  <2>6. CASE PurgeBump(t)
    BY <1>a, <2>1, <2>2, <2>6 DEF PurgeBump, CasUpdate
  <2>7. CASE PurgeIndex(t)
    BY <1>a, <1>d, <2>1, <2>7 DEF PurgeIndex, DeleteIndex, Revised
  <2>8. QED
    BY <1>p, <2>3, <2>4, <2>5, <2>6, <2>7 DEF Purges
<1>2. OlderCallsReviveNothing'
  <2> DEFINE Since(k, u) ==
               LET w == index[k].meta IN
               /\ task[w].op \in {"fill", "update"}
               /\ task[w].key = k
               /\ task[w].won = epoch[k]
               /\ task[w].seen # None
               /\ task[w].seen.version >= task[u].seen.version + 1
  <2> SUFFICES ASSUME NEW u \in Tasks, NEW k, k = task'[u].key,
                      \A w \in Tasks : task'[w].op = "touch"
                                          => task'[w].key # k,
                      task'[u].op = "purge", task'[u].won = epoch'[k],
                      index'[k] # None
               PROVE  index'[k].expires_at = 0 \/ Since(k, u)'
    BY DEF OlderCallsReviveNothing, Key
  <2>k. k = task[u].key /\ k \in Keys
    BY <1>a
  <2>1. \A w \in Tasks : task[w].op = "touch" => task[w].key # k
    BY <1>a, <1>p DEF Phase
  <2>2. CASE task'[u].won # task[u].won
    <3>1. u = t
      BY <1>a, <2>2
    <3>2. index' = [index EXCEPT ![k] =
                      [version    |-> task[t].seen.version + 1,
                       meta       |-> task[t].seen.meta,
                       expires_at |-> 0]]
      BY <1>b, <2>k, <2>2, <3>1
    <3>3. QED
      BY <1>a, <3>2
  <2>3. CASE task'[u].won = task[u].won
    <3>1. task[u].won \in Nat /\ task[u].won # None
      BY <1>n, <2>k, <2>3
    <3>2. task[u].op = "purge" /\ task'[u].seen = task[u].seen
      BY <1>a, <1>p, <3>1 DEF Phase
    <3>3. /\ task[u].seen # None /\ task[u].seen.version \in Nat
          /\ index[k] # None => index[k].version \in Nat
      BY <1>a, <3>1, <3>2 DEF PurgeSaw
    <3>4. \/ task[u].won < epoch[k]
          \/ /\ task[u].won = epoch[k] /\ index[k] # None
             /\ task[u].seen.version < index[k].version
      BY <1>a, <3>1, <3>3 DEF IndInv, WonInPast, Key
    <3>5. CASE index'[k] = index[k] /\ epoch'[k] = epoch[k]
      <4>1. index[k].expires_at = 0 \/ Since(k, u)
        BY <2>k, <2>1, <2>3, <3>2, <3>5 DEF OlderCallsReviveNothing, Key
      <4>2. ASSUME Since(k, u) PROVE Since(k, u)'
        <5>1. index[k].meta \in Tasks /\ index'[k].meta = index[k].meta
          BY <1>a, <3>5 DEF Manifest
        <5>2. task[index[k].meta].won # None
          BY <1>n, <2>k, <4>2
        <5>3. task[index[k].meta].op \in {"fill", "update"}
          BY <4>2
        <5>4. index[k].meta # t
          BY <1>a, <1>p, <5>2, <5>3 DEF Phase
        <5>5. task'[index[k].meta] = task[index[k].meta]
          BY <1>a, <5>1, <5>4
        <5>6. QED
          BY <3>2, <3>5, <4>2, <5>1, <5>5
      <4>3. QED
        BY <3>5, <4>1, <4>2
    <3>6. CASE Silent(t)
      <4>1. CASE Touch(t)
        <5>1. Key(t) # k
          BY <1>a, <1>t, <4>1 DEF Key
        <5>2. index'[k] = index[k]
          BY <1>a, <4>1, <5>1 DEF Touch, TouchTtl, Key
        <5>3. QED
          BY <3>5, <3>6, <5>2 DEF Silent
      <4>2. CASE ~Touch(t)
        BY <1>c, <3>5, <3>6, <4>2 DEF Silent
      <4>3. QED
        BY <4>1, <4>2
    <3>7. CASE Created(t)
      <4>1. epoch'[k] = epoch[k] /\ (Key(t) # k => index'[k] = index[k])
        BY <1>a, <3>7 DEF Created, Key
      <4>2. Key(t) # k
        <5>1. task[u].won = epoch[k] /\ epoch[k] \in Nat
          BY <1>n, <2>k, <2>3, <4>1
        <5>2. index[k] # None
          BY <3>4, <5>1
        <5>3. QED
          BY <3>7, <5>2 DEF Created
      <4>3. QED
        BY <3>5, <4>1, <4>2
    <3>8. CASE Revised(t)
      <4>1. epoch'[k] = epoch[k] /\ (Key(t) # k => index'[k] = index[k])
        BY <1>a, <3>8 DEF Revised, Key
      <4>2. CASE Key(t) = k
        <5>1. /\ task'[t].won = epoch'[k] /\ task'[t].key = k
              /\ task[t].seen # None
              /\ task[t].seen.version = index[k].version
          BY <1>a, <3>8, <4>1, <4>2 DEF Revised, Key
        <5>2. task'[t].seen = task[t].seen
          BY <1>a, <3>8, <4>1, <4>2, <5>1 DEF Revised
        <5>3. task[u].won = epoch[k] /\ epoch[k] \in Nat
          BY <1>n, <2>k, <2>3, <4>1
        <5>4. task[u].seen.version < index[k].version /\ index[k] # None
          BY <3>4, <5>3
        <5>5. task'[t].seen.version >= task'[u].seen.version + 1
          BY <3>2, <3>3, <5>1, <5>2, <5>4
        <5>6. QED
          BY <1>d, <3>8, <4>2, <5>1, <5>2, <5>5
      <4>3. QED
        BY <3>5, <4>1, <4>2
    <3>9. CASE Removed(t)
      <4>1. Key(t) # k => index'[k] = index[k] /\ epoch'[k] = epoch[k]
        BY <1>a, <3>9 DEF Removed, Key
      <4>2. Key(t) # k
        BY <1>a, <3>9 DEF Removed
      <4>3. QED
        BY <3>5, <4>1, <4>2
    <3>10. QED
      BY <3>6, <3>7, <3>8, <3>9, StepEffect DEF IndInv
  <2>4. QED
    BY <2>2, <2>3
<1>3. QED
  BY <1>1, <1>2

(* A purge's version bump shuts out the calls that found the entry as the  *)
(* purge found it, for any number of fills, updates, purges and touches of *)
(* other keys.                                                             *)
THEOREM OlderCallsAreShutOut == Spec => []OlderCallsReviveNothing
<1>1. Init => PurgeSaw /\ OlderCallsReviveNothing
  BY DEF Init, PurgeSaw, OlderCallsReviveNothing
<1>2. ASSUME IndInv, BodyInv, PurgeSaw, OlderCallsReviveNothing, [Next]_vars
      PROVE  PurgeSaw' /\ OlderCallsReviveNothing'
  <2>1. CASE Tick \/ UNCHANGED vars
    BY <1>2, <2>1
    DEF Tick, vars, PurgeSaw, OlderCallsReviveNothing, Key
  <2>2. ASSUME NEW t \in Tasks, Step(t)
        PROVE  PurgeSaw' /\ OlderCallsReviveNothing'
    BY <1>2, <2>2, StepTombstone DEF BodyInv
  <2>3. QED
    BY <1>2, <2>1, <2>2 DEF Next
<1>3. QED
  BY <1>1, <1>2, Inductive, BodyInvariance, PTL DEF Spec
=============================================================================
