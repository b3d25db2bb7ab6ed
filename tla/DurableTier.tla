----------------------------- MODULE DurableTier -----------------------------
(***************************************************************************)
(* The durable cache tier (src/src/storage/durable.rs) on top of the two   *)
(* in-memory stores of src/src/storage/memory.rs.                          *)
(*                                                                         *)
(* An entry lives in two places: a manifest in the index store and a body  *)
(* in the blob store.  Each store takes its mutex for one call only, so a  *)
(* call on a store is one atomic step here and a method of DurableTier is  *)
(* as many steps as it makes store calls; the steps of concurrent calls    *)
(* interleave freely.                                                      *)
(*                                                                         *)
(* A member of Tasks is one client of the tier: it looks a key up and may  *)
(* go on to store a fresh response under the version it saw, or it starts  *)
(* a fill, a purge, a metadata update or a touch, and then it is done.     *)
(* The response a task stores, body and CacheMeta alike, is named by the   *)
(* task.                                                                   *)
(***************************************************************************)
EXTENDS Naturals

CONSTANTS
    Keys,        \* cache keys; object_id_for maps them one to one to blobs
    Tasks,       \* concurrent clients, each making one call (or lookup + fill)
    None,        \* Rust's None: no manifest, no blob, no captured version
    Calls,       \* the calls the clients make
    PurgeTypes,  \* the PurgeType values they purge with
    Ttls,        \* the CacheMeta.ttl values of responses
    MaxTime,     \* bound on the clock
    Faulty       \* may a store answer DurableError::Backend?

(* A manifest of the index.  `object` is a function of the key, and `len`  *)
(* and `etag` are never read back, so the three are left out.              *)
Manifest == [version : Nat, meta : Tasks, expires_at : Nat]

ASSUME ConstantsAssumption ==
    /\ None \notin Tasks \cup Nat \cup Manifest
    /\ None \notin [version : Nat, meta : Tasks]
    /\ Calls \subseteq {"lookup", "fill", "purge", "update", "touch"}
    /\ PurgeTypes \subseteq {"Soft", "Hard"}
    /\ Ttls \subseteq Nat
    /\ MaxTime \in Nat
    /\ Faulty \in BOOLEAN

VARIABLES
    index,  \* index store: key -> Manifest or None
    blob,   \* blob store: key -> task whose body is stored, or None
    now,    \* SystemTime::now()
    task,   \* local state of every call
    epoch   \* history: how many lives of the key purges have ended

vars == <<index, blob, now, task, epoch>>

PCs == {"idle",                                   \* not called yet
        "lookup", "hit",                          \* DurableTier::lookup
        "open", "buffered", "stored",             \* BlobMiss
        "purging", "bumped", "unblobbed",         \* DurableTier::purge
        "updating",                               \* DurableTier::update_meta
        "done"}

Ops == {"none", "lookup", "fill", "purge", "update", "touch"}

Results == {"none", "miss", "fresh", "stale", "success", "true", "false",
            "notfound", "backend"}

(* seen: the manifest the call read from the index; a fill that carries a  *)
(* version carries seen.version.  epoch and won are history: the life of   *)
(* the key in which the call began, and the life in which its write to the *)
(* index took effect.                                                      *)
CallState == [op    : Ops,
              pc    : PCs,
              key   : Keys,
              seen  : Manifest \cup {None},
              typ   : {"Soft", "Hard"},
              epoch : Nat,
              won   : Nat \cup {None},
              res   : Results]

TypeOK ==
    /\ index \in [Keys -> Manifest \cup {None}]
    /\ blob \in [Keys -> Tasks \cup {None}]
    /\ now \in Nat
    /\ task \in [Tasks -> CallState]
    /\ epoch \in [Keys -> Nat]

Init ==
    /\ index = [k \in Keys |-> None]
    /\ blob = [k \in Keys |-> None]
    /\ now = 0
    /\ epoch = [k \in Keys |-> 0]
    /\ \E key \in [Tasks -> Keys] :
         task = [t \in Tasks |->
                   [op |-> "none", pc |-> "idle", key |-> key[t],
                    seen |-> None, typ |-> "Soft", epoch |-> 0,
                    won |-> None, res |-> "none"]]

-----------------------------------------------------------------------------
(* Steps of a call.                                                        *)

Key(t) == task[t].key

Begins(t, op) == op \in Calls /\ task[t].pc = "idle"

(* The call starts op, having read manifest m from the index.              *)
Start(t, op, pc, m) ==
    task' = [task EXCEPT ![t] =
              [@ EXCEPT !.op = op, !.pc = pc, !.seen = m,
                        !.epoch = epoch[Key(t)]]]

Goto(t, pc) == task' = [task EXCEPT ![t] = [@ EXCEPT !.pc = pc]]

Answer(t, res) == task' = [task EXCEPT ![t] =
                            [@ EXCEPT !.pc = "done", !.res = res]]

(* A whole call that takes one step.                                       *)
AnswerAtOnce(t, op, res) ==
    task' = [task EXCEPT ![t] =
              [@ EXCEPT !.op = op, !.pc = "done", !.res = res]]

(* The call's write to the index took effect in the present life of key.   *)
Win(t, pc, res) ==
    task' = [task EXCEPT ![t] =
              [@ EXCEPT !.pc = pc, !.res = res, !.won = epoch[Key(t)]]]

-----------------------------------------------------------------------------
(* The calls of InMemoryBlobStore and InMemoryIndexStore.                  *)

(* BlobWrite::complete replaces whatever the object held.                  *)
PutBlob(k, t) == blob' = [blob EXCEPT ![k] = t]

DeleteBlob(k) == blob' = [blob EXCEPT ![k] = None]

PutNew(k, m) ==
    /\ index[k] = None
    /\ index' = [index EXCEPT ![k] = m]

(* Mutants of CasMatches: the version is not compared; an absent entry is  *)
(* let through.                                                            *)
CasMatchesAnyVersion(k, version) == index[k] # None
CasMatchesAbsent(k, version) == index[k] = None \/ index[k].version = version

(* cas_update succeeds exactly when ...                                    *)
CasMatches(k, version) == index[k] # None /\ index[k].version = version

(* Mutant of CasUpdate: the version is not bumped.                         *)
CasUpdateSameVersion(k, version, meta, expires_at) ==
    index' = [index EXCEPT ![k] = [version |-> version, meta |-> meta,
                                   expires_at |-> expires_at]]

(* ... and then leaves this manifest.                                      *)
CasUpdate(k, version, meta, expires_at) ==
    index' = [index EXCEPT ![k] = [version |-> version + 1, meta |-> meta,
                                   expires_at |-> expires_at]]

DeleteIndex(k) == index' = [index EXCEPT ![k] = None]

(* touch_ttl moves the expiry of whatever entry is there.                  *)
TouchTtl(k, new_expiry) ==
    IF index[k] = None
    THEN UNCHANGED index
    ELSE index' = [index EXCEPT ![k].expires_at = new_expiry]
-----------------------------------------------------------------------------
(* DurableTier::lookup                                                     *)

LookupMiss(t) ==
    /\ Begins(t, "lookup")
    /\ index[Key(t)] = None
    /\ AnswerAtOnce(t, "lookup", "miss")
    /\ UNCHANGED <<index, blob, now, epoch>>

(* Reads the manifest and, with no await in between, the clock.            *)
LookupIndex(t) ==
    LET m == index[Key(t)] IN
    /\ Begins(t, "lookup")
    /\ m # None
    /\ task' = [task EXCEPT ![t] =
                 [@ EXCEPT !.op = "lookup", !.pc = "lookup", !.seen = m,
                           !.epoch = epoch[Key(t)],
                           !.res = IF m.expires_at > now
                                   THEN "fresh" ELSE "stale"]]
    /\ UNCHANGED <<index, blob, now, epoch>>

LookupBlob(t) ==
    /\ task[t].pc = "lookup"
    /\ \/ blob[Key(t)] # None /\ Goto(t, "hit")
       \/ blob[Key(t)] = None /\ Answer(t, "notfound")
    /\ UNCHANGED <<index, blob, now, epoch>>

(* BlobHit::finish, or the hit handler dropped: nothing to do.             *)
HitFinish(t) ==
    /\ task[t].pc = "hit"
    /\ Goto(t, "done")
    /\ UNCHANGED <<index, blob, now, epoch>>
-----------------------------------------------------------------------------
(* DurableTier::get_miss_handler and BlobMiss                              *)

(* A fill whose CacheMeta carries no version.                              *)
StartFill(t) ==
    /\ Begins(t, "fill")
    /\ Start(t, "fill", "open", None)
    /\ UNCHANGED <<index, blob, now, epoch>>

(* A fill with the version that the task's lookup returned in its meta.    *)
StartRefill(t) ==
    /\ "fill" \in Calls
    /\ task[t].pc = "hit"
    /\ task' = [task EXCEPT ![t] = [@ EXCEPT !.op = "fill", !.pc = "open"]]
    /\ UNCHANGED <<index, blob, now, epoch>>

(* write_body up to the end of the body: only the writer's buffer changes. *)
(* A write that fails leaves the handler as it is, to be written to again  *)
(* or dropped.                                                             *)
WriteBody(t) ==
    /\ task[t].pc = "open"
    /\ Goto(t, "buffered")
    /\ UNCHANGED <<index, blob, now, epoch>>

(* The handler is dropped and never finished.                              *)
DropFill(t) ==
    /\ task[t].pc \in {"open", "buffered"}
    /\ Goto(t, "done")
    /\ UNCHANGED <<index, blob, now, epoch>>

(* Mutant of FillComplete: the body is not written before the manifest.    *)
FillSkipsBody(t) ==
    /\ task[t].pc = "buffered"
    /\ Goto(t, "stored")
    /\ UNCHANGED <<index, blob, now, epoch>>

(* finish, first half: the body goes to the object of the key.             *)
FillComplete(t) ==
    /\ task[t].pc = "buffered"
    /\ PutBlob(Key(t), t)
    /\ Goto(t, "stored")
    /\ UNCHANGED <<index, now, epoch>>

(* Mutant of FillPutNew: expect_version is stored without unwrap_or(0).    *)
FillPutNewNoVersion(t) ==
    /\ task[t].pc = "stored"
    /\ task[t].seen = None
    /\ PutNew(Key(t), [version |-> None, meta |-> t, expires_at |-> now])
    /\ Win(t, "done", "success")
    /\ UNCHANGED <<blob, now, epoch>>

(* finish, second half, without a version: put_new on an absent key.       *)
FillPutNew(t) ==
    /\ task[t].pc = "stored"
    /\ task[t].seen = None
    /\ \E ttl \in Ttls :
         PutNew(Key(t), [version |-> 0, meta |-> t, expires_at |-> now + ttl])
    /\ Win(t, "done", "success")
    /\ UNCHANGED <<blob, now, epoch>>

(* finish, second half, with a version: cas_update on that version.        *)
FillCas(t) ==
    /\ task[t].pc = "stored"
    /\ task[t].seen # None
    /\ CasMatches(Key(t), task[t].seen.version)
    /\ \E ttl \in Ttls : CasUpdate(Key(t), task[t].seen.version, t, now + ttl)
    /\ Win(t, "done", "success")
    /\ UNCHANGED <<blob, now, epoch>>

(* PreconditionFailed and NotFound are answered with Success.              *)
FillLoses(t) ==
    /\ task[t].pc = "stored"
    /\ IF task[t].seen = None
       THEN index[Key(t)] # None
       ELSE ~CasMatches(Key(t), task[t].seen.version)
    /\ Answer(t, "success")
    /\ UNCHANGED <<index, blob, now, epoch>>
-----------------------------------------------------------------------------
(* DurableTier::purge                                                      *)

PurgeFindsNothing(t) ==
    /\ Begins(t, "purge")
    /\ index[Key(t)] = None
    /\ AnswerAtOnce(t, "purge", "false")
    /\ UNCHANGED <<index, blob, now, epoch>>

PurgeGet(t) ==
    /\ Begins(t, "purge")
    /\ index[Key(t)] # None
    /\ \E typ \in PurgeTypes :
         task' = [task EXCEPT ![t] =
                   [@ EXCEPT !.op = "purge", !.pc = "purging",
                             !.seen = index[Key(t)], !.typ = typ,
                             !.epoch = epoch[Key(t)]]]
    /\ UNCHANGED <<index, blob, now, epoch>>

(* Mutant of PurgeBump: the tombstone keeps the expiry of the entry.       *)
PurgeBumpKeepsExpiry(t) ==
    LET m == task[t].seen IN
    /\ task[t].pc = "purging"
    /\ \/ /\ CasMatches(Key(t), m.version)
          /\ CasUpdate(Key(t), m.version, m.meta, m.expires_at)
          /\ Win(t, "bumped", "none")
       \/ /\ ~CasMatches(Key(t), m.version)
          /\ Goto(t, "bumped")
          /\ UNCHANGED index
    /\ UNCHANGED <<blob, now, epoch>>

(* Step 1 of the purge: the tombstone, expired at the Unix epoch.  A lost  *)
(* cas_update is ignored.                                                  *)
PurgeBump(t) ==
    LET m == task[t].seen IN
    /\ task[t].pc = "purging"
    /\ \/ /\ CasMatches(Key(t), m.version)
          /\ CasUpdate(Key(t), m.version, m.meta, 0)
          /\ Win(t, "bumped", "none")
       \/ /\ ~CasMatches(Key(t), m.version)
          /\ Goto(t, "bumped")
          /\ UNCHANGED index
    /\ UNCHANGED <<blob, now, epoch>>

(* Mutant of PurgeBlob: a soft purge deletes the body too.                 *)
PurgeBlobAlways(t) ==
    /\ task[t].pc = "bumped"
    /\ DeleteBlob(Key(t))
    /\ Goto(t, "unblobbed")
    /\ UNCHANGED <<index, now, epoch>>

(* Step 2 of a hard purge begins with the body.                            *)
PurgeBlob(t) ==
    /\ task[t].pc = "bumped"
    /\ task[t].typ = "Hard"
    /\ DeleteBlob(Key(t))
    /\ Goto(t, "unblobbed")
    /\ UNCHANGED <<index, now, epoch>>

BeforeIndexDelete(t) ==
    \/ task[t].pc = "unblobbed"
    \/ task[t].pc = "bumped" /\ task[t].typ = "Soft"

(* Mutant of PurgeIndex: a purge that lost its cas_update deletes nothing. *)
PurgeIndexIfBumped(t) ==
    /\ BeforeIndexDelete(t)
    /\ IF task[t].won # None /\ index[Key(t)] # None
       THEN /\ DeleteIndex(Key(t))
            /\ epoch' = [epoch EXCEPT ![Key(t)] = @ + 1]
       ELSE UNCHANGED <<index, epoch>>
    /\ Answer(t, "true")
    /\ UNCHANGED <<blob, now>>

(* Step 2 ends with the manifest, whichever manifest is there by then.     *)
PurgeIndex(t) ==
    /\ BeforeIndexDelete(t)
    /\ DeleteIndex(Key(t))
    /\ epoch' = IF index[Key(t)] = None
                THEN epoch
                ELSE [epoch EXCEPT ![Key(t)] = @ + 1]
    /\ Answer(t, "true")
    /\ UNCHANGED <<blob, now>>
-----------------------------------------------------------------------------
(* DurableTier::update_meta and DurableTier::touch                         *)

UpdateFindsNothing(t) ==
    /\ Begins(t, "update")
    /\ index[Key(t)] = None
    /\ AnswerAtOnce(t, "update", "false")
    /\ UNCHANGED <<index, blob, now, epoch>>

UpdateGet(t) ==
    /\ Begins(t, "update")
    /\ index[Key(t)] # None
    /\ Start(t, "update", "updating", index[Key(t)])
    /\ UNCHANGED <<index, blob, now, epoch>>

UpdateCas(t) ==
    /\ task[t].pc = "updating"
    /\ CasMatches(Key(t), task[t].seen.version)
    /\ \E ttl \in Ttls : CasUpdate(Key(t), task[t].seen.version, t, now + ttl)
    /\ Win(t, "done", "true")
    /\ UNCHANGED <<blob, now, epoch>>

(* A lost race is Ok(false), a vanished entry is an error.                 *)
UpdateLoses(t) ==
    /\ task[t].pc = "updating"
    /\ ~CasMatches(Key(t), task[t].seen.version)
    /\ Answer(t, IF index[Key(t)] = None THEN "notfound" ELSE "false")
    /\ UNCHANGED <<index, blob, now, epoch>>

(* Answers true also for a key that has no entry.                          *)
Touch(t) ==
    /\ Begins(t, "touch")
    /\ \E new_expiry \in 0 .. MaxTime + 1 : TouchTtl(Key(t), new_expiry)
    /\ AnswerAtOnce(t, "touch", "true")
    /\ UNCHANGED <<blob, now, epoch>>
-----------------------------------------------------------------------------
(* DurableError::Backend from a store, before the call took effect.        *)

(* The first store call of a call fails: the index get of a lookup, purge  *)
(* or update, the blob put of a fill, the touch_ttl of a touch.            *)
FirstCallFails(t) ==
    /\ Faulty
    /\ \E op \in Calls :
         /\ Begins(t, op) \/ (op = "fill" /\ task[t].pc = "hit")
         /\ AnswerAtOnce(t, op, "backend")
    /\ UNCHANGED <<index, blob, now, epoch>>

(* The error is returned to the caller (map_err(map_durable_err)?).        *)
StoreFails(t) ==
    /\ Faulty
    /\ \/ task[t].pc \in {"lookup", "buffered", "stored", "updating"}
       \/ BeforeIndexDelete(t)
    /\ Answer(t, "backend")
    /\ UNCHANGED <<index, blob, now, epoch>>

(* The purge's cas_update and blob delete are `let _ = ...`.               *)
PurgeIgnoresFailure(t) ==
    /\ Faulty
    /\ \/ task[t].pc = "purging" /\ Goto(t, "bumped")
       \/ /\ task[t].pc = "bumped" /\ task[t].typ = "Hard"
          /\ Goto(t, "unblobbed")
    /\ UNCHANGED <<index, blob, now, epoch>>

Tick ==
    /\ now < MaxTime
    /\ now' = now + 1
    /\ UNCHANGED <<index, blob, task, epoch>>
-----------------------------------------------------------------------------
Lookup(t) == LookupMiss(t) \/ LookupIndex(t) \/ LookupBlob(t) \/ HitFinish(t)

Fill(t) == \/ StartFill(t) \/ StartRefill(t) \/ WriteBody(t) \/ DropFill(t)
           \/ FillComplete(t) \/ FillPutNew(t) \/ FillCas(t) \/ FillLoses(t)

Purge(t) == \/ PurgeFindsNothing(t) \/ PurgeGet(t) \/ PurgeBump(t)
            \/ PurgeBlob(t) \/ PurgeIndex(t)

Update(t) == \/ UpdateFindsNothing(t) \/ UpdateGet(t) \/ UpdateCas(t)
             \/ UpdateLoses(t)

Step(t) == \/ Lookup(t) \/ Fill(t) \/ Purge(t) \/ Update(t) \/ Touch(t)
           \/ FirstCallFails(t) \/ StoreFails(t) \/ PurgeIgnoresFailure(t)

Next == Tick \/ \E t \in Tasks : Step(t)

Spec == Init /\ [][Next]_vars
-----------------------------------------------------------------------------
(* Properties.                                                             *)

(* The version a call's write to the index is conditional on; None for     *)
(* put_new.                                                                *)
Condition(t) == IF task[t].seen = None THEN None ELSE task[t].seen.version

(* First writer wins, and no update is lost: of all the calls that write   *)
(* the index of a key under the same condition -- put_new on absence, or   *)
(* cas_update on one version, whether from a fill, a purge or a metadata   *)
(* update -- at most one takes effect in each life of the entry.           *)
OneWinnerPerVersion ==
    \A t, u \in Tasks :
        /\ t # u
        /\ task[t].won # None
        /\ task[t].won = task[u].won
        /\ Key(t) = Key(u)
        => Condition(t) # Condition(u)

(* Call t created life e of key k with put_new.                            *)
Creates(t, k, e) ==
    task[t].won = e /\ Key(t) = k /\ task[t].seen = None

(* A purged entry is not brought back by a fill that carries a version,    *)
(* however it interleaves with the purge: every life of a key, past or     *)
(* present, was created by a fill that carried none.                       *)
EveryLifeHasACreator ==
    \A k \in Keys : \A e \in 0 .. epoch[k] :
        e < epoch[k] \/ index[k] # None => \E t \in Tasks : Creates(t, k, e)

(* A purge that answers true has ended the life of the entry it found,     *)
(* also when its cas_update lost to a concurrent writer or another purge   *)
(* was faster.                                                             *)
PurgeEndsWhatItSaw ==
    \A t \in Tasks :
        task[t].op = "purge" /\ task[t].res = "true"
            => task[t].epoch < epoch[Key(t)]

(* No hard purge has begun; typ is "Soft" until a purge sets it.           *)
SoftOnly == \A t \in Tasks : task[t].typ = "Soft"

(* Until an entry is purged hard, a manifest always has a body behind it,  *)
(* although the two are written and deleted by separate steps.             *)
NoDanglingManifest ==
    SoftOnly => \A k \in Keys : index[k] # None => blob[k] # None

(* ... and a lookup that found a manifest also finds the body it reads one *)
(* step later.                                                             *)
LookupFindsBody ==
    SoftOnly => \A t \in Tasks :
                   task[t].op = "lookup" => task[t].res # "notfound"

(* Call t has not disturbed the entry of key k: it only reads, or is a     *)
(* fill that has not stored its body yet or has won, or an update that     *)
(* changed nothing.                                                        *)
Harmless(t, k) ==
    \/ Key(t) # k
    \/ task[t].op \in {"none", "lookup", "touch"}
    \/ /\ task[t].op = "fill"
       /\ task[t].won # None \/ task[t].pc \in {"open", "buffered"}
    \/ task[t].op = "update" /\ task[t].won = None

(* Every fill of a key writes the same object, before its manifest: the    *)
(* body behind a manifest is nevertheless the one the manifest was written *)
(* for, however fills overlap, as long as none of them has lost the race   *)
(* or failed between the two writes (a loser's body stays).                *)
BodyIsTheManifests ==
    \A k \in Keys :
        index[k] # None /\ (\A t \in Tasks : Harmless(t, k))
            => blob[k] = index[k].meta

(* The purge's version bump shuts out every call that found the entry as   *)
(* the purge found it, or older: what it has expired is made fresh only by *)
(* a fill or update that carries the tombstone's version or a later one    *)
(* (an update_meta that finds the tombstone the index refused to delete    *)
(* does revive it), or by a touch, which compares no versions.             *)
OlderCallsReviveNothing ==
    \A t \in Tasks :
        LET m == index[Key(t)]
            tombstone == task[t].seen.version + 1
        IN
        /\ task[t].op = "purge"
        /\ task[t].won = epoch[Key(t)]
        /\ m # None
        /\ \A u \in Tasks : task[u].op = "touch" => Key(u) # Key(t)
        => \/ m.expires_at = 0
           \/ /\ task[m.meta].op \in {"fill", "update"}
              /\ Key(m.meta) = Key(t)
              /\ task[m.meta].won = epoch[Key(t)]
              /\ task[m.meta].seen # None
              /\ task[m.meta].seen.version >= tombstone

(* The index goes through the lives of EntryLifecycle: expiry is the only  *)
(* thing that changes without a new version.                               *)
Lifecycle ==
    INSTANCE EntryLifecycle
    WITH Metas <- Tasks,
         lives <- epoch,
         entry <- [k \in Keys |->
                     IF index[k] = None
                     THEN None
                     ELSE [version |-> index[k].version,
                           meta |-> index[k].meta]]

LifecycleSpec == Lifecycle!Spec
-----------------------------------------------------------------------------
(* What the code's comments and tests say and the code does not do.        *)

Quiet == \A t \in Tasks : task[t].pc \in {"idle", "done"}

(* durable.rs:334 "in-flight fills will fail CAS": a fill that was in      *)
(* flight when a purge ended the entry's life writes no index entry.       *)
PurgeStopsInFlightFills ==
    \A t \in Tasks :
        task[t].op = "fill" /\ task[t].won # None
            => task[t].won = task[t].epoch

(* The same for the fills that carry a version, the ones the purge's       *)
(* version bump is meant for (durable.rs:325).                             *)
PurgeStopsVersionedFills ==
    \A t \in Tasks :
        /\ task[t].op = "fill"
        /\ task[t].seen # None
        /\ task[t].won # None
        => task[t].won = task[t].epoch

(* tests/storage.rs:296 "Verify key is still purged (LookupResult::Miss)": *)
(* once all calls have returned, a key has a manifest with a body or it    *)
(* has no manifest; a manifest without a body makes every lookup an error. *)
QuietKeyIsHitOrMiss ==
    Quiet => \A k \in Keys : index[k] # None => blob[k] # None
=============================================================================
