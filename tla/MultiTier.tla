------------------------------ MODULE MultiTier ------------------------------
(***************************************************************************)
(* The tiered cache (MultiTier and FanoutMiss of                           *)
(* src/src/storage/multi_tier.rs) over MemoryStore tiers                   *)
(* (src/src/storage/memory.rs) and a DurableTier as L3.                    *)
(*                                                                         *)
(* Tiers 0, 1 and 2 are L0, L1 and L2; tier 3 is L3.  A call of MultiTier  *)
(* visits the tiers one after another, and a visit to one tier is a step.  *)
(* For a MemoryStore that is what its mutex makes it; the interleavings    *)
(* inside a call on L3 are those of DurableTier, and its call is one step  *)
(* here.  Calls on different keys share no state: there is one key.        *)
(*                                                                         *)
(* A client (Tasks) gets the key, reads the hit, finishes it unread or     *)
(* drops it, and may then store a new response, or it makes one of the     *)
(* other calls.  The tasks that promote a dropped hit run on after the     *)
(* call.  What a promotion leaves out of a body is StreamPromotion's: here *)
(* a copy is the body it was made of.                                      *)
(***************************************************************************)
EXTENDS Naturals

CONSTANTS
    Tasks,     \* concurrent clients; each response is named by its task
    None,      \* Rust's None
    Present,   \* the tiers above L3 that are configured
    Promotes,  \* policy: <<from, to>> with promotion on stream
    MaxLen,    \* policy: l0_max, l1_max, l2_max
    Size,      \* length of the body of each task's response
    Declared,  \* do responses declare their content length?
    Calls,     \* the calls the clients make
    Ttls,      \* CacheMeta.ttl of responses
    Dated,     \* what responses' metadata says of time: see NewMeta
    Expiries,  \* new_expiry of touch
    MaxTime,   \* bound on the clock
    Faulty     \* may a tier answer an error?

L3 == 3
Caches == 0 .. 2
Tiers == 0 .. L3

ASSUME ConstantsAssumption ==
    /\ None \notin Nat
    /\ Present \subseteq Caches
    /\ Promotes \subseteq Tiers \X Caches
    /\ MaxLen \in [Caches -> Nat]
    /\ Size \in [Tasks -> Nat]
    /\ Calls \subseteq {"get", "fill", "purge", "update", "touch"}
    /\ Ttls \subseteq Nat
    /\ Expiries \subseteq Nat
    /\ Dated \subseteq {"expiry", "creation", "nothing"}
    /\ MaxTime \in Nat
    /\ {Declared, Faulty} \subseteq BOOLEAN

(* CacheMeta, without the headers.                                         *)
Meta == [content_length : Nat \cup {None},
         ttl            : Nat,
         created_at     : Nat \cup {None},
         expires_at     : Nat \cup {None},
         version        : Nat \cup {None}]

(* What a MemoryStore holds, and what a hit carries.  A body is cut when   *)
(* the fill that stored it left a chunk of the response out.               *)
Entry == [meta : Meta, body : Tasks, cut : BOOLEAN]

(* Manifest and blob of L3.                                                *)
Durable == [meta : Meta, body : Tasks, cut : BOOLEAN, version : Nat,
            expires_at : Nat]

ASSUME NoneAssumption == None \notin Entry \cup Durable

VARIABLES
    mem,    \* L0, L1, L2: tier -> Entry or None
    durable,\* L3: Durable or None
    now,    \* the clock
    task,   \* local state of every call
    spared, \* history: of each running purge, the bodies that a call or a
            \* task held while it ran
    gone    \* history: the calls whose bodies a purge has done away with

vars == <<mem, durable, now, task, spared, gone>>

Places == {"idle", "lookup", "hit", "promoting", "served", "writing",
           "finishing", "purging", "updating", "touching", "done"}

(* What a lookup reports; whether a purge has found anything.              *)
Results == {"none", "fresh", "stale", "expired_fresh", "any"}

(* entry: the hit, or the response being stored; open: tiers whose miss    *)
(* handler the call holds or, when it is done, one of its tasks; missed:   *)
(* tiers that its fill left without a chunk; tier: the one it visits next. *)
CallState == [pc     : Places,
              tier   : Tiers,
              entry  : Entry \cup {None},
              open   : SUBSET Tiers,
              missed : SUBSET Tiers,
              res    : Results]

(* A call that holds nothing, before it begins or when it is over.         *)
CallAt(place) == [pc |-> place, tier |-> 0, entry |-> None, open |-> {},
                  missed |-> {}, res |-> "none"]

TypeOK ==
    /\ mem \in [Caches -> Entry \cup {None}]
    /\ durable \in Durable \cup {None}
    /\ now \in Nat
    /\ task \in [Tasks -> CallState]
    /\ spared \in [Tasks -> SUBSET Tasks]
    /\ gone \subseteq Tasks

Init ==
    /\ mem = [i \in Caches |-> None]
    /\ durable = None
    /\ now = 0
    /\ task = [t \in Tasks |-> CallAt("idle")]
    /\ spared = [t \in Tasks |-> {}]
    /\ gone = {}
-----------------------------------------------------------------------------
(* The size gate of tier i; a body of unknown length passes.               *)
Admits(i, len) == len = None \/ len <= MaxLen[i]

(* Metadata by task t: CacheMeta::new's says when it expires; a caller's   *)
(* own may say only when it was created, or, like CacheMeta::default's,    *)
(* nothing of time.                                                        *)
NewMeta(t, ttl, dated, version) ==
    [content_length |-> IF Declared THEN Size[t] ELSE None,
     ttl |-> ttl,
     created_at |-> IF dated = "nothing" THEN None ELSE now,
     expires_at |-> IF dated = "expiry" THEN now + ttl ELSE None,
     version |-> version]

(* What a lookup on tier i finds; an absent tier finds nothing.  L3 fills  *)
(* in the length and the version.                                          *)
Found(i) ==
    IF i # L3 THEN mem[i]
    ELSE IF durable = None THEN None
    ELSE [meta |-> [durable.meta EXCEPT
                      !.content_length =
                         IF @ = None THEN Size[durable.body] ELSE @,
                      !.version = durable.version],
          body |-> durable.body, cut |-> durable.cut]

(* ~is_fresh                                                               *)
HasExpired(meta) ==
    IF meta.expires_at # None THEN now >= meta.expires_at
    ELSE meta.created_at # None /\ now >= meta.created_at + meta.ttl

Expired(i) == IF i = L3 THEN now >= durable.expires_at
              ELSE HasExpired(mem[i].meta)

(* The call, or a task of it, holds the body b and may yet store it, or    *)
(* gives it to its client.                                                 *)
Holding(c) == \/ c.pc \in {"hit", "promoting", "writing", "finishing"}
              \/ c.pc = "done" /\ c.open # {}

Holds(c, b) == Holding(c) /\ c.entry # None /\ c.entry.body = b

(* The running purges take note that b is held.                            *)
Spare(b) ==
    spared' = [p \in Tasks |-> IF task[p].pc = "purging"
                               THEN spared[p] \cup {b} ELSE spared[p]]

Begins(t, call) == call \in Calls /\ task[t].pc = "idle"

(* A new response, or its metadata, may follow a hit: it then carries the  *)
(* hit's version.                                                          *)
Follows(t, call) == call \in Calls /\ task[t].pc \in {"idle", "served"}

Version(t) == IF task[t].pc = "idle" THEN None ELSE task[t].entry.meta.version

(* The call goes on with the next tier, or it is over.                     *)
Advance(t, res) ==
    task' = [task EXCEPT ![t] =
              IF @.tier = L3 THEN CallAt("done")
              ELSE [@ EXCEPT !.tier = task[t].tier + 1, !.res = res]]

End(t) == task' = [task EXCEPT ![t] = CallAt("done")]
-----------------------------------------------------------------------------
(* MultiTier::lookup, and the hit.                                         *)

StartGet(t) ==
    /\ Begins(t, "get")
    /\ task' = [task EXCEPT ![t].pc = "lookup"]
    /\ UNCHANGED <<mem, durable, now, spared, gone>>

LookupMiss(t) ==
    /\ task[t].pc = "lookup"
    /\ Found(task[t].tier) = None
    /\ Advance(t, "none")
    /\ UNCHANGED <<mem, durable, now, spared, gone>>

(* A hit is wrapped for the tiers above it that the policy promotes to and *)
(* whose gate lets the length pass.  Only L0 reports an expired entry as   *)
(* Stale; "expired_fresh" is an expired entry reported as Fresh.           *)
LookupHit(t) ==
    LET i == task[t].tier
        e == Found(i)
    IN
    /\ task[t].pc = "lookup"
    /\ e # None
    /\ task' = [task EXCEPT ![t] =
                 [@ EXCEPT !.pc = "hit", !.entry = e,
                           !.open = {j \in Present :
                                       /\ j < i
                                       /\ <<i, j>> \in Promotes
                                       /\ Admits(j, e.meta.content_length)},
                           !.res = IF ~Expired(i) THEN "fresh"
                                   ELSE IF i = 0 THEN "stale"
                                   ELSE "expired_fresh"]]
    /\ Spare(e.body)
    /\ UNCHANGED <<mem, durable, now, gone>>

(* An error of a tier's lookup, or of opening L0's miss handler.           *)
LookupFails(t) ==
    /\ Faulty
    /\ task[t].pc = "lookup"
    /\ End(t)
    /\ UNCHANGED <<mem, durable, now, spared, gone>>

(* The client has read the hit to its end, or nothing of it: a task is     *)
(* spawned at the first chunk, so an unread hit goes to L0 alone.          *)
FinishHit(t) ==
    /\ task[t].pc = "hit"
    /\ \E open \in {task[t].open, task[t].open \cap {0}} :
         task' = [task EXCEPT ![t] =
                   [@ EXCEPT !.pc = "promoting", !.open = open]]
    /\ UNCHANGED <<mem, durable, now, spared, gone>>

(* A miss handler of tier j commits the hit; its error is ignored.         *)
Commit(t, j) == \/ mem' = [mem EXCEPT ![j] = task[t].entry]
                \/ Faulty /\ UNCHANGED mem

(* finish waits for L1's task, then for L2's, then commits to L0.          *)
Promote(t, j) ==
    /\ task[t].pc = "promoting"
    /\ j \in task[t].open
    /\ j = 2 => 1 \notin task[t].open
    /\ j = 0 => task[t].open = {0}
    /\ Commit(t, j)
    /\ task' = [task EXCEPT ![t].open = @ \ {j}]
    /\ UNCHANGED <<durable, now, spared, gone>>

Served(t) ==
    /\ task[t].pc = "promoting"
    /\ task[t].open = {}
    /\ task' = [task EXCEPT ![t] =
                 [@ EXCEPT !.pc = "served", !.tier = 0, !.res = "none"]]
    /\ UNCHANGED <<mem, durable, now, spared, gone>>

(* The call is over, and what is left of it are these tasks.               *)
Leave(t, tasks) ==
    task' = [task EXCEPT ![t] =
              IF tasks = {} THEN CallAt("done")
              ELSE [@ EXCEPT !.pc = "done", !.open = tasks]]

(* The client goes away, or a read or finish fails: the hit is dropped,    *)
(* and with it the handler of L0, but not the tasks it has spawned.        *)
DropHit(t) ==
    /\ task[t].pc \in {"hit", "promoting"}
    /\ \E tasks \in SUBSET (task[t].open \ {0}) : Leave(t, tasks)
    /\ UNCHANGED <<mem, durable, now, spared, gone>>

(* Nobody waits for such a task.                                           *)
Straggle(t, j) ==
    /\ task[t].pc = "done"
    /\ j \in task[t].open
    /\ Commit(t, j)
    /\ Leave(t, task[t].open \ {j})
    /\ UNCHANGED <<durable, now, spared, gone>>
-----------------------------------------------------------------------------
(* MultiTier::get_miss_handler and FanoutMiss.                             *)

StartFill(t) ==
    /\ Follows(t, "fill")
    /\ \E ttl \in Ttls, dated \in Dated :
         LET meta == NewMeta(t, ttl, dated, Version(t))
         IN task' = [task EXCEPT ![t] =
                      [@ EXCEPT !.pc = "writing",
                                !.entry = [meta |-> meta, body |-> t,
                                           cut |-> FALSE],
                                !.open = {i \in Present :
                                            Admits(i, meta.content_length)}
                                         \cup {L3}]]
    /\ Spare(t)
    /\ UNCHANGED <<mem, durable, now, gone>>

(* Mutant of WriteBody: a tier keeps a body that outgrew it.               *)
WriteBodyKeepsAll(t) ==
    /\ task[t].pc = "writing"
    /\ task' = [task EXCEPT ![t].pc = "finishing"]
    /\ UNCHANGED <<mem, durable, now, spared, gone>>

(* The whole body, chunk by chunk: a tier is dropped when the total has    *)
(* passed its maximum.                                                     *)
WriteBody(t) ==
    /\ task[t].pc = "writing"
    /\ task' = [task EXCEPT ![t] =
                 [@ EXCEPT !.pc = "finishing",
                           !.open = {i \in task[t].open :
                                       i = L3 \/ Size[t] <= MaxLen[i]}]]
    /\ UNCHANGED <<mem, durable, now, spared, gone>>

(* Mutant of WriteFails: the tiers below get the chunk all the same.       *)
WriteFailsInOneTier(t) ==
    /\ Faulty
    /\ task[t].pc = "writing"
    /\ \E i \in task[t].open :
         task' = [task EXCEPT ![t].missed = @ \cup {i}]
    /\ UNCHANGED <<mem, durable, now, spared, gone>>

(* A tier fails to write a chunk, and the tiers below it do not get it.    *)
(* The caller is told, but the handlers stay open: it may write on.        *)
WriteFails(t) ==
    /\ Faulty
    /\ task[t].pc = "writing"
    /\ \E i \in task[t].open :
         task' = [task EXCEPT ![t].missed =
                   @ \cup {j \in task[t].open : j >= i}]
    /\ UNCHANGED <<mem, durable, now, spared, gone>>

(* The caller finishes before the body is complete.                        *)
FinishEarly(t) ==
    /\ task[t].pc = "writing"
    /\ task' = [task EXCEPT ![t] =
                 [@ EXCEPT !.pc = "finishing", !.missed = task[t].open]]
    /\ UNCHANGED <<mem, durable, now, spared, gone>>

(* A tier does not open, or the caller drops the handler unfinished.       *)
DropFill(t) ==
    /\ task[t].pc \in {"writing", "finishing"}
    /\ End(t)
    /\ UNCHANGED <<mem, durable, now, spared, gone>>

(* Mutant of FinishDurable: a missing version is not replaced by 0.        *)
FinishDurableNoVersion(t) ==
    LET e == task[t].entry
        v == e.meta.version
        cut == L3 \in task[t].missed
        m == [meta |-> e.meta, body |-> t, cut |-> cut, version |-> v,
              expires_at |-> now + e.meta.ttl]
    IN durable' = IF durable = None THEN m
                  ELSE [durable EXCEPT !.body = t, !.cut = cut]

(* The body goes to L3; its manifest, only if no other call was faster.    *)
FinishDurable(t) ==
    LET e == task[t].entry
        v == e.meta.version
        cut == L3 \in task[t].missed
        m == [meta |-> e.meta, body |-> t, cut |-> cut,
              version |-> IF v = None THEN 0 ELSE v + 1,
              expires_at |-> now + e.meta.ttl]
    IN durable' = IF durable = None
                  THEN IF v = None THEN m ELSE None
                  ELSE IF durable.version = v THEN m
                  ELSE [durable EXCEPT !.body = t, !.cut = cut]

Finish(t) ==
    LET i == task[t].tier IN
    /\ task[t].pc = "finishing"
    /\ i \in task[t].open
    /\ IF i = L3
       THEN FinishDurable(t) /\ UNCHANGED mem
       ELSE /\ mem' = [mem EXCEPT ![i] = [task[t].entry EXCEPT
                                            !.cut = i \in task[t].missed]]
            /\ UNCHANGED durable
    /\ Advance(t, task[t].res)
    /\ UNCHANGED <<now, spared, gone>>

FinishSkips(t) ==
    /\ task[t].pc = "finishing"
    /\ task[t].tier \notin task[t].open
    /\ Advance(t, "none")
    /\ UNCHANGED <<mem, durable, now, spared, gone>>

(* The other tiers are finished all the same.                              *)
FinishFails(t) ==
    /\ Faulty
    /\ task[t].pc = "finishing"
    /\ task[t].tier \in task[t].open
    /\ Advance(t, "none")
    /\ UNCHANGED <<mem, durable, now, spared, gone>>
-----------------------------------------------------------------------------
(* MultiTier::purge, update_meta and touch: top down, each tier whatever   *)
(* the ones before it answered; an error counts as false.                  *)

StartPurge(t) ==
    /\ Begins(t, "purge")
    /\ task' = [task EXCEPT ![t].pc = "purging"]
    /\ spared' = [spared EXCEPT ![t] =
                    {b \in Tasks : \E u \in Tasks : Holds(task[u], b)}]
    /\ UNCHANGED <<mem, durable, now, gone>>

Remove(i) ==
    /\ mem' = IF i = L3 THEN mem ELSE [mem EXCEPT ![i] = None]
    /\ durable' = IF i = L3 THEN None ELSE durable

(* The body of a fill that was over when the purge ends, and that nothing  *)
(* held while it ran, is gone.                                             *)
Purged(t) ==
    IF task[t].tier # L3 THEN UNCHANGED <<spared, gone>>
    ELSE /\ spared' = [spared EXCEPT ![t] = {}]
         /\ gone' = gone \cup ({u \in Tasks : task[u].pc = "done"}
                                \ spared[t])

(* Mutant of Purge: short-circuits, any || purge() for any |= purge().     *)
PurgeShortCircuits(t) ==
    LET i == task[t].tier IN
    /\ task[t].pc = "purging"
    /\ IF task[t].res = "any" THEN UNCHANGED <<mem, durable>> ELSE Remove(i)
    /\ Advance(t, IF Found(i) # None THEN "any" ELSE task[t].res)
    /\ Purged(t)
    /\ UNCHANGED now

Purge(t) ==
    LET i == task[t].tier IN
    /\ task[t].pc = "purging"
    /\ Remove(i)
    /\ Advance(t, IF Found(i) # None THEN "any" ELSE task[t].res)
    /\ Purged(t)
    /\ UNCHANGED now

PurgeFails(t) ==
    /\ Faulty
    /\ task[t].pc = "purging"
    /\ Advance(t, task[t].res)
    /\ spared' = [spared EXCEPT ![t] = IF task[t].tier = L3 THEN {}
                                       ELSE Tasks]
    /\ UNCHANGED <<mem, durable, now, gone>>

StartUpdate(t) ==
    /\ Follows(t, "update")
    /\ \E ttl \in Ttls, dated \in Dated :
         task' = [task EXCEPT ![t] =
                   [@ EXCEPT !.pc = "updating",
                             !.entry = [meta |-> NewMeta(t, ttl, dated,
                                                         Version(t)),
                                        body |-> t, cut |-> FALSE]]]
    /\ UNCHANGED <<mem, durable, now, spared, gone>>

Update(t) ==
    LET i == task[t].tier
        meta == task[t].entry.meta
    IN
    /\ task[t].pc = "updating"
    /\ IF Found(i) = None
       THEN UNCHANGED <<mem, durable>>
       ELSE /\ mem' = IF i = L3 THEN mem ELSE [mem EXCEPT ![i].meta = meta]
            /\ durable' = IF i # L3 THEN durable
                          ELSE [durable EXCEPT !.meta = meta,
                                               !.version = @ + 1,
                                               !.expires_at = now + meta.ttl]
    /\ Advance(t, "none")
    /\ UNCHANGED <<now, spared, gone>>

(* The expiry a touch sets is in the entry it carries.                     *)
StartTouch(t) ==
    /\ Begins(t, "touch")
    /\ \E new_expiry \in Expiries :
         task' = [task EXCEPT ![t] =
                   [@ EXCEPT !.pc = "touching",
                             !.entry = [meta |-> [NewMeta(t, 0, "expiry", None)
                                                    EXCEPT !.expires_at =
                                                             new_expiry],
                                        body |-> t, cut |-> FALSE]]]
    /\ UNCHANGED <<mem, durable, now, spared, gone>>

Touch(t) ==
    LET i == task[t].tier
        new_expiry == task[t].entry.meta.expires_at
    IN
    /\ task[t].pc = "touching"
    /\ mem' = IF i = L3 \/ Found(i) = None THEN mem
              ELSE [mem EXCEPT ![i].meta.expires_at = new_expiry]
    /\ durable' = IF i # L3 \/ durable = None THEN durable
                  ELSE [durable EXCEPT !.expires_at = new_expiry]
    /\ Advance(t, "none")
    /\ UNCHANGED <<now, spared, gone>>

VisitFails(t) ==
    /\ Faulty
    /\ task[t].pc \in {"updating", "touching"}
    /\ Advance(t, "none")
    /\ UNCHANGED <<mem, durable, now, spared, gone>>

Tick ==
    /\ now < MaxTime
    /\ now' = now + 1
    /\ UNCHANGED <<mem, durable, task, spared, gone>>
-----------------------------------------------------------------------------
Step(t) ==
    \/ StartGet(t) \/ LookupMiss(t) \/ LookupHit(t) \/ LookupFails(t)
    \/ FinishHit(t) \/ Served(t) \/ DropHit(t)
    \/ (\E j \in Caches : Promote(t, j) \/ Straggle(t, j))
    \/ StartFill(t) \/ WriteBody(t) \/ WriteFails(t) \/ FinishEarly(t)
    \/ DropFill(t)
    \/ Finish(t) \/ FinishSkips(t) \/ FinishFails(t)
    \/ StartPurge(t) \/ Purge(t) \/ PurgeFails(t)
    \/ StartUpdate(t) \/ Update(t)
    \/ StartTouch(t) \/ Touch(t) \/ VisitFails(t)

Next == Tick \/ \E t \in Tasks : Step(t)

Spec == Init /\ [][Next]_vars
-----------------------------------------------------------------------------
(* Properties.                                                             *)

(* A body is gone for good when its fill was over before a purge ended     *)
(* that every tier answered, and no get, no fill and no task left behind   *)
(* by a dropped hit held it while the purge ran: no tier holds it again,   *)
(* and no later get is served it, in spite of whatever fills, hits and     *)
(* promotions of other bodies, updates and touches the purge overlapped.   *)
PurgedIsGone ==
    /\ \A i \in Caches : mem[i] # None => mem[i].body \notin gone
    /\ durable # None => durable.body \notin gone
    /\ \A t, b \in Tasks : Holds(task[t], b) => b \notin gone

(* A body comes to a tier it is too large for only as the copy of a hit    *)
(* whose metadata does not tell its length: a fill stores none, declared   *)
(* or not, and a hit in L3, where the length is filled in, none either     *)
(* unless its metadata is another body's.  A body cut short is smaller     *)
(* than its size here.                                                     *)
TooLarge(i) == /\ mem[i] # None /\ ~mem[i].cut
               /\ Size[mem[i].body] > MaxLen[i]

Arrives(i) ==
    TooLarge(i)' /\ ~(TooLarge(i) /\ mem[i].body = mem'[i].body)

ByUnmeasuredHit(i) ==
    \E t \in Tasks :
        /\ task[t].pc \in {"promoting", "done"}
        /\ i \in task[t].open
        /\ task[t].entry = mem'[i]
        /\ mem'[i].meta.content_length # Size[mem'[i].body]
        /\ task[t].tier = L3 => mem'[i].meta.content_length # None

GateHolds == [][\A i \in Caches : Arrives(i) => ByUnmeasuredHit(i)]_vars

(* write_body goes from the top tier to L3 and stops at the first that     *)
(* fails.  So a chunk that a fill did not bring to a tier above is missing *)
(* from its body in L3 too, however the caller went on, and whichever tier *)
(* was promoted to which.                                                  *)
CutAboveIsCutBelow ==
    \A i \in Caches :
        /\ mem[i] # None
        /\ mem[i].cut
        /\ durable # None
        /\ durable.body = mem[i].body
        => durable.cut
-----------------------------------------------------------------------------
(* What the code's comments and tests say and the code does not do.        *)

(* tests/storage.rs:70 "expired entries should not be fresh": a lookup     *)
(* reports Fresh only for an entry that has not expired.                   *)
ExpiredIsNotFresh == \A t \in Tasks : task[t].res # "expired_fresh"
=============================================================================
