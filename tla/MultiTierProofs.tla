-------------------------- MODULE MultiTierProofs --------------------------
(***************************************************************************)
(* Proofs about MultiTier, for any clients, tiers, policies, limits,       *)
(* lengths and faults.                                                     *)
(***************************************************************************)
EXTENDS MultiTier, TLAPS

IsHit(c)  == \/ c.pc \in {"hit", "promoting"}
             \/ c.pc = "done" /\ c.open # {}
IsFill(c) == c.pc \in {"writing", "finishing"}

(* A hit is wrapped for tiers that let its length pass; a hit in L3 has a  *)
(* length.                                                                 *)
GoodHit(c) ==
    /\ c.entry # None
    /\ \A j \in c.open : j \in Caches /\ Admits(j, c.entry.meta.content_length)
    /\ c.tier = L3 => c.entry.meta.content_length # None

(* A fill stores the response of its own client.  It reaches L3 always,    *)
(* and what it leaves out above it leaves out there too; when it comes to  *)
(* be finished, it is in no tier that is too small for all of it.          *)
GoodFill(c, t) ==
    /\ c.entry # None /\ c.entry.body = t /\ c.entry.cut = FALSE
    /\ L3 \in c.open
    /\ c.missed # {} => L3 \in c.missed
    /\ c.pc = "finishing" =>
         \A i \in Caches : \/ i \notin c.open
                           \/ i \in c.missed
                           \/ Size[t] <= MaxLen[i]

(* What holds of a call by itself.                                         *)
GoodCall(c, t) ==
    /\ c.pc \in {"idle", "served"} => c.tier = 0
    /\ c.pc \in {"served", "updating", "touching"} => c.entry # None
    /\ c.pc = "touching" => c.entry.meta.expires_at # None
    /\ IsHit(c) => GoodHit(c)
    /\ IsFill(c) => GoodFill(c, t)
    /\ c.missed # {} => IsFill(c)

Typed == TypeOK /\ \A t \in Tasks : GoodCall(task[t], t)
-----------------------------------------------------------------------------
(* What a step of call t does to bodies.                                   *)

SameBody(e, f) == e # None /\ f.body = e.body /\ f.cut = e.cut

(* A call that holds a body held it before, has found it in a tier or      *)
(* begins to fill it; the running purges know.                             *)
FindsIt(t) == /\ task[t].pc = "lookup"
              /\ \E i \in Tiers : /\ Found(i) # None
                                 /\ task'[t].entry = Found(i)
                                 /\ Spare(Found(i).body)

FillsIt(t) == /\ task[t].pc \in {"idle", "served"}
              /\ task'[t].pc = "writing"
              /\ task'[t].entry.body = t /\ task'[t].entry.cut = FALSE
              /\ Spare(t)

HeldFlow(t) ==
    Holding(task'[t]) =>
        \/ Holding(task[t]) /\ task'[t].entry = task[t].entry
        \/ FindsIt(t)
        \/ FillsIt(t)

(* A body in a tier above L3 was there, or comes from the hit or the fill. *)
MemFlow(t) ==
    \A i \in Caches :
        mem'[i] # None =>
            \/ SameBody(mem[i], mem'[i])
            \/ /\ IsHit(task[t]) /\ task[t].pc \in {"promoting", "done"}
               /\ i \in task[t].open
               /\ mem'[i] = task[t].entry
            \/ /\ task[t].pc = "finishing"
               /\ i \in task[t].open
               /\ mem'[i].body = t
               /\ mem'[i].cut = (i \in task[t].missed)

(* A body in L3 was there, or is that of a fill, which is over with it.    *)
DurableFlow(t) ==
    durable' # None =>
        \/ SameBody(durable, durable')
        \/ /\ task[t].pc = "finishing"
           /\ task'[t].pc = "done"
           /\ durable'.body = t
           /\ durable'.cut = (L3 \in task[t].missed)

(* A call that is over stays so, and a fill being finished has missed what *)
(* it has missed.                                                          *)
PlaceFlow(t) ==
    /\ task[t].pc = "done" => task'[t].pc = "done"
    /\ task[t].pc = "finishing" =>
         \/ task'[t].pc = "done"
         \/ task'[t].pc = "finishing" /\ task'[t].missed = task[t].missed

(* What running purges know they do not forget; only a purge that ends     *)
(* makes bodies gone.                                                      *)
EndsPurge(t) ==
    /\ task[t].pc = "purging" /\ task[t].tier = L3
    /\ gone' = gone \cup ({u \in Tasks : task[u].pc = "done"} \ spared[t])
    /\ mem' = mem /\ durable' = None

PurgeFlow(t) ==
    /\ \A p \in Tasks : p # t /\ task[p].pc = "purging"
                          => spared[p] \subseteq spared'[p]
    /\ task'[t].pc = "purging" =>
         \/ /\ task'[t].tier = 0
            /\ spared'[t] = {b \in Tasks : \E u \in Tasks : Holds(task[u], b)}
         \/ spared'[t] = Tasks
         \/ /\ task[t].pc = "purging" /\ spared'[t] = spared[t]
            /\ task'[t].tier = task[t].tier + 1
            /\ mem'[task[t].tier] = None
    /\ gone' = gone \/ EndsPurge(t)

Flow(t) == /\ \A u \in Tasks : u # t => task'[u] = task[u]
           /\ HeldFlow(t) /\ MemFlow(t) /\ DurableFlow(t)
           /\ PlaceFlow(t) /\ PurgeFlow(t)
-----------------------------------------------------------------------------
(* Types.                                                                  *)

(* What a tier answers is an entry with the body that is stored.           *)
LEMMA FoundIsEntry ==
    ASSUME TypeOK, NEW i \in Tiers, Found(i) # None
    PROVE  /\ Found(i) \in Entry
           /\ i # L3 => i \in Caches /\ mem[i] # None /\ Found(i) = mem[i]
           /\ i = L3 => /\ durable # None
                         /\ Found(i).body = durable.body
                         /\ Found(i).cut = durable.cut
                         /\ Found(i).meta.content_length # None
<1>1. CASE i # L3
  <2>1. i \in Caches
    BY <1>1 DEF Tiers, Caches, L3
  <2>2. Found(i) = mem[i]
    BY <1>1 DEF Found
  <2>3. QED
    BY <1>1, <2>1, <2>2 DEF TypeOK
<1>2. CASE i = L3
  <2> DEFINE n == IF durable.meta.content_length = None
                  THEN Size[durable.body] ELSE durable.meta.content_length
  <2>1. durable # None /\ durable \in Durable
    BY <1>2 DEF Found, TypeOK
  <2>2. /\ durable.meta \in Meta /\ durable.body \in Tasks
        /\ durable.version \in Nat /\ durable.cut \in BOOLEAN
    BY <2>1 DEF Durable
  <2>3. n \in Nat \cup {None} /\ n # None
    BY <2>2, ConstantsAssumption DEF Meta
  <2>4. \A x, v \in Nat \cup {None} :
          [durable.meta EXCEPT !.content_length = x, !.version = v] \in Meta
    BY <2>2 DEF Meta
  <2>5. [durable.meta EXCEPT !.content_length = n, !.version = durable.version]
          \in Meta
    BY <2>2, <2>3, <2>4
  <2>8. [durable.meta EXCEPT !.content_length = n, !.version = durable.version]
          .content_length = n
    BY <2>2 DEF Meta
  <2>6. Found(i) = [meta |-> [durable.meta EXCEPT !.content_length = n,
                                                  !.version = durable.version],
                    body |-> durable.body, cut |-> durable.cut]
    BY <1>2, <2>1 DEF Found
  <2> DEFINE m == [durable.meta EXCEPT !.content_length = n,
                                       !.version = durable.version]
  <2>7. /\ m \in Meta /\ m.content_length # None
        /\ Found(i) = [meta |-> m, body |-> durable.body, cut |-> durable.cut]
    BY <2>3, <2>5, <2>6, <2>8
  <2> HIDE DEF n, m
  <2>9. QED
    BY <1>2, <2>1, <2>2, <2>7 DEF Entry
<1>3. QED
  BY <1>1, <1>2

(* Metadata made by a call.                                                *)
LEMMA NewMetaIsMeta ==
    ASSUME TypeOK, NEW t \in Tasks, NEW ttl \in Nat,
           NEW dated, NEW version \in Nat \cup {None}
    PROVE  NewMeta(t, ttl, dated, version) \in Meta
<1>1. /\ now \in Nat /\ now + ttl \in Nat
      /\ (IF Declared THEN Size[t] ELSE None) \in Nat \cup {None}
  BY ConstantsAssumption DEF TypeOK
<1>2. QED
  BY <1>1 DEF NewMeta, Meta

LEMMA VersionType ==
    ASSUME Typed, NEW t \in Tasks, task[t].pc \in {"idle", "served"}
    PROVE  Version(t) \in Nat \cup {None}
<1>1. task[t] \in CallState /\ GoodCall(task[t], t)
  BY DEF Typed, TypeOK
<1>2. CASE task[t].pc = "idle"
  BY <1>2 DEF Version
<1>3. CASE task[t].pc = "served"
  <2>1. task[t].entry \in Entry
    BY <1>1, <1>3 DEF GoodCall, CallState
  <2>2. task[t].entry.meta.version \in Nat \cup {None}
    BY <2>1 DEF Entry, Meta
  <2>3. QED
    BY <1>3, <2>2 DEF Version
<1>4. QED
  BY <1>2, <1>3

(* Assigning fields of a call, as the actions do.                          *)
LEMMA CallUpdates ==
    ASSUME NEW c \in CallState
    PROVE  /\ \A p \in Places : [c EXCEPT !.pc = p] \in CallState
           /\ \A o \in SUBSET Tiers : [c EXCEPT !.open = o] \in CallState
           /\ \A s \in SUBSET Tiers : [c EXCEPT !.missed = s] \in CallState
           /\ \A p \in Places, o \in SUBSET Tiers :
                [c EXCEPT !.pc = p, !.open = o] \in CallState
           /\ \A p \in Places, s \in SUBSET Tiers :
                [c EXCEPT !.pc = p, !.missed = s] \in CallState
           /\ \A p \in Places, e \in Entry :
                [c EXCEPT !.pc = p, !.entry = e] \in CallState
           /\ \A p \in Places, i \in Tiers, r \in Results :
                [c EXCEPT !.pc = p, !.tier = i, !.res = r] \in CallState
           /\ \A i \in Tiers, r \in Results :
                [c EXCEPT !.tier = i, !.res = r] \in CallState
           /\ \A p \in Places, e \in Entry, o \in SUBSET Tiers :
                [c EXCEPT !.pc = p, !.entry = e, !.open = o] \in CallState
           /\ \A p \in Places, e \in Entry, o \in SUBSET Tiers, r \in Results :
                [c EXCEPT !.pc = p, !.entry = e, !.open = o, !.res = r]
                  \in CallState
<1> USE DEF CallState
<1>1. \A p \in Places : [c EXCEPT !.pc = p] \in CallState
  OBVIOUS
<1>2. \A o \in SUBSET Tiers : [c EXCEPT !.open = o] \in CallState
  OBVIOUS
<1>3. \A s \in SUBSET Tiers : [c EXCEPT !.missed = s] \in CallState
  OBVIOUS
<1>4. \A p \in Places, o \in SUBSET Tiers :
        [c EXCEPT !.pc = p, !.open = o] \in CallState
  OBVIOUS
<1>5. \A p \in Places, s \in SUBSET Tiers :
        [c EXCEPT !.pc = p, !.missed = s] \in CallState
  OBVIOUS
<1>6. \A p \in Places, e \in Entry :
        [c EXCEPT !.pc = p, !.entry = e] \in CallState
  OBVIOUS
<1>7. \A p \in Places, i \in Tiers, r \in Results :
        [c EXCEPT !.pc = p, !.tier = i, !.res = r] \in CallState
  OBVIOUS
<1>8. \A i \in Tiers, r \in Results :
        [c EXCEPT !.tier = i, !.res = r] \in CallState
  OBVIOUS
<1>9. \A p \in Places, e \in Entry, o \in SUBSET Tiers :
        [c EXCEPT !.pc = p, !.entry = e, !.open = o] \in CallState
  OBVIOUS
<1>10. \A p \in Places, e \in Entry, o \in SUBSET Tiers, r \in Results :
         [c EXCEPT !.pc = p, !.entry = e, !.open = o, !.res = r] \in CallState
  OBVIOUS
<1>11. QED
  BY <1>1, <1>2, <1>3, <1>4, <1>5, <1>6, <1>7, <1>8, <1>9, <1>10

(* A call that holds nothing is a good one.                                *)
LEMMA CallAtIsGood ==
    ASSUME NEW p \in {"idle", "done"}, NEW t
    PROVE  /\ CallAt(p) \in CallState
           /\ GoodCall(CallAt(p), t)
           /\ ~Holding(CallAt(p))
           /\ CallAt(p).pc = p
<1> DEFINE c == CallAt(p)
<1>1. /\ c.pc = p /\ c.tier = 0 /\ c.entry = None /\ c.open = {}
      /\ c.missed = {}
  BY DEF CallAt
<1>2. p \in Places /\ 0 \in Tiers /\ "none" \in Results
  BY DEF Places, Tiers, L3, Results
<1>3. c \in CallState
  BY <1>2 DEF CallAt, CallState
<1> HIDE DEF c
<1>4. GoodCall(c, t) /\ ~Holding(c)
  BY <1>1 DEF GoodCall, IsHit, IsFill, Holding
<1>5. QED
  BY <1>1, <1>3, <1>4 DEF c
-----------------------------------------------------------------------------
(* Steps of one call, and what they must show to be well typed and to flow *)
(* as above.                                                               *)

LEMMA TypedStep ==
    ASSUME Typed, NEW t \in Tasks, NEW c \in CallState, GoodCall(c, t),
           task' = [task EXCEPT ![t] = c],
           mem' \in [Caches -> Entry \cup {None}],
           durable' \in Durable \cup {None},
           now' \in Nat,
           spared' \in [Tasks -> SUBSET Tasks],
           gone' \subseteq Tasks
    PROVE  /\ Typed'
           /\ task'[t] = c
           /\ \A u \in Tasks : u # t => task'[u] = task[u]
<1>1. \A u \in Tasks : task'[u] = IF u = t THEN c ELSE task[u]
  BY DEF Typed, TypeOK
<1>2. task' \in [Tasks -> CallState]
  BY DEF Typed, TypeOK
<1>3. TypeOK'
  BY <1>2 DEF TypeOK
<1>4. (\A u \in Tasks : GoodCall(task[u], u))'
  BY <1>1 DEF Typed
<1>5. QED
  BY <1>1, <1>3, <1>4 DEF Typed

(* A step that changes the call alone.                                     *)
LEMMA QuietStep ==
    ASSUME Typed, NEW t \in Tasks, NEW c \in CallState, GoodCall(c, t),
           task' = [task EXCEPT ![t] = c],
           Holding(c) => Holding(task[t]) /\ c.entry = task[t].entry,
           task[t].pc \notin {"done", "purging"}, c.pc # "purging",
           task[t].pc = "finishing" =>
             \/ c.pc = "done"
             \/ c.pc = "finishing" /\ c.missed = task[t].missed,
           UNCHANGED <<mem, durable, now, spared, gone>>
    PROVE  Typed' /\ Flow(t)
<1>1. /\ mem' \in [Caches -> Entry \cup {None}]
      /\ durable' \in Durable \cup {None}
      /\ now' \in Nat
      /\ spared' \in [Tasks -> SUBSET Tasks]
      /\ gone' \subseteq Tasks
  BY DEF Typed, TypeOK
<1>2. /\ Typed'
      /\ task'[t] = c
      /\ \A u \in Tasks : u # t => task'[u] = task[u]
  BY <1>1, TypedStep
<1>3. HeldFlow(t) /\ PlaceFlow(t)
  BY <1>2 DEF HeldFlow, PlaceFlow
<1>4. MemFlow(t) /\ DurableFlow(t)
  BY DEF MemFlow, DurableFlow, SameBody
<1>5. PurgeFlow(t)
  BY <1>2 DEF PurgeFlow
<1>6. QED
  BY <1>2, <1>3, <1>4, <1>5 DEF Flow

(* The call goes on with the next tier, or is over.                        *)
LEMMA AdvanceType ==
    ASSUME Typed, NEW t \in Tasks, NEW r \in Results, Advance(t, r),
           task[t].pc \in {"lookup", "finishing", "purging", "updating",
                           "touching"}
    PROVE  \E c \in CallState :
             /\ GoodCall(c, t)
             /\ task' = [task EXCEPT ![t] = c]
             /\ Holding(c) => Holding(task[t]) /\ c.entry = task[t].entry
             /\ \/ task[t].tier = L3 /\ c.pc = "done" /\ ~Holding(c)
                \/ /\ task[t].tier # L3
                   /\ c.pc = task[t].pc /\ c.missed = task[t].missed
                   /\ c.tier = task[t].tier + 1
<1>1. task[t] \in CallState /\ GoodCall(task[t], t)
  BY DEF Typed, TypeOK
<1>2. CASE task[t].tier = L3
  <2>1. task' = [task EXCEPT ![t] = CallAt("done")]
    BY <1>2 DEF Advance, Typed, TypeOK
  <2>2. QED
    BY <1>2, <2>1, CallAtIsGood
<1>3. CASE task[t].tier # L3
  <2> DEFINE c == [task[t] EXCEPT !.tier = task[t].tier + 1, !.res = r]
  <2>1. task[t].tier + 1 \in Tiers
    BY <1>1, <1>3 DEF CallState, Tiers, L3
  <2>2. c \in CallState
    BY <1>1, <2>1, CallUpdates
  <2>3. /\ c.pc = task[t].pc /\ c.entry = task[t].entry
        /\ c.open = task[t].open /\ c.tier = task[t].tier + 1
        /\ c.missed = task[t].missed
    BY <1>1 DEF CallState
  <2>4. task' = [task EXCEPT ![t] = c]
    BY <1>3 DEF Advance, Typed, TypeOK
  <2> HIDE DEF c
  <2>5. GoodCall(c, t)
    BY <1>1, <2>3 DEF GoodCall, GoodFill, IsHit, IsFill
  <2>6. Holding(c) => Holding(task[t])
    BY <2>3 DEF Holding
  <2>7. QED
    BY <1>3, <2>2, <2>3, <2>4, <2>5, <2>6
<1>4. QED
  BY <1>2, <1>3

(* A visit that changes no tier, by a call other than a purge.             *)
LEMMA AdvanceStep ==
    ASSUME Typed, NEW t \in Tasks, NEW r \in Results, Advance(t, r),
           task[t].pc \in {"lookup", "finishing", "updating", "touching"},
           UNCHANGED <<mem, durable, now, spared, gone>>
    PROVE  Typed' /\ Flow(t)
<1>1. PICK c \in CallState :
        /\ GoodCall(c, t)
        /\ task' = [task EXCEPT ![t] = c]
        /\ Holding(c) => Holding(task[t]) /\ c.entry = task[t].entry
        /\ \/ c.pc = "done"
           \/ c.pc = task[t].pc /\ c.missed = task[t].missed
  BY AdvanceType
<1>2. c.pc # "purging"
  BY <1>1
<1>3. QED
  BY <1>1, <1>2, QuietStep

(* A call that is over.                                                    *)
LEMMA EndStep ==
    ASSUME Typed, NEW t \in Tasks, End(t),
           task[t].pc \notin {"done", "purging"},
           UNCHANGED <<mem, durable, now, spared, gone>>
    PROVE  Typed' /\ Flow(t)
<1>1. /\ CallAt("done") \in CallState /\ GoodCall(CallAt("done"), t)
      /\ ~Holding(CallAt("done")) /\ CallAt("done").pc = "done"
  BY CallAtIsGood
<1>2. task' = [task EXCEPT ![t] = CallAt("done")]
  BY DEF End
<1>3. QED
  BY <1>1, <1>2, QuietStep

(* A call that is left with these tasks.                                   *)
LEMMA LeaveType ==
    ASSUME Typed, NEW t \in Tasks, NEW tasks \in SUBSET task[t].open,
           IsHit(task[t]), Leave(t, tasks)
    PROVE  \E c \in CallState :
             /\ GoodCall(c, t)
             /\ task' = [task EXCEPT ![t] = c]
             /\ c.pc = "done"
             /\ Holding(c) => Holding(task[t]) /\ c.entry = task[t].entry
<1>1. /\ task[t] \in CallState /\ GoodCall(task[t], t)
      /\ task[t].missed = {}
  BY DEF Typed, TypeOK, GoodCall, IsHit, IsFill
<1>2. CASE tasks = {}
  <2>1. task' = [task EXCEPT ![t] = CallAt("done")]
    BY <1>2 DEF Leave
  <2>2. QED
    BY <2>1, CallAtIsGood
<1>3. CASE tasks # {}
  <2> DEFINE c == [task[t] EXCEPT !.pc = "done", !.open = tasks]
  <2>1. "done" \in Places /\ tasks \in SUBSET Tiers
    BY <1>1 DEF Places, CallState
  <2>2. c \in CallState
    BY <1>1, <2>1, CallUpdates
  <2>3. /\ c.pc = "done" /\ c.open = tasks /\ c.entry = task[t].entry
        /\ c.tier = task[t].tier /\ c.missed = {}
    BY <1>1 DEF CallState
  <2>4. task' = [task EXCEPT ![t] = c]
    BY <1>3 DEF Leave
  <2> HIDE DEF c
  <2>5. GoodCall(c, t)
    BY <1>1, <2>3 DEF GoodCall, GoodHit, IsHit, IsFill
  <2>6. Holding(task[t])
    BY DEF IsHit, Holding
  <2>7. QED
    BY <2>2, <2>3, <2>4, <2>5, <2>6
<1>4. QED
  BY <1>2, <1>3
-----------------------------------------------------------------------------
(* Gets.                                                                   *)

LEMMA StartGetStep ==
    ASSUME Typed, NEW t \in Tasks, StartGet(t)
    PROVE  Typed' /\ Flow(t)
<1> DEFINE c == [task[t] EXCEPT !.pc = "lookup"]
<1>1. /\ task[t] \in CallState /\ GoodCall(task[t], t)
      /\ task[t].pc = "idle" /\ task[t].missed = {}
  BY DEF Typed, TypeOK, StartGet, Begins, GoodCall, IsFill
<1>2. "lookup" \in Places
  BY DEF Places
<1>3. c \in CallState
  BY <1>1, <1>2, CallUpdates
<1>4. c.pc = "lookup" /\ c.missed = {}
  BY <1>1 DEF CallState
<1>5. /\ task' = [task EXCEPT ![t] = c]
      /\ UNCHANGED <<mem, durable, now, spared, gone>>
  BY DEF StartGet
<1> HIDE DEF c
<1>6. GoodCall(c, t) /\ ~Holding(c)
  BY <1>4 DEF GoodCall, IsHit, IsFill, Holding
<1>7. QED
  BY <1>1, <1>3, <1>4, <1>5, <1>6, QuietStep

LEMMA LookupMissStep ==
    ASSUME Typed, NEW t \in Tasks, LookupMiss(t)
    PROVE  Typed' /\ Flow(t)
<1>1. "none" \in Results
  BY DEF Results
<1>2. QED
  BY <1>1, AdvanceStep DEF LookupMiss

(* The running purges note a body.                                         *)
LEMMA SpareType ==
    ASSUME Typed, NEW b \in Tasks, Spare(b)
    PROVE  /\ spared' \in [Tasks -> SUBSET Tasks]
           /\ \A p \in Tasks : task[p].pc = "purging"
                               => spared'[p] = spared[p] \cup {b}
BY DEF Typed, TypeOK, Spare

LEMMA LookupHitStep ==
    ASSUME Typed, NEW t \in Tasks, LookupHit(t)
    PROVE  Typed' /\ Flow(t)
<1> DEFINE i == task[t].tier
           e == Found(i)
           o == {j \in Present : /\ j < i
                                 /\ <<i, j>> \in Promotes
                                 /\ Admits(j, e.meta.content_length)}
           r == IF ~Expired(i) THEN "fresh"
                ELSE IF i = 0 THEN "stale" ELSE "expired_fresh"
           c == [task[t] EXCEPT !.pc = "hit", !.entry = e, !.open = o,
                                !.res = r]
<1>1. /\ task[t] \in CallState /\ task[t].pc = "lookup" /\ e # None
      /\ i \in Tiers /\ TypeOK /\ task[t].missed = {}
  BY DEF Typed, TypeOK, LookupHit, CallState, GoodCall, IsFill
<1>2. /\ e \in Entry
      /\ i = L3 => e.meta.content_length # None
  BY <1>1, FoundIsEntry
<1>3. "hit" \in Places /\ r \in Results
  BY DEF Places, Results
<1>4. o \in SUBSET Tiers /\ o \subseteq Caches
  BY ConstantsAssumption DEF Caches, Tiers, L3
<1>5. /\ task' = [task EXCEPT ![t] = c]
      /\ Spare(e.body) /\ UNCHANGED <<mem, durable, now, gone>>
  BY DEF LookupHit
<1>6. \A j \in o : j \in Caches /\ Admits(j, e.meta.content_length)
  BY <1>4
<1> HIDE DEF r, o
<1>7. c \in CallState
  <2> HIDE DEF e
  <2>1. QED
    BY <1>1, <1>2, <1>3, <1>4, CallUpdates
<1>8. /\ c.pc = "hit" /\ c.entry = e /\ c.open = o /\ c.tier = i
      /\ c.missed = {}
  BY <1>1 DEF CallState
<1> HIDE DEF c
<1>9. GoodCall(c, t)
  BY <1>1, <1>2, <1>6, <1>8 DEF GoodCall, GoodHit, IsHit, IsFill
<1>10. /\ spared' \in [Tasks -> SUBSET Tasks]
       /\ \A p \in Tasks : task[p].pc = "purging"
                           => spared[p] \subseteq spared'[p]
  <2>1. e.body \in Tasks
    BY <1>2 DEF Entry
  <2>2. QED
    BY <1>5, <2>1, SpareType
<1>11. /\ mem' \in [Caches -> Entry \cup {None}]
       /\ durable' \in Durable \cup {None}
       /\ now' \in Nat /\ gone' \subseteq Tasks
  BY <1>1, <1>5 DEF TypeOK
<1>12. /\ Typed'
       /\ task'[t] = c
       /\ \A u \in Tasks : u # t => task'[u] = task[u]
  BY <1>5, <1>7, <1>9, <1>10, <1>11, TypedStep
<1>13. HeldFlow(t)
  BY <1>1, <1>5, <1>8, <1>12 DEF HeldFlow, FindsIt
<1>14. PlaceFlow(t)
  BY <1>1 DEF PlaceFlow
<1>15. MemFlow(t) /\ DurableFlow(t)
  BY <1>5 DEF MemFlow, DurableFlow, SameBody
<1>16. PurgeFlow(t)
  BY <1>5, <1>8, <1>10, <1>12 DEF PurgeFlow
<1>17. QED
  BY <1>12, <1>13, <1>14, <1>15, <1>16 DEF Flow

LEMMA LookupFailsStep ==
    ASSUME Typed, NEW t \in Tasks, LookupFails(t)
    PROVE  Typed' /\ Flow(t)
BY EndStep DEF LookupFails

LEMMA FinishHitStep ==
    ASSUME Typed, NEW t \in Tasks, FinishHit(t)
    PROVE  Typed' /\ Flow(t)
<1>1. /\ task[t] \in CallState /\ GoodCall(task[t], t)
      /\ task[t].pc = "hit" /\ task[t].missed = {}
      /\ "promoting" \in Places
  BY DEF Typed, TypeOK, FinishHit, GoodCall, IsFill, Places
<1>2. PICK open \in {task[t].open, task[t].open \cap {0}} :
        task' = [task EXCEPT ![t] =
                  [@ EXCEPT !.pc = "promoting", !.open = open]]
  BY DEF FinishHit
<1> DEFINE c == [task[t] EXCEPT !.pc = "promoting", !.open = open]
<1>3. /\ task' = [task EXCEPT ![t] = c]
      /\ UNCHANGED <<mem, durable, now, spared, gone>>
  BY <1>2 DEF FinishHit
<1>4. open \subseteq task[t].open /\ open \in SUBSET Tiers
  BY <1>1 DEF CallState
<1>5. c \in CallState
  BY <1>1, <1>4, CallUpdates
<1>6. /\ c.pc = "promoting" /\ c.entry = task[t].entry /\ c.open = open
      /\ c.tier = task[t].tier /\ c.missed = {}
  BY <1>1 DEF CallState
<1> HIDE DEF c
<1>7. GoodCall(c, t) /\ Holding(task[t])
  BY <1>1, <1>4, <1>6 DEF GoodCall, GoodHit, IsHit, IsFill, Holding
<1>8. QED
  BY <1>1, <1>3, <1>5, <1>6, <1>7, QuietStep

(* A miss handler that the hit has opened commits it, and the call moves   *)
(* on.                                                                     *)
LEMMA CommitStep ==
    ASSUME Typed, NEW t \in Tasks, NEW j \in Caches, NEW c \in CallState,
           GoodCall(c, t), task' = [task EXCEPT ![t] = c],
           IsHit(task[t]), j \in task[t].open, Commit(t, j),
           task[t].pc \in {"promoting", "done"}, c.pc = task[t].pc,
           c.entry = task[t].entry \/ ~Holding(c),
           UNCHANGED <<durable, now, spared, gone>>
    PROVE  Typed' /\ Flow(t)
<1>1. /\ task[t] \in CallState /\ GoodCall(task[t], t)
      /\ task[t].entry \in Entry
  BY DEF Typed, TypeOK, GoodCall, GoodHit, CallState
<1>2. /\ mem \in [Caches -> Entry \cup {None}]
      /\ mem' = mem \/ mem' = [mem EXCEPT ![j] = task[t].entry]
  BY DEF Commit, Typed, TypeOK
<1>3. mem' \in [Caches -> Entry \cup {None}]
  BY <1>1, <1>2
<1>4. /\ durable' \in Durable \cup {None}
      /\ now' \in Nat
      /\ spared' \in [Tasks -> SUBSET Tasks]
      /\ gone' \subseteq Tasks
  BY DEF Typed, TypeOK
<1>5. /\ Typed'
      /\ task'[t] = c
      /\ \A u \in Tasks : u # t => task'[u] = task[u]
  BY <1>3, <1>4, TypedStep
<1>6. HeldFlow(t) /\ PlaceFlow(t)
  BY <1>5 DEF HeldFlow, PlaceFlow, IsHit, Holding
<1>7. MemFlow(t)
  BY <1>2 DEF MemFlow, SameBody
<1>8. DurableFlow(t) /\ PurgeFlow(t)
  BY <1>5 DEF DurableFlow, SameBody, PurgeFlow
<1>9. QED
  BY <1>5, <1>6, <1>7, <1>8 DEF Flow

LEMMA PromoteStep ==
    ASSUME Typed, NEW t \in Tasks, NEW j \in Caches, Promote(t, j)
    PROVE  Typed' /\ Flow(t)
<1> DEFINE o == task[t].open \ {j}
           c == [task[t] EXCEPT !.open = o]
<1>1. /\ task[t] \in CallState /\ GoodCall(task[t], t)
      /\ task[t].pc = "promoting" /\ task[t].missed = {}
      /\ IsHit(task[t]) /\ o \in SUBSET Tiers
  BY DEF Typed, TypeOK, Promote, GoodCall, IsHit, IsFill, CallState
<1>2. c \in CallState
  BY <1>1, CallUpdates
<1>3. /\ c.pc = "promoting" /\ c.entry = task[t].entry /\ c.open = o
      /\ c.tier = task[t].tier /\ c.missed = {}
  BY <1>1 DEF CallState
<1>4. /\ task' = [task EXCEPT ![t] = c]
      /\ j \in task[t].open /\ Commit(t, j)
      /\ UNCHANGED <<durable, now, spared, gone>>
  BY DEF Promote
<1> HIDE DEF c
<1>5. GoodCall(c, t)
  BY <1>1, <1>3 DEF GoodCall, GoodHit, IsHit, IsFill
<1>6. QED
  BY <1>1, <1>2, <1>3, <1>4, <1>5, CommitStep

LEMMA ServedStep ==
    ASSUME Typed, NEW t \in Tasks, Served(t)
    PROVE  Typed' /\ Flow(t)
<1> DEFINE c == [task[t] EXCEPT !.pc = "served", !.tier = 0, !.res = "none"]
<1>1. /\ task[t] \in CallState /\ GoodCall(task[t], t)
      /\ task[t].pc = "promoting" /\ task[t].missed = {}
      /\ task[t].entry # None
  BY DEF Typed, TypeOK, Served, GoodCall, GoodHit, IsHit, IsFill
<1>2. "served" \in Places /\ 0 \in Tiers /\ "none" \in Results
  BY DEF Places, Tiers, L3, Results
<1>3. c \in CallState
  BY <1>1, <1>2, CallUpdates
<1>4. /\ c.pc = "served" /\ c.tier = 0 /\ c.entry = task[t].entry
      /\ c.missed = {}
  BY <1>1 DEF CallState
<1>5. /\ task' = [task EXCEPT ![t] = c]
      /\ UNCHANGED <<mem, durable, now, spared, gone>>
  BY DEF Served
<1> HIDE DEF c
<1>6. GoodCall(c, t) /\ ~Holding(c)
  BY <1>1, <1>4 DEF GoodCall, IsHit, IsFill, Holding
<1>7. QED
  BY <1>1, <1>3, <1>4, <1>5, <1>6, QuietStep

LEMMA DropHitStep ==
    ASSUME Typed, NEW t \in Tasks, DropHit(t)
    PROVE  Typed' /\ Flow(t)
<1>1. /\ task[t].pc \in {"hit", "promoting"} /\ IsHit(task[t])
      /\ UNCHANGED <<mem, durable, now, spared, gone>>
  BY DEF DropHit, IsHit
<1>2. PICK tasks \in SUBSET task[t].open : Leave(t, tasks)
  BY DEF DropHit
<1>3. PICK c \in CallState :
        /\ GoodCall(c, t)
        /\ task' = [task EXCEPT ![t] = c]
        /\ c.pc = "done"
        /\ Holding(c) => Holding(task[t]) /\ c.entry = task[t].entry
  BY <1>1, <1>2, LeaveType
<1>4. QED
  BY <1>1, <1>3, QuietStep

LEMMA StraggleStep ==
    ASSUME Typed, NEW t \in Tasks, NEW j \in Caches, Straggle(t, j)
    PROVE  Typed' /\ Flow(t)
<1>1. /\ task[t].pc = "done" /\ j \in task[t].open /\ Commit(t, j)
      /\ IsHit(task[t]) /\ Leave(t, task[t].open \ {j})
      /\ UNCHANGED <<durable, now, spared, gone>>
  BY DEF Straggle, IsHit
<1>2. PICK c \in CallState :
        /\ GoodCall(c, t)
        /\ task' = [task EXCEPT ![t] = c]
        /\ c.pc = "done"
        /\ Holding(c) => Holding(task[t]) /\ c.entry = task[t].entry
  BY <1>1, LeaveType
<1>3. QED
  BY <1>1, <1>2, CommitStep
-----------------------------------------------------------------------------
(* Fills.                                                                  *)

LEMMA StartFillStep ==
    ASSUME Typed, NEW t \in Tasks, StartFill(t)
    PROVE  Typed' /\ Flow(t)
<1>1. PICK ttl \in Ttls, dated \in Dated :
        task' = [task EXCEPT ![t] =
                  [task[t] EXCEPT
                     !.pc = "writing",
                     !.entry = [meta |-> NewMeta(t, ttl, dated, Version(t)),
                                body |-> t, cut |-> FALSE],
                     !.open = {i \in Present :
                                 Admits(i, NewMeta(t, ttl, dated, Version(t))
                                             .content_length)}
                              \cup {L3}]]
  BY DEF StartFill
<1> DEFINE m == NewMeta(t, ttl, dated, Version(t))
           e == [meta |-> m, body |-> t, cut |-> FALSE]
           o == {i \in Present : Admits(i, m.content_length)} \cup {L3}
           c == [task[t] EXCEPT !.pc = "writing", !.entry = e, !.open = o]
<1>2. /\ task[t] \in CallState /\ GoodCall(task[t], t)
      /\ task[t].pc \in {"idle", "served"} /\ task[t].missed = {}
      /\ TypeOK /\ ttl \in Nat /\ "writing" \in Places
  BY ConstantsAssumption
     DEF Typed, TypeOK, StartFill, Follows, GoodCall, IsFill, Places
<1>3. m \in Meta
  BY <1>2, VersionType, NewMetaIsMeta
<1>4. task' = [task EXCEPT ![t] = c]
  BY <1>1
<1>5. /\ Spare(t) /\ UNCHANGED <<mem, durable, now, gone>>
  BY DEF StartFill
<1>6. o \in SUBSET Tiers /\ L3 \in o
  <2>1. Present \subseteq Tiers /\ L3 \in Tiers
    BY ConstantsAssumption DEF Caches, Tiers, L3
  <2>2. QED
    BY <2>1
<1> HIDE DEF m, o
<1>7. e \in Entry /\ e # None /\ e.body = t /\ e.cut = FALSE
  <2>1. e \in Entry
    BY <1>3 DEF Entry
  <2>2. e.body = t /\ e.cut = FALSE
    OBVIOUS
  <2> HIDE DEF e
  <2>3. QED
    BY <2>1, <2>2, NoneAssumption
<1> HIDE DEF e
<1>8. c \in CallState
  BY <1>2, <1>6, <1>7, CallUpdates
<1>9. c.pc = "writing" /\ c.entry = e /\ c.open = o /\ c.missed = {}
  BY <1>2 DEF CallState
<1> HIDE DEF c
<1>10. GoodCall(c, t)
  BY <1>6, <1>7, <1>9 DEF GoodCall, GoodFill, IsHit, IsFill
<1>11. /\ spared' \in [Tasks -> SUBSET Tasks]
       /\ \A p \in Tasks : task[p].pc = "purging"
                           => spared[p] \subseteq spared'[p]
  BY <1>5, SpareType
<1>12. /\ mem' \in [Caches -> Entry \cup {None}]
       /\ durable' \in Durable \cup {None}
       /\ now' \in Nat /\ gone' \subseteq Tasks
  BY <1>2, <1>5 DEF TypeOK
<1>13. /\ Typed'
       /\ task'[t] = c
       /\ \A u \in Tasks : u # t => task'[u] = task[u]
  BY <1>4, <1>8, <1>10, <1>11, <1>12, TypedStep
<1>14. HeldFlow(t)
  BY <1>2, <1>5, <1>7, <1>9, <1>13 DEF HeldFlow, FillsIt
<1>15. PlaceFlow(t)
  BY <1>2 DEF PlaceFlow
<1>16. MemFlow(t) /\ DurableFlow(t)
  BY <1>5 DEF MemFlow, DurableFlow, SameBody
<1>17. PurgeFlow(t)
  BY <1>5, <1>9, <1>11, <1>13 DEF PurgeFlow
<1>18. QED
  BY <1>13, <1>14, <1>15, <1>16, <1>17 DEF Flow

LEMMA WriteBodyStep ==
    ASSUME Typed, NEW t \in Tasks, WriteBody(t)
    PROVE  Typed' /\ Flow(t)
<1> DEFINE o == {i \in task[t].open : i = L3 \/ Size[t] <= MaxLen[i]}
           c == [task[t] EXCEPT !.pc = "finishing", !.open = o]
<1>1. /\ task[t] \in CallState /\ GoodCall(task[t], t)
      /\ task[t].pc = "writing" /\ "finishing" \in Places
      /\ task[t].open \in SUBSET Tiers
  BY DEF Typed, TypeOK, WriteBody, Places, CallState
<1>2. GoodFill(task[t], t) /\ Holding(task[t])
  BY <1>1 DEF GoodCall, IsFill, Holding
<1>3. /\ o \in SUBSET Tiers /\ L3 \in o
      /\ \A i \in Caches : i \in o => Size[t] <= MaxLen[i]
  BY <1>1, <1>2 DEF GoodFill, Caches, L3
<1>4. /\ task' = [task EXCEPT ![t] = c]
      /\ UNCHANGED <<mem, durable, now, spared, gone>>
  BY DEF WriteBody
<1> HIDE DEF o
<1>5. c \in CallState
  BY <1>1, <1>3, CallUpdates
<1>6. /\ c.pc = "finishing" /\ c.entry = task[t].entry /\ c.open = o
      /\ c.missed = task[t].missed
  BY <1>1 DEF CallState
<1> HIDE DEF c
<1>7. GoodCall(c, t)
  BY <1>2, <1>3, <1>6 DEF GoodCall, GoodFill, IsHit, IsFill
<1>8. QED
  BY <1>1, <1>2, <1>4, <1>5, <1>6, <1>7, QuietStep

LEMMA WriteFailsStep ==
    ASSUME Typed, NEW t \in Tasks, WriteFails(t)
    PROVE  Typed' /\ Flow(t)
<1>1. /\ task[t] \in CallState /\ GoodCall(task[t], t)
      /\ task[t].pc = "writing"
      /\ task[t].open \in SUBSET Tiers /\ task[t].missed \in SUBSET Tiers
  BY DEF Typed, TypeOK, WriteFails, CallState
<1>2. GoodFill(task[t], t) /\ Holding(task[t])
  BY <1>1 DEF GoodCall, IsFill, Holding
<1>3. PICK i \in task[t].open :
        task' = [task EXCEPT ![t].missed =
                  @ \cup {j \in task[t].open : j >= i}]
  BY DEF WriteFails
<1> DEFINE s == task[t].missed \cup {j \in task[t].open : j >= i}
           c == [task[t] EXCEPT !.missed = s]
<1>4. i <= L3
  BY <1>1 DEF Tiers, L3
<1>5. s \in SUBSET Tiers /\ L3 \in s
  BY <1>1, <1>2, <1>4 DEF GoodFill, Tiers, L3
<1>6. /\ task' = [task EXCEPT ![t] = c]
      /\ UNCHANGED <<mem, durable, now, spared, gone>>
  BY <1>3 DEF WriteFails
<1> HIDE DEF s
<1>7. c \in CallState
  BY <1>1, <1>5, CallUpdates
<1>8. /\ c.pc = "writing" /\ c.entry = task[t].entry /\ c.missed = s
      /\ c.open = task[t].open
  BY <1>1 DEF CallState
<1> HIDE DEF c
<1>9. GoodCall(c, t)
  BY <1>2, <1>5, <1>8 DEF GoodCall, GoodFill, IsHit, IsFill
<1>10. QED
  BY <1>1, <1>2, <1>6, <1>7, <1>8, <1>9, QuietStep

LEMMA FinishEarlyStep ==
    ASSUME Typed, NEW t \in Tasks, FinishEarly(t)
    PROVE  Typed' /\ Flow(t)
<1> DEFINE c == [task[t] EXCEPT !.pc = "finishing", !.missed = task[t].open]
<1>1. /\ task[t] \in CallState /\ GoodCall(task[t], t)
      /\ task[t].pc = "writing" /\ "finishing" \in Places
      /\ task[t].open \in SUBSET Tiers
  BY DEF Typed, TypeOK, FinishEarly, Places, CallState
<1>2. GoodFill(task[t], t) /\ Holding(task[t])
  BY <1>1 DEF GoodCall, IsFill, Holding
<1>3. /\ task' = [task EXCEPT ![t] = c]
      /\ UNCHANGED <<mem, durable, now, spared, gone>>
  BY DEF FinishEarly
<1>4. c \in CallState
  BY <1>1, CallUpdates
<1>5. /\ c.pc = "finishing" /\ c.entry = task[t].entry
      /\ c.open = task[t].open /\ c.missed = task[t].open
  BY <1>1 DEF CallState
<1> HIDE DEF c
<1>6. GoodCall(c, t)
  BY <1>2, <1>5 DEF GoodCall, GoodFill, IsHit, IsFill
<1>7. QED
  BY <1>1, <1>2, <1>3, <1>4, <1>5, <1>6, QuietStep

LEMMA DropFillStep ==
    ASSUME Typed, NEW t \in Tasks, DropFill(t)
    PROVE  Typed' /\ Flow(t)
BY EndStep DEF DropFill

(* Whichever way L3 takes the fill, the body is the filler's.              *)
LEMMA FinishDurableType ==
    ASSUME Typed, NEW t \in Tasks, task[t].entry \in Entry,
           FinishDurable(t)
    PROVE  /\ durable' \in Durable \cup {None}
           /\ durable' # None => /\ durable'.body = t
                                 /\ durable'.cut = (L3 \in task[t].missed)
<1> DEFINE e == task[t].entry
           v == e.meta.version
           w == IF v = None THEN 0 ELSE v + 1
           cut == L3 \in task[t].missed
           m == [meta |-> e.meta, body |-> t, cut |-> cut, version |-> w,
                 expires_at |-> now + e.meta.ttl]
           d == [durable EXCEPT !.body = t, !.cut = cut]
<1>1. /\ e.meta \in Meta /\ e.meta.ttl \in Nat /\ v \in Nat \cup {None}
      /\ cut \in BOOLEAN
  BY DEF Entry, Meta
<1>2. w \in Nat /\ now + e.meta.ttl \in Nat
  BY <1>1 DEF Typed, TypeOK
<1>3. \/ durable' = m
      \/ durable' = None
      \/ durable # None /\ durable' = d
  BY DEF FinishDurable
<1> HIDE DEF w, cut
<1>4. m \in Durable
  BY <1>1, <1>2 DEF Durable
<1>5. m.body = t /\ m.cut = cut
  OBVIOUS
<1>6. durable # None => d \in Durable /\ d.body = t /\ d.cut = cut
  BY <1>1 DEF Typed, TypeOK, Durable
<1> HIDE DEF m, d
<1>7. durable' \in Durable \cup {None}
  BY <1>3, <1>4, <1>6
<1>8. durable' # None => durable'.body = t /\ durable'.cut = cut
  BY <1>3, <1>5, <1>6
<1>9. QED
  BY <1>7, <1>8 DEF cut

LEMMA FinishStep ==
    ASSUME Typed, NEW t \in Tasks, Finish(t)
    PROVE  Typed' /\ Flow(t)
<1> DEFINE i == task[t].tier
           e == [task[t].entry EXCEPT !.cut = i \in task[t].missed]
<1>1. /\ task[t] \in CallState /\ GoodCall(task[t], t)
      /\ task[t].pc = "finishing" /\ task[t].entry \in Entry \cup {None}
      /\ task[t].res \in Results /\ i \in Tiers /\ TypeOK
      /\ i \in task[t].open
  BY DEF Typed, TypeOK, Finish, CallState
<1>2. task[t].entry \in Entry /\ task[t].entry.body = t /\ Holding(task[t])
  BY <1>1 DEF GoodCall, GoodFill, IsFill, Holding
<1>3. e \in Entry /\ e.body = t /\ e.cut = (i \in task[t].missed)
  <2> DEFINE b == i \in task[t].missed
  <2>1. b \in BOOLEAN
    OBVIOUS
  <2> HIDE DEF b
  <2>2. /\ [task[t].entry EXCEPT !.cut = b] \in Entry
        /\ [task[t].entry EXCEPT !.cut = b].body = t
        /\ [task[t].entry EXCEPT !.cut = b].cut = b
    BY <1>2, <2>1 DEF Entry
  <2>3. QED
    BY <2>2 DEF b
<1>4. Advance(t, task[t].res) /\ UNCHANGED <<now, spared, gone>>
  BY DEF Finish
<1>5. PICK c \in CallState :
        /\ GoodCall(c, t)
        /\ task' = [task EXCEPT ![t] = c]
        /\ Holding(c) => Holding(task[t]) /\ c.entry = task[t].entry
        /\ \/ i = L3 /\ c.pc = "done" /\ ~Holding(c)
           \/ i # L3 /\ c.pc = task[t].pc /\ c.missed = task[t].missed
  BY <1>1, <1>4, AdvanceType
<1>6. CASE i = L3
  <2>1. FinishDurable(t) /\ mem' = mem
    BY <1>6 DEF Finish
  <2>2. /\ durable' \in Durable \cup {None}
        /\ durable' # None => /\ durable'.body = t
                              /\ durable'.cut = (L3 \in task[t].missed)
    BY <1>2, <2>1, FinishDurableType
  <2>3. /\ mem' \in [Caches -> Entry \cup {None}]
        /\ now' \in Nat /\ gone' \subseteq Tasks
        /\ spared' \in [Tasks -> SUBSET Tasks]
    BY <1>1, <1>4, <2>1 DEF TypeOK
  <2>4. /\ Typed'
        /\ task'[t] = c
        /\ \A u \in Tasks : u # t => task'[u] = task[u]
    BY <1>5, <2>2, <2>3, TypedStep
  <2>5. HeldFlow(t) /\ PlaceFlow(t)
    BY <1>1, <1>5, <1>6, <2>4 DEF HeldFlow, PlaceFlow
  <2>6. MemFlow(t)
    BY <2>1 DEF MemFlow, SameBody
  <2>7. DurableFlow(t)
    BY <1>1, <1>5, <1>6, <2>2, <2>4 DEF DurableFlow
  <2>8. PurgeFlow(t)
    BY <1>4, <1>5, <1>6, <2>4 DEF PurgeFlow
  <2>9. QED
    BY <2>4, <2>5, <2>6, <2>7, <2>8 DEF Flow
<1>7. CASE i # L3
  <2>1. mem' = [mem EXCEPT ![i] = e] /\ durable' = durable
    BY <1>7 DEF Finish
  <2> HIDE DEF e
  <2>2. /\ mem' \in [Caches -> Entry \cup {None}]
        /\ durable' \in Durable \cup {None}
        /\ now' \in Nat /\ gone' \subseteq Tasks
        /\ spared' \in [Tasks -> SUBSET Tasks]
    BY <1>1, <1>3, <1>4, <2>1 DEF TypeOK
  <2>3. /\ Typed'
        /\ task'[t] = c
        /\ \A u \in Tasks : u # t => task'[u] = task[u]
    BY <1>5, <2>2, TypedStep
  <2>4. HeldFlow(t) /\ PlaceFlow(t)
    BY <1>1, <1>5, <1>7, <2>3 DEF HeldFlow, PlaceFlow
  <2>5. MemFlow(t)
    <3>1. \A j \in Caches : mem'[j] = IF j = i THEN e ELSE mem[j]
      BY <1>1, <2>1 DEF TypeOK
    <3>2. QED
      BY <1>1, <1>3, <3>1 DEF MemFlow, SameBody
  <2>6. DurableFlow(t)
    BY <2>1 DEF DurableFlow, SameBody
  <2>7. PurgeFlow(t)
    BY <1>1, <1>4, <1>5, <1>7, <2>3 DEF PurgeFlow
  <2>8. QED
    BY <2>3, <2>4, <2>5, <2>6, <2>7 DEF Flow
<1>8. QED
  BY <1>6, <1>7

LEMMA FinishSkipsStep ==
    ASSUME Typed, NEW t \in Tasks, FinishSkips(t)
    PROVE  Typed' /\ Flow(t)
<1>1. "none" \in Results
  BY DEF Results
<1>2. QED
  BY <1>1, AdvanceStep DEF FinishSkips

LEMMA FinishFailsStep ==
    ASSUME Typed, NEW t \in Tasks, FinishFails(t)
    PROVE  Typed' /\ Flow(t)
<1>1. "none" \in Results
  BY DEF Results
<1>2. QED
  BY <1>1, AdvanceStep DEF FinishFails
-----------------------------------------------------------------------------
(* Purges.                                                                 *)

LEMMA StartPurgeStep ==
    ASSUME Typed, NEW t \in Tasks, StartPurge(t)
    PROVE  Typed' /\ Flow(t)
<1> DEFINE c == [task[t] EXCEPT !.pc = "purging"]
           held == {b \in Tasks : \E u \in Tasks : Holds(task[u], b)}
<1>1. /\ task[t] \in CallState /\ GoodCall(task[t], t) /\ TypeOK
      /\ task[t].pc = "idle" /\ task[t].tier = 0 /\ task[t].missed = {}
      /\ "purging" \in Places
  BY DEF Typed, TypeOK, StartPurge, Begins, GoodCall, IsFill, Places
<1>2. c \in CallState
  BY <1>1, CallUpdates
<1>3. c.pc = "purging" /\ c.tier = 0 /\ c.missed = {}
  BY <1>1 DEF CallState
<1>4. /\ task' = [task EXCEPT ![t] = c]
      /\ spared' = [spared EXCEPT ![t] = held]
      /\ UNCHANGED <<mem, durable, now, gone>>
  BY DEF StartPurge
<1> HIDE DEF c
<1>5. GoodCall(c, t) /\ ~Holding(c)
  BY <1>3 DEF GoodCall, IsHit, IsFill, Holding
<1>6. held \in SUBSET Tasks
  OBVIOUS
<1> HIDE DEF held
<1>7. /\ spared' \in [Tasks -> SUBSET Tasks]
      /\ \A p \in Tasks : spared'[p] = IF p = t THEN held ELSE spared[p]
  BY <1>1, <1>4, <1>6 DEF TypeOK
<1>8. /\ mem' \in [Caches -> Entry \cup {None}]
      /\ durable' \in Durable \cup {None}
      /\ now' \in Nat /\ gone' \subseteq Tasks
  BY <1>1, <1>4 DEF TypeOK
<1>9. /\ Typed'
      /\ task'[t] = c
      /\ \A u \in Tasks : u # t => task'[u] = task[u]
  BY <1>2, <1>4, <1>5, <1>7, <1>8, TypedStep
<1>10. HeldFlow(t) /\ PlaceFlow(t)
  BY <1>1, <1>5, <1>9 DEF HeldFlow, PlaceFlow
<1>11. MemFlow(t) /\ DurableFlow(t)
  BY <1>4 DEF MemFlow, DurableFlow, SameBody
<1>12. PurgeFlow(t)
  BY <1>3, <1>4, <1>7, <1>9 DEF PurgeFlow, held
<1>13. QED
  BY <1>9, <1>10, <1>11, <1>12 DEF Flow

LEMMA PurgeStep ==
    ASSUME Typed, NEW t \in Tasks, Purge(t)
    PROVE  Typed' /\ Flow(t)
<1> DEFINE i == task[t].tier
           r == IF Found(i) # None THEN "any" ELSE task[t].res
<1>1. /\ task[t] \in CallState /\ TypeOK /\ task[t].pc = "purging"
      /\ task[t].res \in Results /\ i \in Tiers
  BY DEF Typed, TypeOK, Purge, CallState
<1>2. r \in Results
  BY <1>1 DEF Results
<1>3. Advance(t, r)
  BY DEF Purge
<1> HIDE DEF r
<1>4. PICK c \in CallState :
        /\ GoodCall(c, t)
        /\ task' = [task EXCEPT ![t] = c]
        /\ Holding(c) => Holding(task[t])
        /\ \/ i = L3 /\ c.pc = "done"
           \/ i # L3 /\ c.tier = i + 1
  BY <1>1, <1>2, <1>3, AdvanceType
<1>5. ~Holding(c)
  BY <1>1, <1>4 DEF Holding
<1>6. /\ mem' = IF i = L3 THEN mem ELSE [mem EXCEPT ![i] = None]
      /\ durable' = IF i = L3 THEN None ELSE durable
      /\ now' = now
      /\ IF i = L3
         THEN /\ spared' = [spared EXCEPT ![t] = {}]
              /\ gone' = gone \cup ({u \in Tasks : task[u].pc = "done"}
                                     \ spared[t])
         ELSE UNCHANGED <<spared, gone>>
  BY DEF Purge, Remove, Purged
<1>7. /\ mem' \in [Caches -> Entry \cup {None}]
      /\ durable' \in Durable \cup {None}
      /\ now' \in Nat /\ gone' \subseteq Tasks
      /\ spared' \in [Tasks -> SUBSET Tasks]
  BY <1>1, <1>6 DEF TypeOK
<1>8. \A p \in Tasks : p # t => spared'[p] = spared[p]
  BY <1>1, <1>6 DEF TypeOK
<1>9. i # L3 => i \in Caches /\ mem'[i] = None /\ spared' = spared
  BY <1>1, <1>6 DEF TypeOK, Tiers, Caches, L3
<1>10. /\ Typed'
       /\ task'[t] = c
       /\ \A u \in Tasks : u # t => task'[u] = task[u]
  BY <1>4, <1>7, TypedStep
<1>11. HeldFlow(t) /\ PlaceFlow(t)
  BY <1>1, <1>5, <1>10 DEF HeldFlow, PlaceFlow
<1>12. MemFlow(t)
  <2>1. \A j \in Caches : mem'[j] \in {mem[j], None}
    BY <1>1, <1>6 DEF TypeOK
  <2>2. QED
    BY <2>1 DEF MemFlow, SameBody
<1>13. DurableFlow(t)
  BY <1>6 DEF DurableFlow, SameBody
<1>14. gone' = gone \/ EndsPurge(t)
  BY <1>1, <1>6 DEF EndsPurge
<1>15. PurgeFlow(t)
  BY <1>1, <1>4, <1>8, <1>9, <1>10, <1>14 DEF PurgeFlow
<1>16. QED
  BY <1>10, <1>11, <1>12, <1>13, <1>15 DEF Flow

LEMMA PurgeFailsStep ==
    ASSUME Typed, NEW t \in Tasks, PurgeFails(t)
    PROVE  Typed' /\ Flow(t)
<1>1. /\ task[t] \in CallState /\ TypeOK /\ task[t].pc = "purging"
      /\ task[t].res \in Results /\ Advance(t, task[t].res)
  BY DEF Typed, TypeOK, PurgeFails, CallState
<1>2. PICK c \in CallState :
        /\ GoodCall(c, t)
        /\ task' = [task EXCEPT ![t] = c]
        /\ Holding(c) => Holding(task[t])
        /\ \/ task[t].tier = L3 /\ c.pc = "done"
           \/ task[t].tier # L3
  BY <1>1, AdvanceType
<1>3. ~Holding(c)
  BY <1>1, <1>2 DEF Holding
<1>4. /\ UNCHANGED <<mem, durable, now, gone>>
      /\ spared' = [spared EXCEPT ![t] = IF task[t].tier = L3 THEN {}
                                         ELSE Tasks]
  BY DEF PurgeFails
<1>5. /\ spared' \in [Tasks -> SUBSET Tasks]
      /\ \A p \in Tasks : p # t => spared'[p] = spared[p]
      /\ task[t].tier # L3 => spared'[t] = Tasks
  BY <1>1, <1>4 DEF TypeOK
<1>6. /\ mem' \in [Caches -> Entry \cup {None}]
      /\ durable' \in Durable \cup {None}
      /\ now' \in Nat /\ gone' \subseteq Tasks
  BY <1>1, <1>4 DEF TypeOK
<1>7. /\ Typed'
      /\ task'[t] = c
      /\ \A u \in Tasks : u # t => task'[u] = task[u]
  BY <1>2, <1>5, <1>6, TypedStep
<1>8. HeldFlow(t) /\ PlaceFlow(t)
  BY <1>1, <1>3, <1>7 DEF HeldFlow, PlaceFlow
<1>9. MemFlow(t) /\ DurableFlow(t)
  BY <1>4 DEF MemFlow, DurableFlow, SameBody
<1>10. PurgeFlow(t)
  BY <1>2, <1>4, <1>5, <1>7 DEF PurgeFlow
<1>11. QED
  BY <1>7, <1>8, <1>9, <1>10 DEF Flow
-----------------------------------------------------------------------------
(* Updates and touches.                                                    *)

LEMMA StartUpdateStep ==
    ASSUME Typed, NEW t \in Tasks, StartUpdate(t)
    PROVE  Typed' /\ Flow(t)
<1>1. PICK ttl \in Ttls, dated \in Dated :
        task' = [task EXCEPT ![t] =
                  [task[t] EXCEPT
                     !.pc = "updating",
                     !.entry = [meta |-> NewMeta(t, ttl, dated, Version(t)),
                                body |-> t, cut |-> FALSE]]]
  BY DEF StartUpdate
<1> DEFINE m == NewMeta(t, ttl, dated, Version(t))
           e == [meta |-> m, body |-> t, cut |-> FALSE]
           c == [task[t] EXCEPT !.pc = "updating", !.entry = e]
<1>2. /\ task[t] \in CallState /\ GoodCall(task[t], t)
      /\ task[t].pc \in {"idle", "served"} /\ task[t].missed = {}
      /\ TypeOK /\ ttl \in Nat /\ "updating" \in Places
  BY ConstantsAssumption
     DEF Typed, TypeOK, StartUpdate, Follows, GoodCall, IsFill, Places
<1>3. m \in Meta
  BY <1>2, VersionType, NewMetaIsMeta
<1>4. /\ task' = [task EXCEPT ![t] = c]
      /\ UNCHANGED <<mem, durable, now, spared, gone>>
  BY <1>1 DEF StartUpdate
<1> HIDE DEF m
<1>5. e \in Entry
  BY <1>3 DEF Entry
<1> HIDE DEF e
<1>6. e # None
  BY <1>5, NoneAssumption
<1>7. c \in CallState
  BY <1>2, <1>5, CallUpdates
<1>8. c.pc = "updating" /\ c.entry = e /\ c.missed = {}
  BY <1>2 DEF CallState
<1> HIDE DEF c
<1>9. GoodCall(c, t) /\ ~Holding(c)
  BY <1>6, <1>8 DEF GoodCall, IsHit, IsFill, Holding
<1>10. QED
  BY <1>2, <1>4, <1>7, <1>8, <1>9, QuietStep

LEMMA StartTouchStep ==
    ASSUME Typed, NEW t \in Tasks, StartTouch(t)
    PROVE  Typed' /\ Flow(t)
<1>1. PICK x \in Expiries :
        task' = [task EXCEPT ![t] =
                  [task[t] EXCEPT
                     !.pc = "touching",
                     !.entry = [meta |-> [NewMeta(t, 0, "expiry", None)
                                            EXCEPT !.expires_at = x],
                                body |-> t, cut |-> FALSE]]]
  BY DEF StartTouch
<1> DEFINE n == NewMeta(t, 0, "expiry", None)
           m == [n EXCEPT !.expires_at = x]
           e == [meta |-> m, body |-> t, cut |-> FALSE]
           c == [task[t] EXCEPT !.pc = "touching", !.entry = e]
<1>2. /\ task[t] \in CallState /\ GoodCall(task[t], t)
      /\ task[t].pc = "idle" /\ task[t].missed = {}
      /\ TypeOK /\ x \in Nat /\ "touching" \in Places
  BY ConstantsAssumption
     DEF Typed, TypeOK, StartTouch, Begins, GoodCall, IsFill, Places
<1>3. n \in Meta
  BY <1>2, NewMetaIsMeta
<1>4. /\ task' = [task EXCEPT ![t] = c]
      /\ UNCHANGED <<mem, durable, now, spared, gone>>
  BY <1>1 DEF StartTouch
<1> HIDE DEF n
<1>5. m \in Meta /\ m.expires_at = x
  BY <1>2, <1>3 DEF Meta
<1> HIDE DEF m
<1>6. e \in Entry /\ e.meta = m
  BY <1>5 DEF Entry
<1>7. x # None
  BY <1>2, ConstantsAssumption
<1> HIDE DEF e
<1>8. e # None
  BY <1>6, NoneAssumption
<1>9. c \in CallState
  BY <1>2, <1>6, CallUpdates
<1>10. c.pc = "touching" /\ c.entry = e /\ c.missed = {}
  BY <1>2 DEF CallState
<1> HIDE DEF c
<1>11. GoodCall(c, t) /\ ~Holding(c)
  BY <1>5, <1>6, <1>7, <1>8, <1>10 DEF GoodCall, IsHit, IsFill, Holding
<1>12. QED
  BY <1>2, <1>4, <1>9, <1>10, <1>11, QuietStep

(* A visit of an update or a touch keeps the body of every tier.           *)
LEMMA VisitStep ==
    ASSUME Typed, NEW t \in Tasks, NEW r \in Results, Advance(t, r),
           task[t].pc \in {"updating", "touching"},
           mem' \in [Caches -> Entry \cup {None}],
           durable' \in Durable \cup {None},
           \A i \in Caches : mem'[i] # None => SameBody(mem[i], mem'[i]),
           durable' # None => SameBody(durable, durable'),
           UNCHANGED <<now, spared, gone>>
    PROVE  Typed' /\ Flow(t)
<1>1. PICK c \in CallState :
        /\ GoodCall(c, t)
        /\ task' = [task EXCEPT ![t] = c]
        /\ Holding(c) => Holding(task[t])
        /\ c.pc = "done" \/ c.pc = task[t].pc
  BY AdvanceType
<1>2. ~Holding(c) /\ c.pc # "purging"
  BY <1>1 DEF Holding
<1>3. /\ now' \in Nat /\ gone' \subseteq Tasks
      /\ spared' \in [Tasks -> SUBSET Tasks]
  BY DEF Typed, TypeOK
<1>4. /\ Typed'
      /\ task'[t] = c
      /\ \A u \in Tasks : u # t => task'[u] = task[u]
  BY <1>1, <1>3, TypedStep
<1>5. HeldFlow(t) /\ PlaceFlow(t)
  BY <1>2, <1>4 DEF HeldFlow, PlaceFlow
<1>6. MemFlow(t) /\ DurableFlow(t)
  BY DEF MemFlow, DurableFlow
<1>7. PurgeFlow(t)
  BY <1>2, <1>4 DEF PurgeFlow
<1>8. QED
  BY <1>4, <1>5, <1>6, <1>7 DEF Flow

(* The metadata of a tier's entry is replaced.                             *)
LEMMA MetaReplaced ==
    ASSUME TypeOK, NEW i \in Caches, mem[i] # None, NEW m \in Meta
    PROVE  /\ [mem EXCEPT ![i].meta = m] \in [Caches -> Entry \cup {None}]
           /\ \A j \in Caches : mem[j] # None =>
                SameBody(mem[j], [mem EXCEPT ![i].meta = m][j])
           /\ \A j \in Caches : mem[j] = None =>
                [mem EXCEPT ![i].meta = m][j] = None
<1>1. mem \in [Caches -> Entry \cup {None}] /\ mem[i] \in Entry
  BY DEF TypeOK
<1> DEFINE e == [mem[i] EXCEPT !.meta = m]
<1>2. e \in Entry /\ e.body = mem[i].body /\ e.cut = mem[i].cut
  BY <1>1 DEF Entry
<1>3. [mem EXCEPT ![i].meta = m] = [mem EXCEPT ![i] = e]
  BY <1>1
<1> HIDE DEF e
<1>4. QED
  BY <1>1, <1>2, <1>3 DEF SameBody

LEMMA UpdateStep ==
    ASSUME Typed, NEW t \in Tasks, Update(t)
    PROVE  Typed' /\ Flow(t)
<1> DEFINE i == task[t].tier
           meta == task[t].entry.meta
           d == [durable EXCEPT !.meta = meta, !.version = durable.version + 1,
                                !.expires_at = now + meta.ttl]
<1>1. /\ TypeOK /\ task[t].pc = "updating" /\ "none" \in Results
      /\ i \in Tiers /\ task[t].entry \in Entry
  BY DEF Typed, TypeOK, Update, GoodCall, CallState, Results
<1>2. meta \in Meta /\ now + meta.ttl \in Nat
  BY <1>1 DEF Entry, Meta, TypeOK
<1>3. /\ UNCHANGED <<now, spared, gone>> /\ Advance(t, "none")
      /\ task[t].pc \in {"updating", "touching"}
  BY <1>1 DEF Update
<1>4. CASE Found(i) = None
  <2>1. UNCHANGED <<mem, durable>>
    BY <1>4 DEF Update
  <2>2. QED
    BY <1>1, <1>3, <2>1, AdvanceStep
<1>5. CASE Found(i) # None /\ i # L3
  <2>1. i \in Caches /\ mem[i] # None
    BY <1>1, <1>5, FoundIsEntry
  <2>2. /\ mem' = [mem EXCEPT ![i].meta = meta]
        /\ durable' = durable
    BY <1>5 DEF Update
  <2> HIDE DEF i, meta
  <2>3. /\ mem' \in [Caches -> Entry \cup {None}]
        /\ \A j \in Caches : mem'[j] # None => SameBody(mem[j], mem'[j])
    BY <1>1, <1>2, <2>1, <2>2, MetaReplaced
  <2>4. /\ durable' \in Durable \cup {None}
        /\ durable' # None => SameBody(durable, durable')
    BY <1>1, <2>2 DEF TypeOK, SameBody
  <2>5. QED
    BY <1>1, <1>3, <2>3, <2>4, VisitStep
<1>6. CASE Found(i) # None /\ i = L3
  <2>1. durable # None /\ durable \in Durable
    BY <1>1, <1>6, FoundIsEntry DEF TypeOK
  <2>2. mem' = mem /\ durable' = d
    BY <1>6 DEF Update
  <2>3. d \in Durable /\ d.body = durable.body /\ d.cut = durable.cut
    <3>1. durable.version + 1 \in Nat
      BY <2>1 DEF Durable
    <3> HIDE DEF meta
    <3>2. QED
      BY <1>2, <2>1, <3>1 DEF Durable
  <2> HIDE DEF d
  <2>4. /\ mem' \in [Caches -> Entry \cup {None}]
        /\ \A j \in Caches : mem'[j] # None => SameBody(mem[j], mem'[j])
    BY <1>1, <2>2 DEF TypeOK, SameBody
  <2>5. SameBody(durable, durable') /\ durable' \in Durable \cup {None}
    BY <2>1, <2>2, <2>3 DEF SameBody
  <2>6. QED
    BY <1>1, <1>3, <2>4, <2>5, VisitStep
<1>7. QED
  BY <1>4, <1>5, <1>6

LEMMA TouchStep ==
    ASSUME Typed, NEW t \in Tasks, Touch(t)
    PROVE  Typed' /\ Flow(t)
<1> DEFINE i == task[t].tier
           x == task[t].entry.meta.expires_at
           m == [mem[i].meta EXCEPT !.expires_at = x]
           d == [durable EXCEPT !.expires_at = x]
<1>1. /\ TypeOK /\ task[t].pc = "touching" /\ GoodCall(task[t], t)
      /\ i \in Tiers /\ task[t].entry \in Entry
  BY DEF Typed, TypeOK, Touch, GoodCall, CallState
<1>2. x \in Nat
  BY <1>1 DEF Entry, Meta, GoodCall
<1>3. "none" \in Results
  BY DEF Results
<1>4. /\ Advance(t, "none") /\ UNCHANGED <<now, spared, gone>>
      /\ task[t].pc \in {"updating", "touching"}
  BY <1>1 DEF Touch
<1>5. /\ mem' \in [Caches -> Entry \cup {None}]
      /\ \A j \in Caches : mem'[j] # None => SameBody(mem[j], mem'[j])
  <2>1. CASE i = L3 \/ Found(i) = None
    BY <1>1, <2>1 DEF Touch, TypeOK, SameBody
  <2>2. CASE ~(i = L3 \/ Found(i) = None)
    <3>1. i \in Caches /\ mem[i] # None /\ mem[i] \in Entry
      BY <1>1, <2>2, FoundIsEntry DEF TypeOK
    <3>2. m \in Meta
      BY <1>2, <3>1 DEF Entry, Meta
    <3>3. mem' = [mem EXCEPT ![i].meta.expires_at = x]
      BY <2>2 DEF Touch
    <3>4. mem' = [mem EXCEPT ![i].meta = m]
      BY <3>3
    <3> HIDE DEF m, i
    <3>5. QED
      BY <1>1, <3>1, <3>2, <3>4, MetaReplaced
  <2>3. QED
    BY <2>1, <2>2
<1>6. /\ durable' \in Durable \cup {None}
      /\ durable' # None => SameBody(durable, durable')
  <2>1. durable # None => /\ d \in Durable /\ d.body = durable.body
                          /\ d.cut = durable.cut
    BY <1>1, <1>2 DEF TypeOK, Durable
  <2>2. durable' \in {durable, IF durable = None THEN None ELSE d}
    BY DEF Touch
  <2> HIDE DEF d
  <2>3. QED
    BY <1>1, <2>1, <2>2 DEF TypeOK, SameBody
<1>7. QED
  BY <1>3, <1>4, <1>5, <1>6, VisitStep

LEMMA VisitFailsStep ==
    ASSUME Typed, NEW t \in Tasks, VisitFails(t)
    PROVE  Typed' /\ Flow(t)
<1>1. "none" \in Results
  BY DEF Results
<1>2. task[t].pc \in {"lookup", "finishing", "updating", "touching"}
  BY DEF VisitFails
<1>3. QED
  BY <1>1, <1>2, AdvanceStep DEF VisitFails
-----------------------------------------------------------------------------
(* The specification.                                                      *)

LEMMA StepFlow ==
    ASSUME Typed, NEW t \in Tasks, Step(t)
    PROVE  Typed' /\ Flow(t)
<1>1. CASE StartGet(t) \/ LookupMiss(t) \/ LookupHit(t) \/ LookupFails(t)
  BY <1>1, StartGetStep, LookupMissStep, LookupHitStep, LookupFailsStep
<1>2. CASE FinishHit(t) \/ Served(t) \/ DropHit(t)
  BY <1>2, FinishHitStep, ServedStep, DropHitStep
<1>3. CASE \E j \in Caches : Promote(t, j) \/ Straggle(t, j)
  BY <1>3, PromoteStep, StraggleStep
<1>4. CASE \/ StartFill(t) \/ WriteBody(t) \/ WriteFails(t)
           \/ FinishEarly(t) \/ DropFill(t)
  BY <1>4, StartFillStep, WriteBodyStep, WriteFailsStep, FinishEarlyStep,
     DropFillStep
<1>5. CASE Finish(t) \/ FinishSkips(t) \/ FinishFails(t)
  BY <1>5, FinishStep, FinishSkipsStep, FinishFailsStep
<1>6. CASE StartPurge(t) \/ Purge(t) \/ PurgeFails(t)
  BY <1>6, StartPurgeStep, PurgeStep, PurgeFailsStep
<1>7. CASE StartUpdate(t) \/ Update(t)
  BY <1>7, StartUpdateStep, UpdateStep
<1>8. CASE StartTouch(t) \/ Touch(t) \/ VisitFails(t)
  BY <1>8, StartTouchStep, TouchStep, VisitFailsStep
<1>9. QED
  BY <1>1, <1>2, <1>3, <1>4, <1>5, <1>6, <1>7, <1>8 DEF Step

(* Any other step changes nothing but the clock.                           *)
LEMMA NextFlow ==
    ASSUME Typed, [Next]_vars
    PROVE  /\ Typed'
           /\ \/ \E t \in Tasks : Flow(t)
              \/ UNCHANGED <<mem, durable, task, spared, gone>>
<1>1. CASE Tick
  <2>1. now' \in Nat /\ UNCHANGED <<mem, durable, task, spared, gone>>
    BY <1>1 DEF Tick, Typed, TypeOK
  <2>2. QED
    BY <2>1 DEF Typed, TypeOK
<1>2. CASE \E t \in Tasks : Step(t)
  BY <1>2, StepFlow
<1>3. CASE UNCHANGED vars
  BY <1>3 DEF vars, Typed, TypeOK
<1>4. QED
  BY <1>1, <1>2, <1>3 DEF Next

LEMMA InitTyped == Init => Typed
<1> SUFFICES ASSUME Init PROVE Typed
  OBVIOUS
<1>1. \A t \in Tasks : task[t] \in CallState /\ GoodCall(task[t], t)
  BY CallAtIsGood DEF Init
<1>2. task \in [Tasks -> CallState]
  BY <1>1 DEF Init
<1>3. QED
  BY <1>1, <1>2 DEF Init, Typed, TypeOK

LEMMA TypedInvariant == Spec => []Typed
<1>1. Typed /\ [Next]_vars => Typed'
  BY NextFlow
<1>2. QED
  BY <1>1, InitTyped, PTL DEF Spec

(* Whatever the clients do, and whatever fails, the tiers hold well-formed *)
(* entries and the calls go through the places of the code.                *)
THEOREM TypeCorrect == Spec => []TypeOK
<1>1. Typed => TypeOK
  BY DEF Typed
<1>2. QED
  BY <1>1, TypedInvariant, PTL
-----------------------------------------------------------------------------
(* Purges.                                                                 *)

(* While a purge runs, a body that it has no note of is held by nobody and *)
(* is in no tier that it has done with: whoever holds a body has had it    *)
(* when the purge began, or has found it in a tier since, or fills it.     *)
Clears(p) ==
    \A b \in Tasks : b \notin spared[p] =>
        /\ \A u \in Tasks : ~Holds(task[u], b)
        /\ \A i \in Caches : /\ i < task[p].tier
                             /\ mem[i] # None
                             => mem[i].body # b

PurgeInv ==
    /\ PurgedIsGone
    /\ \A u \in gone : task[u].pc = "done"
    /\ \A p \in Tasks : task[p].pc = "purging" => Clears(p)

(* A body that a call comes to hold while a purge runs, the purge notes.   *)
LEMMA HeldIsNoted ==
    ASSUME Typed, NEW t \in Tasks, Flow(t), NEW p \in Tasks, p # t,
           task[p].pc = "purging",
           NEW b \in Tasks, b \notin spared'[p], \A u \in Tasks : ~Holds(task[u], b)
    PROVE  \A u \in Tasks : ~Holds(task'[u], b)
<1>1. ~Holds(task'[t], b)
  <2> SUFFICES ASSUME Holds(task'[t], b) PROVE FALSE
    OBVIOUS
  <2>1. Holding(task'[t]) /\ task'[t].entry # None /\ task'[t].entry.body = b
    BY DEF Holds
  <2>2. HeldFlow(t)
    BY DEF Flow
  <2>3. CASE Holding(task[t]) /\ task'[t].entry = task[t].entry
    BY <2>1, <2>3 DEF Holds
  <2>4. CASE FindsIt(t)
    <3>1. Spare(b)
      BY <2>1, <2>4 DEF FindsIt
    <3>2. QED
      BY <3>1, SpareType
  <2>5. CASE FillsIt(t)
    <3>1. Spare(b)
      BY <2>1, <2>5 DEF FillsIt
    <3>2. QED
      BY <3>1, SpareType
  <2>6. QED
    BY <2>1, <2>2, <2>3, <2>4, <2>5 DEF HeldFlow
<1>2. \A u \in Tasks : u # t => task'[u] = task[u]
  BY DEF Flow
<1>3. QED
  BY <1>1, <1>2

(* A body that nobody holds comes to no tier.                              *)
LEMMA UnheldIsNotStored ==
    ASSUME Typed, NEW t \in Tasks, Flow(t), NEW b \in Tasks,
           ~Holds(task[t], b)
    PROVE  /\ \A i \in Caches : /\ mem'[i] # None
                                /\ mem'[i].body = b
                                => mem[i] # None /\ mem[i].body = b
           /\ durable' # None /\ durable'.body = b
                => durable # None /\ durable.body = b
<1>1. GoodCall(task[t], t)
  BY DEF Typed
<1>2. IsHit(task[t]) => /\ Holding(task[t]) /\ task[t].entry # None
                        /\ task[t].entry.body # b
  BY <1>1 DEF GoodCall, GoodHit, IsHit, Holding, Holds
<1>3. task[t].pc = "finishing" => t # b
  BY <1>1 DEF GoodCall, GoodFill, IsFill, Holding, Holds
<1>4. MemFlow(t) /\ DurableFlow(t)
  BY DEF Flow
<1>5. \A i \in Caches : /\ mem'[i] # None
                        /\ mem'[i].body = b
                        => mem[i] # None /\ mem[i].body = b
  BY <1>2, <1>3, <1>4 DEF MemFlow, SameBody
<1>6. durable' # None /\ durable'.body = b
        => durable # None /\ durable.body = b
  BY <1>3, <1>4 DEF DurableFlow, SameBody
<1>7. QED
  BY <1>5, <1>6

LEMMA ClearsStep ==
    ASSUME Typed, NEW t \in Tasks, Flow(t),
           \A p \in Tasks : task[p].pc = "purging" => Clears(p),
           NEW p \in Tasks, task'[p].pc = "purging"
    PROVE  Clears(p)'
<1>1. PurgeFlow(t) /\ \A u \in Tasks : u # t => task'[u] = task[u]
  BY DEF Flow
<1> SUFFICES ASSUME NEW b \in Tasks, b \notin spared'[p]
             PROVE  /\ \A u \in Tasks : ~Holds(task'[u], b)
                    /\ \A i \in Caches : /\ i < task'[p].tier
                                         /\ mem'[i] # None
                                         => mem'[i].body # b
  BY DEF Clears
<1>2. CASE p # t
  <2>1. task[p].pc = "purging" /\ b \notin spared[p] /\ task'[p] = task[p]
    BY <1>1, <1>2 DEF PurgeFlow
  <2>2. Clears(p)
    BY <2>1
  <2>3. /\ \A u \in Tasks : ~Holds(task[u], b)
        /\ \A i \in Caches : /\ i < task[p].tier
                             /\ mem[i] # None
                             => mem[i].body # b
    BY <2>1, <2>2 DEF Clears
  <2>4. \A u \in Tasks : ~Holds(task'[u], b)
    BY <1>2, <2>1, <2>3, HeldIsNoted
  <2>5. QED
    BY <2>1, <2>3, <2>4, UnheldIsNotStored
<1>3. CASE p = t
  <2>1. ~Holding(task'[t])
    BY <1>3 DEF Holding
  <2>2. CASE /\ task'[t].tier = 0
             /\ spared'[t] = {c \in Tasks : \E u \in Tasks : Holds(task[u], c)}
    <3>1. \A u \in Tasks : ~Holds(task[u], b)
      BY <1>3, <2>2
    <3>2. \A u \in Tasks : ~Holds(task'[u], b)
      BY <1>1, <2>1, <3>1 DEF Holds
    <3>3. \A i \in Caches : ~(i < task'[p].tier)
      BY <1>3, <2>2 DEF Caches
    <3>4. QED
      BY <3>2, <3>3
  <2>3. CASE spared'[t] = Tasks
    BY <1>3, <2>3
  <2>4. CASE /\ task[t].pc = "purging" /\ spared'[t] = spared[t]
             /\ task'[t].tier = task[t].tier + 1
             /\ mem'[task[t].tier] = None
    <3>1. Clears(t) /\ b \notin spared[t]
      BY <1>3, <2>4
    <3>2. /\ \A u \in Tasks : ~Holds(task[u], b)
          /\ \A i \in Caches : /\ i < task[t].tier
                               /\ mem[i] # None
                               => mem[i].body # b
      BY <3>1 DEF Clears
    <3>3. \A u \in Tasks : ~Holds(task'[u], b)
      BY <1>1, <2>1, <3>2 DEF Holds
    <3>4. task[t].tier \in Nat
      BY DEF Typed, TypeOK, CallState, Tiers, L3
    <3>5. \A i \in Caches : i < task'[t].tier => \/ i < task[t].tier
                                                 \/ i = task[t].tier
      BY <2>4, <3>4 DEF Caches
    <3>6. QED
      BY <1>3, <2>4, <3>2, <3>3, <3>5, UnheldIsNotStored
  <2>5. QED
    BY <1>1, <1>3, <2>2, <2>3, <2>4 DEF PurgeFlow
<1>4. QED
  BY <1>2, <1>3

(* What is gone stays gone.                                                *)
LEMMA GoneStep ==
    ASSUME Typed, NEW t \in Tasks, Flow(t), PurgeInv, gone' = gone
    PROVE  PurgedIsGone'
<1>1. /\ \A i \in Caches : mem[i] # None => mem[i].body \notin gone
      /\ durable # None => durable.body \notin gone
      /\ \A u, b \in Tasks : Holds(task[u], b) => b \notin gone
  BY DEF PurgeInv, PurgedIsGone
<1>2. gone \subseteq Tasks /\ TypeOK
  BY DEF Typed, TypeOK
<1>3. \A i \in Caches : mem'[i] # None => mem'[i].body \notin gone
  BY <1>1, <1>2, UnheldIsNotStored
<1>4. durable' # None => durable'.body \notin gone
  BY <1>1, <1>2, UnheldIsNotStored
<1>5. \A b \in gone : ~Holds(task'[t], b)
  <2> SUFFICES ASSUME NEW b \in gone, Holds(task'[t], b) PROVE FALSE
    OBVIOUS
  <2>1. Holding(task'[t]) /\ task'[t].entry # None /\ task'[t].entry.body = b
    BY DEF Holds
  <2>2. HeldFlow(t)
    BY DEF Flow
  <2>3. CASE Holding(task[t]) /\ task'[t].entry = task[t].entry
    BY <1>1, <1>2, <2>1, <2>3 DEF Holds
  <2>4. CASE FindsIt(t)
    <3>1. PICK i \in Tiers : Found(i) # None /\ task'[t].entry = Found(i)
      BY <2>4 DEF FindsIt
    <3>2. CASE i = L3
      BY <1>1, <1>2, <2>1, <3>1, <3>2, FoundIsEntry
    <3>3. CASE i # L3
      BY <1>1, <1>2, <2>1, <3>1, <3>3, FoundIsEntry
    <3>4. QED
      BY <3>2, <3>3
  <2>5. CASE FillsIt(t)
    BY <2>1, <2>5 DEF FillsIt, PurgeInv
  <2>6. QED
    BY <2>1, <2>2, <2>3, <2>4, <2>5 DEF HeldFlow
<1>6. \A u, b \in Tasks : Holds(task'[u], b) => b \notin gone
  BY <1>1, <1>5 DEF Flow
<1>7. QED
  BY <1>3, <1>4, <1>6 DEF PurgedIsGone

(* When a purge ends, what it has no note of is in no tier.                *)
LEMMA EndsPurgeStep ==
    ASSUME Typed, NEW t \in Tasks, Flow(t), PurgeInv, EndsPurge(t)
    PROVE  PurgedIsGone' /\ \A u \in gone' : task'[u].pc = "done"
<1>1. /\ task[t].pc = "purging" /\ task[t].tier = L3
      /\ gone' = gone \cup ({u \in Tasks : task[u].pc = "done"} \ spared[t])
      /\ mem' = mem /\ durable' = None
  BY DEF EndsPurge
<1>2. /\ \A u \in Tasks : u # t => task'[u] = task[u]
      /\ HeldFlow(t)
  BY DEF Flow
<1>3. Clears(t) /\ gone \subseteq Tasks
  BY <1>1 DEF PurgeInv, Typed, TypeOK
<1>4. \A i \in Caches : i < L3
  BY DEF Caches, L3
<1>5. \A b \in gone' :
        /\ \A u \in Tasks : ~Holds(task[u], b)
        /\ \A i \in Caches : mem[i] # None => mem[i].body # b
        /\ task[b].pc = "done" /\ b \in Tasks
  <2> SUFFICES ASSUME NEW b \in gone'
               PROVE  /\ \A u \in Tasks : ~Holds(task[u], b)
                      /\ \A i \in Caches : mem[i] # None => mem[i].body # b
                      /\ task[b].pc = "done" /\ b \in Tasks
    OBVIOUS
  <2>1. CASE b \in gone
    BY <1>3, <2>1 DEF PurgeInv, PurgedIsGone
  <2>2. CASE b \notin gone
    <3>1. b \in Tasks /\ task[b].pc = "done" /\ b \notin spared[t]
      BY <1>1, <2>2
    <3>2. QED
      BY <1>1, <1>3, <1>4, <3>1 DEF Clears
  <2>3. QED
    BY <2>1, <2>2
<1>6. ~Holding(task'[t])
  <2>1. task[t].pc \notin {"hit", "promoting", "writing", "finishing", "done",
                           "lookup", "idle", "served"}
    BY <1>1
  <2>2. QED
    BY <1>2, <2>1 DEF HeldFlow, Holding, FindsIt, FillsIt
<1>7. \A u, b \in Tasks : Holds(task'[u], b) => b \notin gone'
  BY <1>2, <1>5, <1>6 DEF Holds
<1>8. \A i \in Caches : mem'[i] # None => mem'[i].body \notin gone'
  BY <1>1, <1>5
<1>9. \A u \in gone' : task'[u].pc = "done"
  BY <1>1, <1>2, <1>5
<1>10. QED
  BY <1>1, <1>7, <1>8, <1>9 DEF PurgedIsGone

LEMMA PurgeInvStep ==
    ASSUME Typed, PurgeInv, [Next]_vars
    PROVE  PurgeInv'
<1>1. CASE \E t \in Tasks : Flow(t)
  <2>1. PICK t \in Tasks : Flow(t)
    BY <1>1
  <2>2. \A p \in Tasks : task'[p].pc = "purging" => Clears(p)'
    BY <2>1, ClearsStep DEF PurgeInv
  <2>3. CASE EndsPurge(t)
    BY <2>1, <2>2, <2>3, EndsPurgeStep DEF PurgeInv
  <2>4. CASE gone' = gone
    <3>1. PurgedIsGone'
      BY <2>1, <2>4, GoneStep
    <3>2. \A u \in gone' : task'[u].pc = "done"
      BY <2>1, <2>4 DEF Flow, PlaceFlow, PurgeInv, Typed, TypeOK
    <3>3. QED
      BY <2>2, <3>1, <3>2 DEF PurgeInv
  <2>5. QED
    BY <2>1, <2>3, <2>4 DEF Flow, PurgeFlow
<1>2. CASE UNCHANGED <<mem, durable, task, spared, gone>>
  BY <1>2 DEF PurgeInv, PurgedIsGone, Clears
<1>3. QED
  BY <1>1, <1>2, NextFlow

(* Once a purge that every tier answered is over, what it purged is never  *)
(* in a tier again and no call and no task comes to hold it, unless a call *)
(* or a task held it while the purge ran.                                  *)
THEOREM PurgesAreFinal == Spec => []PurgedIsGone
<1>1. Init => PurgeInv
  <2> SUFFICES ASSUME Init PROVE PurgeInv
    OBVIOUS
  <2>1. \A u \in Tasks : ~Holding(task[u]) /\ task[u].pc = "idle"
    BY CallAtIsGood DEF Init
  <2>2. QED
    BY <2>1 DEF Init, PurgeInv, PurgedIsGone, Holds
<1>2. Typed /\ PurgeInv /\ [Next]_vars => PurgeInv'
  BY PurgeInvStep
<1>3. PurgeInv => PurgedIsGone
  BY DEF PurgeInv
<1>4. QED
  BY <1>1, <1>2, <1>3, TypedInvariant, PTL DEF Spec
-----------------------------------------------------------------------------
(* Size gates.                                                             *)

LEMMA GateStep ==
    ASSUME Typed, NEW t \in Tasks, Flow(t), Typed', NEW i \in Caches,
           Arrives(i)
    PROVE  ByUnmeasuredHit(i)
<1>1. /\ mem'[i] # None /\ ~mem'[i].cut
      /\ Size[mem'[i].body] > MaxLen[i]
      /\ ~(TooLarge(i) /\ mem[i].body = mem'[i].body)
  BY DEF Arrives, TooLarge
<1>2. GoodCall(task[t], t) /\ MemFlow(t)
  BY DEF Typed, Flow
<1>3. /\ mem'[i].body \in Tasks
      /\ mem'[i].meta.content_length \in Nat \cup {None}
  <2>1. mem'[i] \in Entry
    BY <1>1 DEF Typed, TypeOK
  <2>2. QED
    BY <2>1 DEF Entry, Meta
<1>4. Size[mem'[i].body] \in Nat /\ MaxLen[i] \in Nat
  BY <1>3, ConstantsAssumption
<1>5. ~SameBody(mem[i], mem'[i])
  BY <1>1 DEF TooLarge, SameBody
<1>6. ~(/\ task[t].pc = "finishing"
        /\ i \in task[t].open
        /\ mem'[i].body = t
        /\ mem'[i].cut = (i \in task[t].missed))
  <2> SUFFICES ASSUME task[t].pc = "finishing", i \in task[t].open,
                      mem'[i].body = t,
                      mem'[i].cut = (i \in task[t].missed)
               PROVE  FALSE
    OBVIOUS
  <2>1. i \notin task[t].missed
    BY <1>1
  <2>2. Size[t] <= MaxLen[i]
    BY <1>2, <2>1 DEF GoodCall, GoodFill, IsFill
  <2>3. QED
    BY <1>1, <1>4, <2>2
<1>7. /\ IsHit(task[t]) /\ task[t].pc \in {"promoting", "done"}
      /\ i \in task[t].open
      /\ mem'[i] = task[t].entry
  BY <1>1, <1>2, <1>5, <1>6 DEF MemFlow
<1>8. /\ Admits(i, mem'[i].meta.content_length)
      /\ task[t].tier = L3 => mem'[i].meta.content_length # None
  BY <1>2, <1>7 DEF GoodCall, GoodHit
<1>9. mem'[i].meta.content_length # Size[mem'[i].body]
  BY <1>1, <1>3, <1>4, <1>8, ConstantsAssumption DEF Admits
<1>10. QED
  BY <1>7, <1>8, <1>9 DEF ByUnmeasuredHit

(* A tier gets a body that is too large for it only as the copy of a hit   *)
(* whose metadata does not tell its length.                                *)
THEOREM GatesHold == Spec => GateHolds
<1>1. Typed /\ Typed' /\ [Next]_vars
        => [\A i \in Caches : Arrives(i) => ByUnmeasuredHit(i)]_vars
  <2> SUFFICES ASSUME Typed, Typed', [Next]_vars,
                      NEW i \in Caches, Arrives(i)
               PROVE  ByUnmeasuredHit(i)
    OBVIOUS
  <2>1. CASE \E t \in Tasks : Flow(t)
    BY <2>1, GateStep
  <2>2. CASE UNCHANGED <<mem, durable, task, spared, gone>>
    BY <2>2 DEF Arrives, TooLarge
  <2>3. QED
    BY <2>1, <2>2, NextFlow
<1>2. QED
  BY <1>1, TypedInvariant, PTL DEF Spec, GateHolds
-----------------------------------------------------------------------------
(* Fills that fail.                                                        *)

(* What is to be known of the fill c of a body that is cut in some tier or *)
(* hit, when d is what L3 holds: it has missed L3 too, and if it is over   *)
(* and has stored its body there, the body is cut.                         *)
Accounted(c, d, b) ==
    /\ c.pc \in {"finishing", "done"}
    /\ c.pc = "finishing" => L3 \in c.missed
    /\ c.pc = "done" /\ d # None /\ d.body = b => d.cut

CutInv ==
    /\ durable # None => task[durable.body].pc = "done"
    /\ \A i \in Caches :
         mem[i] # None /\ mem[i].cut
           => Accounted(task[mem[i].body], durable, mem[i].body)
    /\ \A t \in Tasks :
         /\ Holding(task[t]) /\ task[t].entry # None /\ task[t].entry.cut
         => Accounted(task[task[t].entry.body], durable, task[t].entry.body)

LEMMA AccountedStep ==
    ASSUME Typed, NEW t \in Tasks, Flow(t), NEW b \in Tasks,
           durable # None => task[durable.body].pc = "done",
           Accounted(task[b], durable, b)
    PROVE  Accounted(task'[b], durable', b)
<1>1. /\ \A u \in Tasks : u # t => task'[u] = task[u]
      /\ DurableFlow(t) /\ PlaceFlow(t)
  BY DEF Flow
<1>2. CASE b # t
  <2>1. task'[b] = task[b]
    BY <1>1, <1>2
  <2>2. durable' # None /\ durable'.body = b => SameBody(durable, durable')
    BY <1>1, <1>2 DEF DurableFlow
  <2>3. QED
    BY <2>1, <2>2 DEF Accounted, SameBody
<1>3. CASE b = t
  <2>1. CASE task[t].pc = "done"
    <3>1. task'[t].pc = "done"
      BY <1>1, <2>1 DEF PlaceFlow
    <3>2. durable' # None => SameBody(durable, durable')
      BY <1>1, <2>1 DEF DurableFlow
    <3>3. QED
      BY <1>3, <2>1, <3>1, <3>2 DEF Accounted, SameBody
  <2>2. CASE task[t].pc = "finishing"
    <3>1. \/ task'[t].pc = "done"
          \/ task'[t].pc = "finishing" /\ task'[t].missed = task[t].missed
      BY <1>1, <2>2 DEF PlaceFlow
    <3>2. L3 \in task[t].missed
      BY <1>3, <2>2 DEF Accounted
    <3>3. durable' # None /\ durable'.body = t => durable'.cut
      BY <1>1, <2>2, <3>2 DEF DurableFlow, SameBody
    <3>4. QED
      BY <1>3, <3>1, <3>2, <3>3 DEF Accounted
  <2>3. QED
    BY <1>3, <2>1, <2>2 DEF Accounted
<1>4. QED
  BY <1>2, <1>3

LEMMA CutStep ==
    ASSUME Typed, Typed', NEW t \in Tasks, Flow(t), CutInv
    PROVE  CutInv'
<1>1. /\ \A u \in Tasks : u # t => task'[u] = task[u]
      /\ DurableFlow(t) /\ PlaceFlow(t) /\ MemFlow(t) /\ HeldFlow(t)
  BY DEF Flow
<1>2. /\ TypeOK /\ GoodCall(task[t], t) /\ task[t] \in CallState
      /\ durable # None => durable \in Durable /\ durable.body \in Tasks
  BY DEF Typed, TypeOK, Durable
<1>3. durable' # None => task'[durable'.body].pc = "done"
  BY <1>1, <1>2 DEF CutInv, DurableFlow, SameBody, PlaceFlow
<1>4. \A b \in Tasks : Accounted(task[b], durable, b)
                         => Accounted(task'[b], durable', b)
  BY AccountedStep DEF CutInv
<1>5. \A u \in Tasks : Holding(task[u]) /\ task[u].entry # None
        => task[u].entry.body \in Tasks
  BY DEF Typed, TypeOK, CallState, Entry
<1>6. \A i \in Caches : mem[i] # None => mem[i].body \in Tasks
  BY DEF Typed, TypeOK, Entry
<1>7. ASSUME NEW i \in Caches, mem'[i] # None, mem'[i].cut
      PROVE  Accounted(task'[mem'[i].body], durable', mem'[i].body)
  <2>1. CASE SameBody(mem[i], mem'[i])
    <3>1. /\ mem[i] # None /\ mem[i].cut /\ mem'[i].body = mem[i].body
      BY <1>7, <2>1 DEF SameBody
    <3>2. QED
      BY <1>4, <1>6, <3>1 DEF CutInv
  <2>2. CASE IsHit(task[t]) /\ mem'[i] = task[t].entry
    <3>1. Holding(task[t]) /\ task[t].entry # None /\ task[t].entry.cut
      BY <1>7, <2>2 DEF IsHit, Holding
    <3>2. QED
      BY <1>4, <1>5, <2>2, <3>1 DEF CutInv
  <2>3. CASE /\ task[t].pc = "finishing"
             /\ mem'[i].body = t
             /\ mem'[i].cut = (i \in task[t].missed)
    <3>1. L3 \in task[t].missed
      BY <1>2, <1>7, <2>3 DEF GoodCall, GoodFill, IsFill
    <3>2. ~(durable # None /\ durable.body = t)
      BY <2>3 DEF CutInv
    <3>3. Accounted(task[t], durable, t)
      BY <2>3, <3>1, <3>2 DEF Accounted
    <3>4. QED
      BY <1>4, <2>3, <3>3
  <2>4. QED
    BY <1>1, <1>7, <2>1, <2>2, <2>3 DEF MemFlow
<1>8. ASSUME NEW u \in Tasks, Holding(task'[u]), task'[u].entry # None,
             task'[u].entry.cut
      PROVE  Accounted(task'[task'[u].entry.body], durable',
                       task'[u].entry.body)
  <2>1. CASE Holding(task[u]) /\ task'[u].entry = task[u].entry
    BY <1>4, <1>5, <1>8, <2>1 DEF CutInv
  <2>2. CASE u = t /\ FindsIt(t)
    <3>1. PICK i \in Tiers : Found(i) # None /\ task'[t].entry = Found(i)
      BY <2>2 DEF FindsIt
    <3>2. CASE i # L3
      <4>1. i \in Caches /\ mem[i] # None /\ task'[t].entry = mem[i]
        BY <1>2, <3>1, <3>2, FoundIsEntry
      <4>2. QED
        BY <1>4, <1>6, <1>8, <2>2, <4>1 DEF CutInv
    <3>3. CASE i = L3
      <4>1. /\ durable # None /\ task'[t].entry.body = durable.body
            /\ task'[t].entry.cut = durable.cut
        BY <1>2, <3>1, <3>3, FoundIsEntry
      <4>2. Accounted(task[durable.body], durable, durable.body)
        BY <1>8, <2>2, <4>1 DEF Accounted, CutInv
      <4>3. QED
        BY <1>2, <1>4, <2>2, <4>1, <4>2
    <3>4. QED
      BY <3>2, <3>3
  <2>3. CASE u = t /\ FillsIt(t)
    BY <1>8, <2>3 DEF FillsIt
  <2>4. QED
    BY <1>1, <1>8, <2>1, <2>2, <2>3 DEF HeldFlow
<1>9. QED
  BY <1>3, <1>7, <1>8 DEF CutInv

(* A chunk that a fill left out of its body in a tier above L3, because a  *)
(* tier failed to write it or because the caller finished early, it left   *)
(* out of the body in L3 too.                                              *)
THEOREM FillsFailDownwards == Spec => []CutAboveIsCutBelow
<1>1. Init => CutInv
  <2> SUFFICES ASSUME Init PROVE CutInv
    OBVIOUS
  <2>1. \A u \in Tasks : ~Holding(task[u])
    BY CallAtIsGood DEF Init
  <2>2. QED
    BY <2>1 DEF Init, CutInv
<1>2. Typed /\ Typed' /\ CutInv /\ [Next]_vars => CutInv'
  <2> SUFFICES ASSUME Typed, Typed', CutInv, [Next]_vars PROVE CutInv'
    OBVIOUS
  <2>1. CASE \E t \in Tasks : Flow(t)
    BY <2>1, CutStep
  <2>2. CASE UNCHANGED <<mem, durable, task, spared, gone>>
    BY <2>2 DEF CutInv
  <2>3. QED
    BY <2>1, <2>2, NextFlow
<1>3. CutInv => CutAboveIsCutBelow
  BY DEF CutInv, CutAboveIsCutBelow, Accounted
<1>4. QED
  BY <1>1, <1>2, <1>3, TypedInvariant, PTL DEF Spec
=============================================================================
