---------------------------- MODULE ProxyRequest ----------------------------
(***************************************************************************)
(* Requests for one key at the proxy (request_filter and CacheDecision of  *)
(* src/src/proxy.rs) over a MultiTier whose hits are promoted as they are  *)
(* read (src/src/storage/multi_tier.rs).                                   *)
(*                                                                         *)
(* request_filter may be suspended at its awaits: the lookup, each write   *)
(* to the client, each read of the hit, the finish of the hit.  What lies  *)
(* between two of them is a step; so is what a promotion task does.        *)
(* Beside the requests, responses of the origin are stored, expire, and    *)
(* are purged; those calls are one step here, and MultiTier and            *)
(* DurableTier have their interleavings.                                   *)
(*                                                                         *)
(* A response is a model value: it stands for its metadata, which declares *)
(* its length, and its body is the sequence of its chunks.                 *)
(***************************************************************************)
EXTENDS Naturals, Sequences

CONSTANTS
    Requests,     \* request_filter calls
    Responses,    \* responses the origin gives over time
    None,         \* Rust's None
    Length,       \* number of chunks of each response's body
    ETags,        \* ETag of each response, or None
    LastModified, \* Last-Modified of each response, or None
    Expiring,     \* responses with a time to live
    Kinds,        \* method and headers of the requests that arrive
    Strict,       \* CacheProxyConfig.strict_client_no_cache
    Present,      \* the tiers above L3 that are configured
    MaxLen,       \* policy: l0_max, l1_max, l2_max
    Promotes,     \* policy: <<from, to>> with promotion on stream
    Capacity,     \* of the channel to a promotion task
    Rivals,       \* responses whose fill may come second to another's
    Failing,      \* tiers that may fail to finish a fill, or to purge
    Faulty        \* may a tier, or the client's connection, fail a request?

Methods == {"GET", "HEAD", "POST"}

L3 == 3
Caches == 0 .. 2
Tiers == 0 .. L3

ASSUME ConstantsAssumption ==
    /\ Length \in [Responses -> Nat]
    /\ LastModified \in [Responses -> Nat \cup {None}]
    /\ \A k \in Kinds : k.method \in Methods /\ k.no_cache \in BOOLEAN
    /\ Present \subseteq Caches
    /\ MaxLen \in [Caches -> Nat]
    /\ Promotes \subseteq Tiers \X Caches
    /\ Capacity \in Nat \ {0}
    /\ {Expiring, Rivals} \subseteq SUBSET Responses
    /\ Failing \subseteq Tiers
    /\ {Strict, Faulty} \subseteq BOOLEAN
    /\ None \notin Nat \cup Responses

Body(r) == [i \in 1 .. Length[r] |-> <<r, i>>]

Chunks == Responses \X Nat

(* What a tier stores: the metadata of a response and a body.              *)
Entry == [meta : Responses, body : Seq(Chunks)]

(* A HitHandler: the body it was given, how far it has been read, the      *)
(* buffer of L0's miss handler if the hit is to be promoted there, and the *)
(* tiers for which it will spawn a promotion task.                         *)
Hit == [meta   : Responses,
        body   : Seq(Chunks),
        cursor : Nat,
        buf    : Seq(Chunks) \cup {None},
        lazy   : SUBSET {1, 2}]

ASSUME NoneAssumption == None \notin Entry \cup Hit \cup Seq(Chunks)

VARIABLES
    tier,     \* L0, L1, L2, L3: Entry or None
    expired,  \* responses whose expires_at has passed
    cut,      \* history: responses that some promotion left chunks out of
    mixed,    \* history: responses over whose body another was written
    req       \* local state of each request_filter, and what its client got

vars == <<tier, expired, cut, mixed, req>>

(* Where a request stands; "origin" is Ok(false), "served" is Ok(true).    *)
Places == {"idle", "lookup", "headers", "body", "write", "finish", "join",
           "cleanup", "not_modified", "served", "origin", "error"}

Statuses == {0, 200, 304}

(* hit: the handler in use; tasks: what the tasks that promote it to L1    *)
(* and L2 have been sent; chunk: the one being written; stale: of which    *)
(* response stale_meta and an unread stale_hit are left in RequestCtx;     *)
(* status, meta, body: the response as the client got it.                  *)
RequestState ==
    [pc        : Places,
     kind      : Kinds \cup {None},
     hit       : Hit \cup {None},
     tasks     : [{1, 2} -> Seq(Chunks) \cup {None}],
     chunk     : Chunks \cup {None},
     stale     : Responses \cup {None},
     status    : Statuses,
     meta      : Responses \cup {None},
     body      : Seq(Chunks)]

NoTasks == [j \in {1, 2} |-> None]

TypeOK ==
    /\ tier \in [Tiers -> Entry \cup {None}]
    /\ {expired, cut, mixed} \subseteq SUBSET Responses
    /\ req \in [Requests -> RequestState]

Init ==
    /\ tier = [i \in Tiers |-> None]
    /\ expired = {}
    /\ cut = {}
    /\ mixed = {}
    /\ req = [q \in Requests |->
                [pc |-> "idle", kind |-> None, hit |-> None,
                 tasks |-> NoTasks, chunk |-> None, stale |-> None,
                 status |-> 0, meta |-> None, body |-> <<>>]]
-----------------------------------------------------------------------------
(* The tiers.                                                              *)

Admits(i, r) == i \in Present /\ Length[r] <= MaxLen[i]

(* A fill that L3 accepts.  A tier that fails here, or in a purge, is      *)
(* passed over and keeps what it has.                                      *)
Store(r) ==
    /\ r \notin expired
    /\ \E failed \in SUBSET Failing :
         tier' = [i \in Tiers |-> IF (i = L3 \/ Admits(i, r)) /\ i \notin failed
                                 THEN [meta |-> r, body |-> Body(r)]
                                 ELSE tier[i]]
    /\ UNCHANGED <<expired, cut, mixed, req>>

(* A fill that expects no entry in L3 and finds one: the body is written,  *)
(* the manifest is not.                                                    *)
StoreLoses(r) ==
    /\ r \in Rivals \ expired
    /\ tier[L3] # None
    /\ tier[L3].meta # r
    /\ \E failed \in SUBSET Failing :
         tier' = [i \in Tiers |->
                   IF i = L3 THEN [tier[L3] EXCEPT !.body = Body(r)]
                   ELSE IF Admits(i, r) /\ i \notin failed
                     THEN [meta |-> r, body |-> Body(r)]
                   ELSE tier[i]]
    /\ mixed' = mixed \cup {tier[L3].meta}
    /\ UNCHANGED <<expired, cut, req>>

Purge ==
    /\ \E failed \in SUBSET Failing :
         tier' = [i \in Tiers |-> IF i \in failed THEN tier[i] ELSE None]
    /\ UNCHANGED <<expired, cut, mixed, req>>

Expire(r) ==
    /\ r \in Expiring
    /\ expired' = expired \cup {r}
    /\ UNCHANGED <<tier, cut, mixed, req>>

(* A hit in tier i has a copy of the body, and is wrapped for the tiers    *)
(* above that it is to be promoted to.                                     *)
NewHit(i) ==
    LET e  == tier[i]
        to == {j \in Caches : /\ j < i
                              /\ <<i, j>> \in Promotes
                              /\ Admits(j, e.meta)}
    IN [meta |-> e.meta, body |-> e.body, cursor |-> 0,
        buf |-> IF 0 \in to THEN <<>> ELSE None, lazy |-> to \ {0}]

(* MultiTier::lookup: the uppermost tier answers, and only L0 says Stale.  *)
LookupResult ==
    IF \A i \in Tiers : tier[i] = None THEN [state |-> "miss", hit |-> None]
    ELSE LET i == CHOOSE i \in Tiers : /\ tier[i] # None
                                       /\ \A j \in 0 .. i - 1 : tier[j] = None
         IN [state |-> IF i = 0 /\ tier[i].meta \in expired
                       THEN "stale" ELSE "fresh",
             hit |-> NewHit(i)]
-----------------------------------------------------------------------------
(* CacheDecision::from_lookup for a fresh hit.  If-None-Match is a set of  *)
(* tags, and `*` the set of all; a date that cannot be parsed is None.     *)

ETagMatches(kind, r) ==
    /\ kind.if_none_match # None
    /\ ETags[r] # None
    /\ ETags[r] \in kind.if_none_match

NotModifiedSince(kind, r) ==
    /\ kind.if_modified_since # None
    /\ LastModified[r] # None
    /\ LastModified[r] <= kind.if_modified_since

NotModified(kind, r) == ETagMatches(kind, r) \/ NotModifiedSince(kind, r)

NoCache(kind) == Strict /\ kind.no_cache
-----------------------------------------------------------------------------
(* request_filter up to its decision.                                      *)

(* Only GET and HEAD are looked up.                                        *)
Start(q) ==
    /\ req[q].pc = "idle"
    /\ \E k \in Kinds :
         req' = [req EXCEPT ![q] =
                 [@ EXCEPT !.kind = k,
                           !.pc = IF k.method \in {"GET", "HEAD"}
                                    THEN "lookup" ELSE "origin"]]
    /\ UNCHANGED <<tier, expired, cut, mixed>>

Miss(q) ==
    /\ req[q].pc = "lookup"
    /\ LookupResult.state = "miss"
    /\ req' = [req EXCEPT ![q] = [@ EXCEPT !.pc = "origin"]]
    /\ UNCHANGED <<tier, expired, cut, mixed>>

(* A stale hit, and any hit of a client that wants no cached response, is  *)
(* left in the context for stale-if-error.                                 *)
KeepForOrigin(q) ==
    LET res == LookupResult IN
    /\ req[q].pc = "lookup"
    /\ \/ res.state = "stale"
       \/ res.state = "fresh" /\ NoCache(req[q].kind)
    /\ req' = [req EXCEPT ![q] =
                 [@ EXCEPT !.pc = "origin", !.stale = res.hit.meta]]
    /\ UNCHANGED <<tier, expired, cut, mixed>>

DecideNotModified(q) ==
    LET res == LookupResult IN
    /\ req[q].pc = "lookup"
    /\ res.state = "fresh"
    /\ ~NoCache(req[q].kind)
    /\ NotModified(req[q].kind, res.hit.meta)
    /\ req' = [req EXCEPT ![q] = [@ EXCEPT !.pc = "cleanup", !.hit = res.hit]]
    /\ UNCHANGED <<tier, expired, cut, mixed>>

DecideServe(q) ==
    LET res == LookupResult IN
    /\ req[q].pc = "lookup"
    /\ res.state = "fresh"
    /\ ~NoCache(req[q].kind)
    /\ ~NotModified(req[q].kind, res.hit.meta)
    /\ req' = [req EXCEPT ![q] = [@ EXCEPT !.pc = "headers", !.hit = res.hit]]
    /\ UNCHANGED <<tier, expired, cut, mixed>>

(* The lookup, or building a hit for L0, fails.                            *)
LookupFails(q) ==
    /\ Faulty
    /\ req[q].pc = "lookup"
    /\ req' = [req EXCEPT ![q] = [@ EXCEPT !.pc = "error"]]
    /\ UNCHANGED <<tier, expired, cut, mixed>>
-----------------------------------------------------------------------------
(* ServeFromCache.                                                         *)

(* Mutant of WriteHeaders: a HEAD request is answered as having no content.*)
WriteHeadersNoContent(q) ==
    LET head == req[q].kind.method = "HEAD" IN
    /\ req[q].pc = "headers"
    /\ req' = [req EXCEPT ![q] =
                 [@ EXCEPT !.pc = IF head THEN "finish" ELSE "body",
                           !.status = IF head THEN 204 ELSE 200,
                           !.meta = req[q].hit.meta]]
    /\ UNCHANGED <<tier, expired, cut, mixed>>

(* A HEAD request ends with its headers, and the hit stays unread.         *)
WriteHeaders(q) ==
    LET head == req[q].kind.method = "HEAD" IN
    /\ req[q].pc = "headers"
    /\ req' = [req EXCEPT ![q] =
                 [@ EXCEPT !.pc = IF head THEN "finish" ELSE "body",
                           !.status = 200,
                           !.meta = req[q].hit.meta]]
    /\ UNCHANGED <<tier, expired, cut, mixed>>

(* What a chunk that has been read leaves to be dropped with the hit: the  *)
(* tasks are left without the rest.                                        *)
Deprives(tasks, h, n) ==
    IF n < Len(h.body) /\ tasks # NoTasks THEN {h.meta} ELSE {}

(* Mutant of ReadChunk: the chunk comes from what L3 holds now.            *)
ReadChunkOfTier(q) ==
    LET h == req[q].hit
        c == IF tier[L3] # None /\ h.cursor < Len(tier[L3].body)
             THEN tier[L3].body[h.cursor + 1] ELSE h.body[h.cursor + 1]
    IN
    /\ req[q].pc = "body"
    /\ h.cursor < Len(h.body)
    /\ req' = [req EXCEPT ![q] =
                 [@ EXCEPT !.pc = "write", !.chunk = c,
                           !.hit.cursor = h.cursor + 1]]
    /\ UNCHANGED <<tier, expired, cut, mixed>>

(* read_body: the chunk goes to L0's miss handler, whose error is ignored, *)
(* and to the tasks, which the first chunk spawns.  A channel may refuse a *)
(* chunk when Capacity others were sent before.                            *)
ReadChunk(q) ==
    LET h == req[q].hit
        n == h.cursor + 1
        c == h.body[n]
        tasks == IF h.cursor > 0 THEN req[q].tasks
                 ELSE [j \in {1, 2} |-> IF j \in h.lazy THEN <<>> ELSE None]
        running == {j \in {1, 2} : tasks[j] # None}
    IN
    /\ req[q].pc = "body"
    /\ h.cursor < Len(h.body)
    /\ \E skip0 \in {FALSE, Faulty /\ h.buf # None},
          skip \in SUBSET (IF n > Capacity THEN running ELSE {}) :
         /\ req' = [req EXCEPT ![q] =
                      [@ EXCEPT !.pc = "write", !.chunk = c,
                                !.hit = [h EXCEPT
                                   !.cursor = n,
                                   !.buf = IF h.buf = None \/ skip0 THEN @
                                           ELSE Append(h.buf, c)],
                                !.tasks = [j \in {1, 2} |->
                                   IF j \in running \ skip
                                   THEN Append(tasks[j], c) ELSE tasks[j]]]]
         /\ cut' = cut \cup (IF skip0 \/ skip # {} THEN {h.meta} ELSE {})
    /\ UNCHANGED <<tier, expired, mixed>>

WriteChunk(q) ==
    /\ req[q].pc = "write"
    /\ req' = [req EXCEPT ![q] =
                 [@ EXCEPT !.pc = "body",
                           !.body = Append(req[q].body, req[q].chunk),
                           !.chunk = None]]
    /\ UNCHANGED <<tier, expired, cut, mixed>>

(* The hit answers None and the end of the body is written.                *)
WriteEnd(q) ==
    /\ req[q].pc = "body"
    /\ req[q].hit.cursor = Len(req[q].hit.body)
    /\ req' = [req EXCEPT ![q] = [@ EXCEPT !.pc = "finish"]]
    /\ UNCHANGED <<tier, expired, cut, mixed>>

(* Mutant of ReadFails: on an error of the cache the origin is asked.      *)
ReadFailsOver(q) ==
    /\ Faulty
    /\ req[q].pc = "body"
    /\ req' = [req EXCEPT ![q] = [@ EXCEPT !.pc = "origin", !.hit = None]]
    /\ UNCHANGED <<tier, expired, cut, mixed>>

(* Mutant of ReadFails: on an error of the cache the lookup is repeated.   *)
ReadFailsRetries(q) ==
    /\ Faulty
    /\ req[q].pc = "body"
    /\ req' = [req EXCEPT ![q] = [@ EXCEPT !.pc = "lookup", !.hit = None]]
    /\ UNCHANGED <<tier, expired, cut, mixed>>

(* The hit is dropped, with what L0's handler has, and the request fails;  *)
(* the tasks go on.                                                        *)
Drop(q, tasks, n) ==
    /\ req' = [req EXCEPT ![q] =
                 [@ EXCEPT !.pc = "error", !.hit = None, !.chunk = None,
                           !.tasks = tasks]]
    /\ cut' = cut \cup Deprives(tasks, req[q].hit, n)
    /\ UNCHANGED <<tier, expired, mixed>>

ReadFails(q) ==
    /\ Faulty
    /\ req[q].pc = "body"
    /\ Drop(q, req[q].tasks, req[q].hit.cursor)

(* The first chunk is read, but tier j opens no handler for it; a tier     *)
(* above has a task with the chunk by then.                                *)
SpawnFails(q) ==
    LET h == req[q].hit IN
    /\ Faulty
    /\ req[q].pc = "body"
    /\ h.cursor = 0
    /\ Len(h.body) > 0
    /\ h.lazy # {}
    /\ \E j \in h.lazy :
         Drop(q, [i \in {1, 2} |-> IF i \in h.lazy /\ i < j
                                  THEN <<h.body[1]>> ELSE None], 1)

(* Mutant of WriteFails: the hit is finished also when the client is gone. *)
WriteFailsAndFinishes(q) ==
    LET h == req[q].hit IN
    /\ Faulty
    /\ req[q].pc \in {"headers", "write"}
    /\ tier' = IF h.buf = None THEN tier
               ELSE [tier EXCEPT ![0] = [meta |-> h.meta, body |-> h.buf]]
    /\ req' = [req EXCEPT ![q] =
                 [@ EXCEPT !.pc = "error", !.hit = None, !.chunk = None]]
    /\ UNCHANGED <<expired, cut, mixed>>

(* The client is gone when headers, a chunk, or the end are written.       *)
WriteFails(q) ==
    /\ Faulty
    /\ \/ req[q].pc \in {"headers", "write"}
       \/ /\ req[q].pc = "body"
          /\ req[q].hit.cursor = Len(req[q].hit.body)
    /\ Drop(q, req[q].tasks, req[q].hit.cursor)
-----------------------------------------------------------------------------
(* finish of the hit, whose result is ignored: at the end of a 200, and    *)
(* before the headers of a 304.                                            *)

Finish(q) ==
    /\ req[q].pc = "finish"
    /\ req' = [req EXCEPT ![q].pc = "join"]
    /\ UNCHANGED <<tier, expired, cut, mixed>>

(* The tier's own hit does not finish: the wrapper is dropped.             *)
FinishFails(q) ==
    /\ Faulty
    /\ req[q].pc = "finish"
    /\ req' = [req EXCEPT ![q] = [@ EXCEPT !.pc = "served", !.hit = None]]
    /\ UNCHANGED <<tier, expired, cut, mixed>>

(* Mutant of TaskCommits: a task does not wait for the end of the channel. *)
TaskCommitsEarly(q, j) ==
    /\ req[q].tasks[j] # None
    /\ tier' = [tier EXCEPT ![j] = [meta |-> req[q].meta,
                                    body |-> req[q].tasks[j]]]
    /\ req' = [req EXCEPT ![q].tasks[j] = None]
    /\ UNCHANGED <<expired, cut, mixed>>

(* A task commits what it was sent when its sender is gone: finish drops   *)
(* L1's and waits for that task, then L2's; a hit drops both.              *)
TaskCommits(q, j) ==
    /\ req[q].tasks[j] # None
    /\ \/ req[q].hit = None
       \/ req[q].pc = "join" /\ (j = 2 => req[q].tasks[1] = None)
    /\ tier' = [tier EXCEPT ![j] = [meta |-> req[q].meta,
                                    body |-> req[q].tasks[j]]]
    /\ req' = [req EXCEPT ![q].tasks[j] = None]
    /\ UNCHANGED <<expired, cut, mixed>>

(* A tier fails to write a chunk, or to commit: the task ends.             *)
TaskFails(q, j) ==
    /\ Faulty
    /\ req[q].tasks[j] # None
    /\ req' = [req EXCEPT ![q].tasks[j] = None]
    /\ UNCHANGED <<tier, expired, cut, mixed>>

CommitL0(h) ==
    \/ /\ tier' = IF h.buf = None THEN tier
                  ELSE [tier EXCEPT ![0] = [meta |-> h.meta, body |-> h.buf]]
       /\ cut' = cut \cup (IF h.buf # None /\ h.cursor < Len(h.body)
                           THEN {h.meta} ELSE {})
    \/ /\ Faulty
       /\ UNCHANGED <<tier, cut>>

Served(q) ==
    /\ req[q].pc = "join"
    /\ req[q].tasks = NoTasks
    /\ CommitL0(req[q].hit)
    /\ req' = [req EXCEPT ![q] = [@ EXCEPT !.pc = "served", !.hit = None]]
    /\ UNCHANGED <<expired, mixed>>

(* An unread hit has no tasks.                                             *)
Cleanup(q) ==
    /\ req[q].pc = "cleanup"
    /\ CommitL0(req[q].hit)
    /\ req' = [req EXCEPT ![q] =
                 [@ EXCEPT !.pc = "not_modified", !.hit = None,
                           !.meta = req[q].hit.meta]]
    /\ UNCHANGED <<expired, mixed>>

WriteNotModified(q) ==
    /\ req[q].pc = "not_modified"
    /\ req' = [req EXCEPT ![q] =
                 [@ EXCEPT !.pc = "served", !.status = 304]]
    /\ UNCHANGED <<tier, expired, cut, mixed>>

NotModifiedFails(q) ==
    /\ Faulty
    /\ req[q].pc = "not_modified"
    /\ req' = [req EXCEPT ![q] = [@ EXCEPT !.pc = "error"]]
    /\ UNCHANGED <<tier, expired, cut, mixed>>
-----------------------------------------------------------------------------
Storage == \/ Purge
           \/ \E r \in Responses : Store(r) \/ StoreLoses(r) \/ Expire(r)

RequestFilter(q) ==
    \/ Start(q) \/ Miss(q) \/ KeepForOrigin(q) \/ DecideNotModified(q)
    \/ DecideServe(q) \/ LookupFails(q)
    \/ WriteHeaders(q) \/ ReadChunk(q) \/ WriteChunk(q) \/ WriteEnd(q)
    \/ ReadFails(q) \/ SpawnFails(q) \/ WriteFails(q)
    \/ Finish(q) \/ FinishFails(q) \/ Served(q)
    \/ (\E j \in {1, 2} : TaskCommits(q, j) \/ TaskFails(q, j))
    \/ Cleanup(q) \/ WriteNotModified(q) \/ NotModifiedFails(q)

Next == Storage \/ \E q \in Requests : RequestFilter(q)

Spec == Init /\ [][Next]_vars
-----------------------------------------------------------------------------
(* Properties.                                                             *)

(* When request_filter answers Ok(false) and Pingora goes to the origin,   *)
(* nothing has been written to the client, and no handler and no task is   *)
(* left behind in the middle of a body.                                    *)
OriginGetsUntouchedResponse ==
    \A q \in Requests :
        req[q].pc = "origin" =>
            /\ req[q].status = 0
            /\ req[q].body = <<>>
            /\ req[q].hit = None
            /\ req[q].tasks = NoTasks

OfOneResponse(b) ==
    \A i, j \in DOMAIN b : /\ b[i][1] = b[j][1]
                            /\ i < j => b[i][2] < b[j][2]

(* What a client gets is of one response, in order and nothing twice,      *)
(* whatever is stored, promoted or purged while it reads and whatever the  *)
(* tiers were left with; and it is of the response whose headers it got,   *)
(* unless L3 let a fill write another body under those.                    *)
BodyBelongsToHeaders ==
    \A q \in Requests :
        /\ req[q].body # <<>> => req[q].status = 200
        /\ OfOneResponse(req[q].body)
        /\ \A i \in DOMAIN req[q].body :
             req[q].meta \notin mixed => req[q].body[i][1] = req[q].meta

(* Every GET that was answered from the cache to its end got the whole     *)
(* body, unless before it a hit on that response was finished unread (by   *)
(* HEAD or 304) or dropped half read while tasks promoted it, a full       *)
(* channel refused one of its chunks or L0 failed to write one: other      *)
(* requests, other failures, stores and purges leave nothing short behind  *)
(* for the next request.                                                   *)
ServedIsWhole ==
    \A q \in Requests :
        /\ req[q].pc = "served"
        /\ req[q].status = 200
        /\ req[q].kind.method = "GET"
        /\ req[q].meta \notin cut \cup mixed
        => req[q].body = Body(req[q].meta)
-----------------------------------------------------------------------------
(* What clients are promised: the contract of ClientExchange.              *)

Outcome(pc) == CASE pc = "idle" -> "none"
                 [] pc \in {"origin", "served", "error"} -> pc
                 [] OTHER -> "open"

(* What a request looks like from outside.                                 *)
Seen(r) == [outcome |-> Outcome(r.pc), kind |-> r.kind, status |-> r.status,
            of |-> IF r.status = 0 THEN None ELSE r.meta, body |-> r.body]

Exchange == INSTANCE ClientExchange
              WITH exchange <- [q \in Requests |-> Seen(req[q])]

(* Whatever is stored, promoted, purged or fails meanwhile, a client sees  *)
(* the steps of the contract: one answer, begun once, continued in order   *)
(* and ended whole, as far as the tiers have it whole; none from the cache *)
(* if it wants none; Not Modified by the rule of the documentation, but    *)
(* for a request with both validators.                                     *)
ExchangeSpec == Exchange!Spec
=============================================================================
