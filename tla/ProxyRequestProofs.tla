------------------------- MODULE ProxyRequestProofs -------------------------
(***************************************************************************)
(* Proofs about ProxyRequest, for any number of requests and responses,    *)
(* bodies of every length, any headers, any tiers and any policy.          *)
(***************************************************************************)
EXTENDS ProxyRequest, SequenceTheorems, TLAPS

(* Chunks of s in their order, none twice.                                 *)
Excerpt(b, s) ==
    /\ b \in Seq(Chunks)
    /\ \A i \in 1 .. Len(b) : b[i][1] = s /\ b[i][2] \in 1 .. Length[s]
    /\ \A i, j \in 1 .. Len(b) : i < j => b[i][2] < b[j][2]

(* What may be under the metadata of r.                                    *)
Sound(b, r, m) ==
    \E s \in Responses : /\ r \notin m => s = r
                         /\ Excerpt(b, s)

(* It is all of the body, but for the responses of the histories.          *)
GoodCopy(b, r, c, m) ==
    /\ Sound(b, r, m)
    /\ r \notin c \cup m => b = Body(r)

(* x is made of some of the first n chunks of b, in their order.           *)
Picked(x, b, n) ==
    /\ x \in Seq(Chunks)
    /\ \A i \in 1 .. Len(x) : \E k \in 1 .. n : x[i] = b[k]
    /\ \A i, j \in 1 .. Len(x) : i < j => x[i][2] < x[j][2]

(* x is the first n chunks of b.                                           *)
Same(x, b, n) ==
    /\ x \in Seq(Chunks)
    /\ Len(x) = n
    /\ \A i \in 1 .. n : x[i] = b[i]

(* What a promotion to some tier has of the first n chunks of b.           *)
Copies(x, b, n, r, c, m) ==
    /\ Picked(x, b, n)
    /\ r \notin c \cup m => Same(x, b, n)

GoodHit(h, c, m) ==
    /\ GoodCopy(h.body, h.meta, c, m)
    /\ h.cursor <= Len(h.body)
    /\ h.buf # None => Copies(h.buf, h.body, h.cursor, h.meta, c, m)

(* A task follows the hit, and has the rest of its life what it has when   *)
(* the hit is dropped.                                                     *)
GoodTasks(r, c, m) ==
    \A j \in {1, 2} :
        r.tasks[j] # None =>
            IF r.hit = None THEN GoodCopy(r.tasks[j], r.meta, c, m)
            ELSE Copies(r.tasks[j], r.hit.body, r.hit.cursor, r.hit.meta, c, m)

(* Where the request stands with its hit.                                  *)
GoodStage(r) ==
    /\ r.pc \in {"headers", "body", "write", "finish", "join", "cleanup"}
         <=> r.hit # None
    /\ r.pc \in {"idle", "lookup", "headers", "cleanup", "not_modified",
                 "origin"} => r.status = 0
    /\ r.pc \in {"body", "write", "finish", "join"}
         => r.status = 200 /\ r.meta = r.hit.meta
    /\ r.status = 200 => r.meta \in Responses
    /\ r.status # 200 => r.body = <<>> /\ r.tasks = NoTasks
    /\ r.pc \in {"headers", "cleanup"} => r.hit.cursor = 0
    /\ r.pc \in {"finish", "join"}
         => r.tasks = NoTasks \/ r.hit.cursor = Len(r.hit.body)

(* What its client has.                                                    *)
GoodClient(r, c, m) ==
    /\ r.status = 200 => Sound(r.body, r.meta, m)
    /\ r.pc = "body" => Same(r.body, r.hit.body, r.hit.cursor)
    /\ r.pc = "write" => /\ r.hit.cursor > 0
                         /\ Same(r.body, r.hit.body, r.hit.cursor - 1)
                         /\ r.chunk = r.hit.body[r.hit.cursor]
    /\ r.pc \in {"finish", "join"} /\ r.kind.method = "GET"
         => r.body = r.hit.body
    /\ r.pc = "served" /\ r.status = 200 /\ r.kind.method = "GET"
         => (r.meta \notin c \cup m => r.body = Body(r.meta))

GoodRequest(r, c, m) ==
    /\ r.hit # None => GoodHit(r.hit, c, m)
    /\ GoodTasks(r, c, m)
    /\ GoodStage(r)
    /\ GoodClient(r, c, m)

GoodEntry(e, c, m) == e # None => GoodCopy(e.body, e.meta, c, m)

GoodTiers(t, c, m) == \A i \in Tiers : GoodEntry(t[i], c, m)

Inv ==
    /\ TypeOK
    /\ GoodTiers(tier, cut, mixed)
    /\ \A q \in Requests : GoodRequest(req[q], cut, mixed)
-----------------------------------------------------------------------------
(* Bodies and copies.                                                      *)

(* The body of a response.                                                 *)
LEMMA BodyIsExcerpt ==
    ASSUME NEW r \in Responses
    PROVE  Body(r) \in Seq(Chunks) /\ Excerpt(Body(r), r)
<1>1. Length[r] \in Nat
  BY ConstantsAssumption
<1>2. \A i \in 1 .. Length[r] : <<r, i>> \in Chunks
  BY <1>1 DEF Chunks
<1>3. Body(r) \in Seq(Chunks) /\ Len(Body(r)) = Length[r]
  BY <1>1, <1>2 DEF Body
<1>4. \A i \in 1 .. Length[r] : Body(r)[i] = <<r, i>>
  BY DEF Body
<1>5. \A i \in 1 .. Length[r] : Body(r)[i][1] = r /\ Body(r)[i][2] = i
  BY <1>4
<1>6. QED
  BY <1>1, <1>3, <1>5 DEF Excerpt

LEMMA BodyIsGood ==
    ASSUME NEW r \in Responses, NEW c, NEW m
    PROVE  GoodCopy(Body(r), r, c, m)
BY BodyIsExcerpt DEF GoodCopy, Sound

(* The histories only weaken what is asked.                                *)
LEMMA GoodCopyStays ==
    ASSUME NEW b, NEW r, NEW c, NEW m, NEW d, NEW n, c \subseteq d,
           m \subseteq n, GoodCopy(b, r, c, m)
    PROVE  GoodCopy(b, r, d, n)
BY DEF GoodCopy, Sound

LEMMA CopiesStays ==
    ASSUME NEW x, NEW b, NEW k, NEW r, NEW c, NEW m, NEW d, NEW n,
           c \subseteq d, m \subseteq n, Copies(x, b, k, r, c, m)
    PROVE  Copies(x, b, k, r, d, n)
BY DEF Copies

LEMMA GoodHitStays ==
    ASSUME NEW h, NEW c, NEW m, NEW d, NEW n, c \subseteq d,
           m \subseteq n, GoodHit(h, c, m)
    PROVE  GoodHit(h, d, n)
BY GoodCopyStays, CopiesStays DEF GoodHit

LEMMA GoodTasksStay ==
    ASSUME NEW r, NEW c, NEW m, NEW d, NEW n, c \subseteq d,
           m \subseteq n, GoodTasks(r, c, m)
    PROVE  GoodTasks(r, d, n)
BY GoodCopyStays, CopiesStays DEF GoodTasks

LEMMA GoodRequestStays ==
    ASSUME NEW r, NEW c, NEW m, NEW d, NEW n, c \subseteq d,
           m \subseteq n, GoodRequest(r, c, m)
    PROVE  GoodRequest(r, d, n)
<1>1. r.hit # None => GoodHit(r.hit, d, n)
  BY GoodHitStays DEF GoodRequest
<1>2. GoodTasks(r, d, n)
  BY GoodTasksStay DEF GoodRequest
<1>3. GoodClient(r, d, n)
  BY DEF GoodRequest, GoodClient, Sound
<1>4. QED
  BY <1>1, <1>2, <1>3 DEF GoodRequest

(* The copy that is begun is of nothing.                                   *)
LEMMA CopyBegins ==
    ASSUME NEW b, NEW r, NEW c, NEW m
    PROVE  Copies(<<>>, b, 0, r, c, m)
BY DEF Copies, Picked, Same

(* It grows by the next chunk...                                           *)
LEMMA CopyGrows ==
    ASSUME NEW x, NEW b, NEW n \in Nat, NEW r, NEW c, NEW m,
           Sound(b, r, m), n < Len(b), Copies(x, b, n, r, c, m)
    PROVE  Copies(Append(x, b[n + 1]), b, n + 1, r, c, m)
<1> DEFINE y == Append(x, b[n + 1])
<1>1. PICK s \in Responses : Excerpt(b, s)
  BY DEF Sound
<1>2. b \in Seq(Chunks) /\ Len(b) \in Nat /\ b[n + 1] \in Chunks
  BY <1>1 DEF Excerpt
<1>3. x \in Seq(Chunks) /\ Len(x) \in Nat
  BY DEF Copies, Picked
<1>4. /\ y \in Seq(Chunks) /\ Len(y) = Len(x) + 1
      /\ \A i \in 1 .. Len(x) : y[i] = x[i]
      /\ y[Len(x) + 1] = b[n + 1]
  BY <1>2, <1>3
<1> HIDE DEF y
<1>5. Picked(y, b, n + 1)
  <2>1. ASSUME NEW i \in 1 .. Len(y)
        PROVE  \E k \in 1 .. (n + 1) : y[i] = b[k]
    <3>1. CASE i = Len(x) + 1
      BY <1>4, <3>1
    <3>2. CASE i # Len(x) + 1
      <4>1. i \in 1 .. Len(x)
        BY <1>3, <1>4, <3>2
      <4>2. PICK k \in 1 .. n : x[i] = b[k]
        BY <4>1 DEF Copies, Picked
      <4>3. k \in 1 .. (n + 1)
        OBVIOUS
      <4>4. QED
        BY <1>4, <4>1, <4>2, <4>3
    <3>3. QED
      BY <3>1, <3>2
  <2>2. ASSUME NEW i \in 1 .. Len(y), NEW j \in 1 .. Len(y), i < j
        PROVE  y[i][2] < y[j][2]
    <3>1. i \in 1 .. Len(x)
      BY <1>3, <1>4, <2>2
    <3>2. CASE j = Len(x) + 1
      <4>1. PICK k \in 1 .. n : x[i] = b[k]
        BY <3>1 DEF Copies, Picked
      <4>2. k \in 1 .. Len(b) /\ n + 1 \in 1 .. Len(b) /\ k < n + 1
        BY <1>2
      <4>3. b[k][2] < b[n + 1][2]
        BY <1>1, <4>2 DEF Excerpt
      <4>4. QED
        BY <1>4, <3>1, <3>2, <4>1, <4>3
    <3>3. CASE j # Len(x) + 1
      <4>1. j \in 1 .. Len(x)
        BY <1>3, <1>4, <3>3
      <4>2. x[i][2] < x[j][2]
        BY <2>2, <3>1, <4>1 DEF Copies, Picked
      <4>3. QED
        BY <1>4, <3>1, <4>1, <4>2
    <3>4. QED
      BY <3>2, <3>3
  <2>3. QED
    BY <1>4, <2>1, <2>2 DEF Picked
<1>6. r \notin c \cup m => Same(y, b, n + 1)
  <2> SUFFICES ASSUME r \notin c \cup m PROVE Same(y, b, n + 1)
    OBVIOUS
  <2>1. Len(x) = n /\ \A i \in 1 .. n : x[i] = b[i]
    BY DEF Copies, Same
  <2>2. ASSUME NEW i \in 1 .. (n + 1) PROVE y[i] = b[i]
    <3>1. i = n + 1 \/ i \in 1 .. n
      OBVIOUS
    <3>2. QED
      BY <1>4, <2>1, <3>1
  <2>3. QED
    BY <1>4, <2>1, <2>2 DEF Same
<1>7. QED
  BY <1>5, <1>6 DEF Copies, y

(* ... or is left without it.                                              *)
LEMMA CopySkips ==
    ASSUME NEW x, NEW b, NEW n \in Nat, NEW r, NEW c, NEW m, NEW d,
           r \in d, Copies(x, b, n, r, c, m)
    PROVE  Copies(x, b, n + 1, r, d, m)
<1>1. \A k \in 1 .. n : k \in 1 .. (n + 1)
  OBVIOUS
<1>2. QED
  BY <1>1 DEF Copies, Picked

(* Nothing but the next chunk: the client.                                 *)
LEMMA SameGrows ==
    ASSUME NEW x, NEW b \in Seq(Chunks), NEW n \in Nat, n < Len(b),
           Same(x, b, n)
    PROVE  Same(Append(x, b[n + 1]), b, n + 1)
<1>1. b[n + 1] \in Chunks
  OBVIOUS
<1>2. x \in Seq(Chunks) /\ Len(x) = n /\ \A i \in 1 .. n : x[i] = b[i]
  BY DEF Same
<1>3. /\ Append(x, b[n + 1]) \in Seq(Chunks)
      /\ Len(Append(x, b[n + 1])) = n + 1
      /\ \A i \in 1 .. n : Append(x, b[n + 1])[i] = b[i]
      /\ Append(x, b[n + 1])[n + 1] = b[n + 1]
  BY <1>1, <1>2
<1>4. QED
  BY <1>3 DEF Same

LEMMA SameIsAll ==
    ASSUME NEW x, NEW b \in Seq(Chunks), Same(x, b, Len(b))
    PROVE  x = b
<1>1. x \in Seq(Chunks) /\ Len(x) = Len(b) /\ \A i \in 1 .. Len(b) : x[i] = b[i]
  BY DEF Same
<1>2. QED
  BY <1>1, SeqEqual

(* A part of an excerpt.                                                   *)
LEMMA PickedIsSound ==
    ASSUME NEW x, NEW b, NEW n \in Nat, NEW r, NEW m,
           Sound(b, r, m), n <= Len(b), Picked(x, b, n)
    PROVE  Sound(x, r, m)
<1>1. PICK s \in Responses : (r \notin m => s = r) /\ Excerpt(b, s)
  BY DEF Sound
<1>2. b \in Seq(Chunks) /\ Len(b) \in Nat
  BY <1>1 DEF Excerpt
<1>3. ASSUME NEW i \in 1 .. Len(x)
      PROVE  x[i][1] = s /\ x[i][2] \in 1 .. Length[s]
  <2>1. PICK k \in 1 .. n : x[i] = b[k]
    BY DEF Picked
  <2>2. k \in 1 .. Len(b)
    BY <1>2
  <2>3. QED
    BY <1>1, <2>1, <2>2 DEF Excerpt
<1>4. Excerpt(x, s)
  BY <1>3 DEF Excerpt, Picked
<1>5. QED
  BY <1>1, <1>4 DEF Sound

LEMMA SameIsPicked ==
    ASSUME NEW x, NEW b, NEW n \in Nat, NEW r, NEW m,
           Sound(b, r, m), n <= Len(b), Same(x, b, n)
    PROVE  Picked(x, b, n)
<1>1. PICK s \in Responses : Excerpt(b, s)
  BY DEF Sound
<1>2. Len(b) \in Nat
  BY <1>1 DEF Excerpt
<1>3. ASSUME NEW i \in 1 .. n, NEW j \in 1 .. n, i < j
      PROVE  x[i][2] < x[j][2]
  <2>1. i \in 1 .. Len(b) /\ j \in 1 .. Len(b)
    BY <1>2
  <2>2. b[i][2] < b[j][2]
    BY <1>1, <1>3, <2>1 DEF Excerpt
  <2>3. QED
    BY <2>2 DEF Same
<1>4. QED
  BY <1>3 DEF Same, Picked

(* What a promotion leaves in its tier.                                    *)
LEMMA CopyIsGood ==
    ASSUME NEW x, NEW b, NEW n \in Nat, NEW r, NEW c, NEW m,
           GoodCopy(b, r, c, m), n <= Len(b), n = Len(b) \/ r \in c,
           Copies(x, b, n, r, c, m)
    PROVE  GoodCopy(x, r, c, m)
<1>1. Sound(b, r, m)
  BY DEF GoodCopy
<1>2. Sound(x, r, m)
  BY <1>1, PickedIsSound DEF Copies
<1>3. ASSUME r \notin c \cup m PROVE x = Body(r)
  <2>1. b = Body(r) /\ n = Len(b) /\ Same(x, b, n)
    BY <1>3 DEF GoodCopy, Copies
  <2>2. b \in Seq(Chunks)
    BY <1>1 DEF Sound, Excerpt
  <2>3. QED
    BY <2>1, <2>2, SameIsAll
<1>4. QED
  BY <1>2, <1>3 DEF GoodCopy
-----------------------------------------------------------------------------
(* Frames: a step of one request leaves the others alone.                  *)

(* A step of request q to r that leaves it and the tiers good keeps Inv.   *)
LEMMA OneRequestSteps ==
    ASSUME Inv, NEW q \in Requests, NEW r \in RequestState,
           req' = [req EXCEPT ![q] = r],
           GoodRequest(r, cut', mixed),
           cut' \in SUBSET Responses, cut \subseteq cut', mixed' = mixed,
           expired' = expired, tier' \in [Tiers -> Entry \cup {None}],
           GoodTiers(tier', cut', mixed)
    PROVE  Inv'
<1>1. req' \in [Requests -> RequestState]
  BY DEF Inv, TypeOK
<1>2. TypeOK'
  BY <1>1 DEF Inv, TypeOK
<1>3. \A p \in Requests : GoodRequest(req'[p], cut', mixed')
  <2> TAKE p \in Requests
  <2>1. CASE p = q
    BY <2>1 DEF Inv, TypeOK
  <2>2. CASE p # q
    <3>1. req'[p] = req[p] /\ GoodRequest(req[p], cut, mixed)
      BY <2>2 DEF Inv, TypeOK
    <3>2. QED
      BY <3>1, GoodRequestStays
  <2>3. QED
    BY <2>1, <2>2
<1>4. QED
  BY <1>2, <1>3 DEF Inv

(* A step of request q that touches no tier.                               *)
LEMMA QuietStep ==
    ASSUME Inv, NEW q \in Requests, NEW r \in RequestState,
           req' = [req EXCEPT ![q] = r],
           GoodRequest(r, cut', mixed),
           cut' \in SUBSET Responses, cut \subseteq cut',
           UNCHANGED <<tier, expired, mixed>>
    PROVE  Inv'
<1>1. GoodTiers(tier', cut', mixed)
  BY GoodCopyStays DEF Inv, GoodTiers, GoodEntry
<1>2. QED
  BY <1>1, OneRequestSteps DEF Inv, TypeOK

(* A lookup finds an unread hit on a good body.                            *)
LEMMA LookupIsGood ==
    ASSUME Inv, LookupResult.state # "miss"
    PROVE  /\ LookupResult.hit \in Hit
           /\ LookupResult.hit # None
           /\ LookupResult.hit.cursor = 0
           /\ GoodHit(LookupResult.hit, cut, mixed)
<1>1. PICK i \in Tiers : tier[i] # None /\ LookupResult.hit = NewHit(i)
  <2>1. \E i \in Tiers : tier[i] # None
    BY DEF LookupResult
  <2>2. \E i \in Tiers : tier[i] # None /\ \A j \in 0 .. i - 1 : tier[j] = None
    BY <2>1 DEF Tiers, L3
  <2>3. QED
    BY <2>1, <2>2 DEF LookupResult
<1>2. tier[i] \in Entry /\ GoodCopy(tier[i].body, tier[i].meta, cut, mixed)
  BY <1>1 DEF Inv, TypeOK, GoodTiers, GoodEntry
<1> DEFINE to == {j \in Caches : /\ j < i
                                 /\ <<i, j>> \in Promotes
                                 /\ Admits(j, tier[i].meta)}
           h  == NewHit(i)
<1>3. to \ {0} \in SUBSET {1, 2}
  BY DEF Caches
<1>4. /\ h.meta = tier[i].meta /\ h.body = tier[i].body /\ h.cursor = 0
      /\ h.buf \in {None, <<>>}
      /\ h.lazy = to \ {0}
  BY DEF NewHit
<1>5. h \in Hit
  BY <1>2, <1>3 DEF NewHit, Hit, Entry
<1>6. h # None
  BY <1>5, NoneAssumption
<1>7. Len(h.body) >= 0
  BY <1>2, <1>4 DEF Entry
<1>8. GoodHit(h, cut, mixed)
  <2> HIDE DEF h
  <2>1. h.buf # None => Copies(h.buf, h.body, h.cursor, h.meta, cut, mixed)
    BY <1>4, CopyBegins
  <2>2. QED
    BY <1>2, <1>4, <1>7, <2>1 DEF GoodHit
<1>9. QED
  BY <1>1, <1>4, <1>5, <1>6, <1>8
-----------------------------------------------------------------------------
(* The steps of a request.                                                 *)

(* Steps that change neither the hit nor what the client has.              *)
LEMMA GoodElsewhere ==
    ASSUME NEW old \in RequestState, NEW r \in RequestState,
           GoodRequest(old, cut, mixed),
           old.pc \in {"idle", "lookup"},
           r.pc \in {"lookup", "origin", "error"},
           r.hit = old.hit, r.tasks = old.tasks, r.status = old.status,
           r.body = old.body, r.meta = old.meta
    PROVE  GoodRequest(r, cut, mixed)
<1>1. old.hit = None /\ old.status = 0
  BY DEF GoodRequest, GoodStage
<1>2. GoodTasks(r, cut, mixed)
  BY <1>1 DEF GoodRequest, GoodTasks
<1>3. GoodStage(r)
  BY <1>1 DEF GoodRequest, GoodStage
<1>4. GoodClient(r, cut, mixed)
  BY <1>1 DEF GoodClient
<1>5. QED
  BY <1>1, <1>2, <1>3, <1>4 DEF GoodRequest

LEMMA StartStep ==
    ASSUME Inv, NEW q \in Requests, Start(q)
    PROVE  Inv'
<1>1. PICK k \in Kinds :
        req' = [req EXCEPT ![q] =
                 [@ EXCEPT !.kind = k,
                           !.pc = IF k.method \in {"GET", "HEAD"}
                                  THEN "lookup" ELSE "origin"]]
  BY DEF Start
<1> DEFINE r == [req[q] EXCEPT !.kind = k,
                               !.pc = IF k.method \in {"GET", "HEAD"}
                                      THEN "lookup" ELSE "origin"]
<1>2. req[q] \in RequestState /\ GoodRequest(req[q], cut, mixed)
  BY DEF Inv, TypeOK
<1>3. {"lookup", "origin"} \subseteq Places
  BY DEF Places
<1>4. r \in RequestState
  BY <1>2, <1>3 DEF RequestState
<1>5. /\ r.pc \in {"lookup", "origin", "error"}
      /\ r.hit = req[q].hit /\ r.tasks = req[q].tasks
      /\ r.status = req[q].status /\ r.body = req[q].body
      /\ r.meta = req[q].meta
  BY <1>2 DEF RequestState
<1>6. req' = [req EXCEPT ![q] = r]
  BY <1>1
<1> HIDE DEF r
<1>7. GoodRequest(r, cut, mixed)
  BY <1>2, <1>4, <1>5, GoodElsewhere DEF Start
<1>8. QED
  BY <1>4, <1>6, <1>7, QuietStep DEF Start, Inv, TypeOK

LEMMA LeaveLookupStep ==
    ASSUME Inv, NEW q \in Requests, Miss(q) \/ KeepForOrigin(q) \/ LookupFails(q)
    PROVE  Inv'
<1>1. req[q] \in RequestState /\ GoodRequest(req[q], cut, mixed)
  BY DEF Inv, TypeOK
<1>2. PICK p \in {"origin", "error"}, s \in Responses \cup {None} :
        req' = [req EXCEPT ![q] = [@ EXCEPT !.pc = p, !.stale = s]]
  <2>1. CASE Miss(q) \/ LookupFails(q)
    <3>1. \E p \in {"origin", "error"} :
            req' = [req EXCEPT ![q] = [@ EXCEPT !.pc = p,
                                                !.stale = req[q].stale]]
      BY <1>1, <2>1 DEF Miss, LookupFails, RequestState
    <3>2. req[q].stale \in Responses \cup {None}
      BY <1>1 DEF RequestState
    <3>3. QED
      BY <3>1, <3>2
  <2>2. CASE KeepForOrigin(q)
    <3>1. LookupResult.hit.meta \in Responses
      BY <2>2, LookupIsGood DEF KeepForOrigin, Hit
    <3>2. QED
      BY <2>2, <3>1 DEF KeepForOrigin
  <2>3. QED
    BY <2>1, <2>2
<1> DEFINE r == [req[q] EXCEPT !.pc = p, !.stale = s]
<1>3. {"origin", "error"} \subseteq Places
  BY DEF Places
<1>4. r \in RequestState
  BY <1>1, <1>3 DEF RequestState
<1>5. /\ r.pc \in {"lookup", "origin", "error"}
      /\ r.hit = req[q].hit /\ r.tasks = req[q].tasks
      /\ r.status = req[q].status /\ r.body = req[q].body
      /\ r.meta = req[q].meta
  BY <1>1 DEF RequestState
<1>6. req' = [req EXCEPT ![q] = r]
  BY <1>2
<1>7. /\ req[q].pc = "lookup" /\ UNCHANGED <<tier, expired, cut, mixed>>
  BY DEF Miss, KeepForOrigin, LookupFails
<1> HIDE DEF r
<1>8. GoodRequest(r, cut, mixed)
  BY <1>1, <1>4, <1>5, <1>7, GoodElsewhere
<1>9. QED
  BY <1>4, <1>6, <1>7, <1>8, QuietStep DEF Inv, TypeOK

(* A hit is taken that may be answered.                                    *)
LEMMA DecideStep ==
    ASSUME Inv, NEW q \in Requests, DecideNotModified(q) \/ DecideServe(q)
    PROVE  Inv'
<1>1. req[q] \in RequestState /\ GoodRequest(req[q], cut, mixed)
  BY DEF Inv, TypeOK
<1>2. PICK p \in {"cleanup", "headers"} :
        req' = [req EXCEPT ![q] = [@ EXCEPT !.pc = p, !.hit = LookupResult.hit]]
  BY DEF DecideNotModified, DecideServe
<1>3. /\ LookupResult.hit \in Hit
      /\ LookupResult.hit # None
      /\ LookupResult.hit.cursor = 0
      /\ GoodHit(LookupResult.hit, cut, mixed)
  BY LookupIsGood DEF DecideNotModified, DecideServe
<1>4. req[q].pc = "lookup" /\ UNCHANGED <<tier, expired, cut, mixed>>
  BY DEF DecideNotModified, DecideServe
<1> DEFINE r == [req[q] EXCEPT !.pc = p, !.hit = LookupResult.hit]
<1>5. {"cleanup", "headers"} \subseteq Places
  BY DEF Places
<1>6. r \in RequestState
  BY <1>1, <1>3, <1>5 DEF RequestState
<1>7. /\ r.pc = p /\ r.hit = LookupResult.hit /\ r.tasks = req[q].tasks
      /\ r.status = req[q].status /\ r.body = req[q].body
      /\ r.meta = req[q].meta
  BY <1>1 DEF RequestState
<1>8. req' = [req EXCEPT ![q] = r]
  BY <1>2
<1> HIDE DEF r
<1>9. req[q].status = 0 /\ req[q].body = <<>> /\ req[q].tasks = NoTasks
  BY <1>1, <1>4 DEF GoodRequest, GoodStage
<1>10. GoodTasks(r, cut, mixed)
  BY <1>7, <1>9 DEF GoodTasks, NoTasks
<1>11. GoodStage(r) /\ GoodClient(r, cut, mixed)
  BY <1>3, <1>7, <1>9 DEF GoodStage, GoodClient
<1>12. GoodRequest(r, cut, mixed)
  BY <1>3, <1>7, <1>10, <1>11 DEF GoodRequest
<1>13. QED
  BY <1>4, <1>6, <1>8, <1>12, QuietStep DEF Inv, TypeOK

LEMMA WriteHeadersStep ==
    ASSUME Inv, NEW q \in Requests, WriteHeaders(q)
    PROVE  Inv'
<1> DEFINE old  == req[q]
           head == old.kind.method = "HEAD"
           p    == IF head THEN "finish" ELSE "body"
           r    == [old EXCEPT !.pc = p,
                               !.status = 200, !.meta = old.hit.meta]
<1>1. old \in RequestState /\ GoodRequest(old, cut, mixed)
  BY DEF Inv, TypeOK
<1>2. /\ old.pc = "headers" /\ UNCHANGED <<tier, expired, cut, mixed>>
      /\ req' = [req EXCEPT ![q] = r]
  BY DEF WriteHeaders
<1>3. /\ old.hit # None /\ old.hit \in Hit /\ GoodHit(old.hit, cut, mixed)
      /\ old.hit.cursor = 0 /\ old.status = 0
      /\ old.body = <<>> /\ old.tasks = NoTasks
  BY <1>1, <1>2 DEF GoodRequest, GoodStage, RequestState
<1>4. p \in {"finish", "body"} /\ p \in Places /\ 200 \in Statuses
  BY DEF Places, Statuses
<1> HIDE DEF p
<1>5. old.hit.meta \in Responses
  BY <1>3 DEF Hit
<1>6. r \in RequestState
  <2>1. \A x \in Places, s \in Statuses, m \in Responses :
          [old EXCEPT !.pc = x, !.status = s, !.meta = m] \in RequestState
    BY <1>1 DEF RequestState
  <2>2. QED
    BY <1>4, <1>5, <2>1
<1>7. /\ r.pc = p
      /\ r.hit = old.hit /\ r.tasks = old.tasks /\ r.status = 200
      /\ r.body = old.body /\ r.meta = old.hit.meta /\ r.kind = old.kind
  BY <1>1 DEF RequestState
<1> HIDE DEF r
<1>8. GoodTasks(r, cut, mixed)
  BY <1>3, <1>7 DEF GoodTasks, NoTasks
<1>9. GoodStage(r)
  BY <1>3, <1>4, <1>5, <1>7 DEF GoodStage
<1>10. Copies(<<>>, old.hit.body, 0, old.hit.meta, cut, mixed)
  BY CopyBegins
<1>11. Sound(<<>>, old.hit.meta, mixed)
  <2>1. Len(old.hit.body) \in Nat /\ Sound(old.hit.body, old.hit.meta, mixed)
    BY <1>3 DEF Hit, GoodHit, GoodCopy
  <2>2. QED
    BY <1>10, <2>1, PickedIsSound DEF Copies
<1>12. Same(<<>>, old.hit.body, 0)
  BY DEF Same
<1>13. GoodClient(r, cut, mixed)
  <2>1. /\ r.pc = "finish" \/ (r.pc = "body" /\ r.hit.cursor = 0)
        /\ r.pc = "finish" => r.kind.method # "GET"
    BY <1>3, <1>4, <1>7 DEF p
  <2>2. QED
    BY <1>3, <1>7, <1>11, <1>12, <2>1 DEF GoodClient
<1>14. GoodRequest(r, cut, mixed)
  BY <1>3, <1>7, <1>8, <1>9, <1>13 DEF GoodRequest
<1>15. QED
  BY <1>2, <1>6, <1>14, QuietStep DEF Inv, TypeOK

(* A chunk is read, by the client and by what is promoted.                 *)
LEMMA ReadChunkStep ==
    ASSUME Inv, NEW q \in Requests, ReadChunk(q)
    PROVE  Inv'
<1> DEFINE old     == req[q]
           h       == old.hit
           n       == h.cursor + 1
           c       == h.body[n]
           tasks   == IF h.cursor > 0 THEN old.tasks
                      ELSE [j \in {1, 2} |-> IF j \in h.lazy THEN <<>> ELSE None]
           running == {j \in {1, 2} : tasks[j] # None}
           Buf(skip0) == IF h.buf = None \/ skip0 THEN h.buf
                         ELSE Append(h.buf, c)
           Sent(skip) == [j \in {1, 2} |-> IF j \in running \ skip
                                           THEN Append(tasks[j], c)
                                           ELSE tasks[j]]
<1>1. old \in RequestState /\ GoodRequest(old, cut, mixed)
  BY DEF Inv, TypeOK
<1>2. old.pc = "body" /\ UNCHANGED <<tier, expired, mixed>>
      /\ h.cursor < Len(h.body)
  BY DEF ReadChunk
<1>3. /\ h # None /\ h \in Hit /\ GoodHit(h, cut, mixed)
      /\ old.status = 200 /\ old.meta = h.meta
  BY <1>1, <1>2 DEF GoodRequest, GoodStage, RequestState
<1>4. /\ h.cursor \in Nat /\ h.body \in Seq(Chunks) /\ h.meta \in Responses
      /\ h.buf \in Seq(Chunks) \cup {None}
      /\ GoodCopy(h.body, h.meta, cut, mixed)
      /\ Sound(h.body, h.meta, mixed)
  BY <1>3 DEF Hit, GoodHit, GoodCopy
<1>5. c \in Chunks
  BY <1>2, <1>4
<1>6. \E skip0 \in {FALSE, Faulty /\ h.buf # None},
         skip \in SUBSET (IF n > Capacity THEN running ELSE {}) :
         /\ req' = [req EXCEPT ![q] =
                      [old EXCEPT !.pc = "write", !.chunk = c,
                                !.hit = [h EXCEPT
                                   !.cursor = n,
                                   !.buf = Buf(skip0)],
                                !.tasks = Sent(skip)]]
         /\ cut' = cut \cup (IF skip0 \/ skip # {} THEN {h.meta} ELSE {})
  BY DEF ReadChunk
<1>7. PICK skip0 \in BOOLEAN, skip \in SUBSET running :
         /\ req' = [req EXCEPT ![q] =
                      [old EXCEPT !.pc = "write", !.chunk = c,
                                !.hit = [h EXCEPT
                                   !.cursor = n,
                                   !.buf = Buf(skip0)],
                                !.tasks = Sent(skip)]]
         /\ cut' = cut \cup (IF skip0 \/ skip # {} THEN {h.meta} ELSE {})
  <2>1. {FALSE, Faulty /\ h.buf # None} \subseteq BOOLEAN
    OBVIOUS
  <2>2. SUBSET (IF n > Capacity THEN running ELSE {}) \subseteq SUBSET running
    OBVIOUS
  <2> HIDE DEF Buf, Sent, running, c, n
  <2>3. QED
    BY <1>6, <2>1, <2>2
<1> DEFINE g == [h EXCEPT !.cursor = n, !.buf = Buf(skip0)]
           r == [old EXCEPT !.pc = "write", !.chunk = c, !.hit = g,
                            !.tasks = Sent(skip)]
<1>8. /\ cut \subseteq cut' /\ cut' \in SUBSET Responses
      /\ skip0 \/ skip # {} => h.meta \in cut'
  BY <1>4, <1>7 DEF Inv, TypeOK
<1>9. req' = [req EXCEPT ![q] = r]
  BY <1>7
<1>10. \A j \in {1, 2} :
         tasks[j] # None => /\ tasks[j] \in Seq(Chunks)
                            /\ Copies(tasks[j], h.body, h.cursor, h.meta,
                                      cut, mixed)
  <2>1. CASE h.cursor > 0
    BY <1>1, <1>3, <2>1 DEF GoodRequest, GoodTasks, RequestState
  <2>2. CASE h.cursor = 0
    <3>1. \A j \in {1, 2} : tasks[j] \in {<<>>, None}
      BY <2>2
    <3>2. Copies(<<>>, h.body, h.cursor, h.meta, cut, mixed)
      BY <2>2, CopyBegins
    <3>3. <<>> \in Seq(Chunks)
      OBVIOUS
    <3> HIDE DEF tasks
    <3> TAKE j \in {1, 2}
    <3>4. tasks[j] # None => tasks[j] = <<>>
      BY <3>1
    <3>5. QED
      BY <3>2, <3>3, <3>4
  <2>3. QED
    BY <1>4, <2>1, <2>2
<1>11. \A x : Copies(x, h.body, h.cursor, h.meta, cut, mixed)
         => /\ Copies(Append(x, c), h.body, n, h.meta, cut', mixed)
            /\ skip0 \/ skip # {} => Copies(x, h.body, n, h.meta, cut', mixed)
  BY <1>2, <1>4, <1>8, CopyGrows, CopySkips, CopiesStays
<1> HIDE DEF tasks, c
<1>12. \A j \in {1, 2} :
         /\ Sent(skip)[j] \in Seq(Chunks) \cup {None}
         /\ Sent(skip)[j] # None =>
              Copies(Sent(skip)[j], h.body, n, h.meta, cut', mixed)
  <2> TAKE j \in {1, 2}
  <2>1. CASE j \in running \ skip
    <3>1. Sent(skip)[j] = Append(tasks[j], c)
      BY <2>1
    <3>2. QED
      BY <1>5, <1>10, <1>11, <2>1, <3>1
  <2>2. CASE j \in skip
    <3>1. Sent(skip)[j] = tasks[j]
      BY <2>2
    <3>2. QED
      BY <1>10, <1>11, <2>2, <3>1
  <2>3. CASE j \notin running
    BY <2>3
  <2>4. QED
    BY <2>1, <2>2, <2>3
<1>13. /\ Buf(skip0) \in Seq(Chunks) \cup {None}
       /\ Buf(skip0) # None =>
            Copies(Buf(skip0), h.body, n, h.meta, cut', mixed)
  <2>1. h.buf # None => Copies(h.buf, h.body, h.cursor, h.meta, cut, mixed)
    BY <1>3 DEF GoodHit
  <2>2. CASE h.buf = None
    BY <2>2
  <2>3. CASE h.buf # None /\ skip0
    BY <1>4, <1>11, <2>1, <2>3
  <2>4. CASE h.buf # None /\ ~skip0
    BY <1>4, <1>5, <1>11, <2>1, <2>4
  <2>5. QED
    BY <2>2, <2>3, <2>4
<1>14. Sent(skip) \in [{1, 2} -> Seq(Chunks) \cup {None}]
  BY <1>12
<1> HIDE DEF Buf, Sent, running
<1>15. g \in Hit
  <2>1. \A k \in Nat, x \in Seq(Chunks) \cup {None} :
          [h EXCEPT !.cursor = k, !.buf = x] \in Hit
    BY <1>3 DEF Hit
  <2>2. n \in Nat
    BY <1>4
  <2>3. QED
    BY <1>13, <2>1, <2>2
<1>16. /\ g.cursor = n /\ g.body = h.body /\ g.meta = h.meta
       /\ g.buf = Buf(skip0)
  BY <1>3 DEF Hit
<1>17. g # None
  BY <1>15, NoneAssumption
<1> HIDE DEF g
<1>18. r \in RequestState
  <2>1. "write" \in Places
    BY DEF Places
  <2>2. \A k \in Chunks, f \in Hit, u \in [{1, 2} -> Seq(Chunks) \cup {None}] :
          [old EXCEPT !.pc = "write", !.chunk = k, !.hit = f, !.tasks = u]
            \in RequestState
    BY <1>1, <2>1 DEF RequestState
  <2>3. QED
    BY <1>5, <1>14, <1>15, <2>2
<1>19. /\ r.pc = "write" /\ r.chunk = c /\ r.hit = g /\ r.tasks = Sent(skip)
       /\ r.status = 200 /\ r.meta = h.meta /\ r.body = old.body
  BY <1>1, <1>3 DEF RequestState
<1> HIDE DEF r
<1>20. GoodHit(r.hit, cut', mixed)
  <2>1. GoodCopy(g.body, g.meta, cut', mixed)
    BY <1>4, <1>8, <1>16, GoodCopyStays
  <2>2. g.cursor <= Len(g.body)
    BY <1>2, <1>4, <1>16
  <2>3. QED
    BY <1>13, <1>16, <1>19, <2>1, <2>2 DEF GoodHit
<1>21. GoodTasks(r, cut', mixed)
  BY <1>12, <1>16, <1>17, <1>19 DEF GoodTasks
<1>22. GoodStage(r)
  BY <1>4, <1>16, <1>17, <1>19 DEF GoodStage
<1>23. GoodClient(r, cut', mixed)
  <2>1. Sound(old.body, old.meta, mixed) /\ Same(old.body, h.body, h.cursor)
    BY <1>1, <1>2, <1>3 DEF GoodRequest, GoodClient
  <2>2. n > 0 /\ n - 1 = h.cursor
    BY <1>4
  <2>3. QED
    BY <1>3, <1>16, <1>19, <2>1, <2>2 DEF GoodClient, c
<1>24. GoodRequest(r, cut', mixed)
  BY <1>20, <1>21, <1>22, <1>23 DEF GoodRequest
<1>25. QED
  BY <1>2, <1>8, <1>9, <1>18, <1>24, QuietStep

(* The chunk is written.                                                   *)
LEMMA WriteChunkStep ==
    ASSUME Inv, NEW q \in Requests, WriteChunk(q)
    PROVE  Inv'
<1> DEFINE old == req[q]
           h   == old.hit
           b   == Append(old.body, old.chunk)
           r   == [old EXCEPT !.pc = "body", !.body = b, !.chunk = None]
<1>1. old \in RequestState /\ GoodRequest(old, cut, mixed)
  BY DEF Inv, TypeOK
<1>2. /\ old.pc = "write" /\ UNCHANGED <<tier, expired, cut, mixed>>
      /\ req' = [req EXCEPT ![q] = r]
  BY DEF WriteChunk
<1>3. /\ h # None /\ h \in Hit /\ GoodHit(h, cut, mixed)
      /\ old.status = 200 /\ old.meta = h.meta /\ h.meta \in Responses
      /\ h.cursor > 0 /\ Same(old.body, h.body, h.cursor - 1)
      /\ old.chunk = h.body[h.cursor]
  BY <1>1, <1>2 DEF GoodRequest, GoodStage, GoodClient, RequestState, Hit
<1>4. /\ h.cursor \in Nat /\ h.body \in Seq(Chunks) /\ h.cursor <= Len(h.body)
      /\ Sound(h.body, h.meta, mixed)
  BY <1>3 DEF Hit, GoodHit, GoodCopy
<1>5. Same(b, h.body, h.cursor)
  <2>1. PICK n \in Nat : n = h.cursor - 1
    BY <1>3, <1>4
  <2>2. n < Len(h.body) /\ n + 1 = h.cursor
    BY <1>4, <2>1
  <2>3. Same(Append(old.body, h.body[n + 1]), h.body, n + 1)
    BY <1>3, <1>4, <2>1, <2>2, SameGrows
  <2>4. QED
    BY <1>3, <2>2, <2>3
<1>6. b \in Seq(Chunks)
  BY <1>5 DEF Same
<1>7. Sound(b, h.meta, mixed)
  BY <1>4, <1>5, SameIsPicked, PickedIsSound
<1> HIDE DEF b
<1>8. r \in RequestState
  <2>1. "body" \in Places
    BY DEF Places
  <2>2. QED
    BY <1>1, <1>6, <2>1 DEF RequestState
<1>9. /\ r.pc = "body" /\ r.hit = h /\ r.tasks = old.tasks
      /\ r.status = 200 /\ r.meta = h.meta /\ r.body = b
  BY <1>1, <1>3 DEF RequestState
<1> HIDE DEF r
<1>10. GoodTasks(r, cut, mixed)
  BY <1>1, <1>3, <1>9 DEF GoodRequest, GoodTasks
<1>11. GoodStage(r)
  BY <1>3, <1>9 DEF GoodStage
<1>12. GoodClient(r, cut, mixed)
  BY <1>3, <1>5, <1>7, <1>9 DEF GoodClient
<1>13. GoodRequest(r, cut, mixed)
  BY <1>3, <1>9, <1>10, <1>11, <1>12 DEF GoodRequest
<1>14. QED
  BY <1>2, <1>8, <1>13, QuietStep DEF Inv, TypeOK

(* The body ends, and then the hit is finished.                            *)
LEMMA WriteEndStep ==
    ASSUME Inv, NEW q \in Requests, WriteEnd(q) \/ Finish(q)
    PROVE  Inv'
<1> DEFINE old == req[q]
           h   == old.hit
<1>1. old \in RequestState /\ GoodRequest(old, cut, mixed)
  BY DEF Inv, TypeOK
<1>2. UNCHANGED <<tier, expired, cut, mixed>>
  BY DEF WriteEnd, Finish
<1>3. PICK p \in {"finish", "join"} : req' = [req EXCEPT ![q] = [old EXCEPT !.pc = p]]
  <2>1. CASE WriteEnd(q)
    BY <2>1 DEF WriteEnd
  <2>2. CASE Finish(q)
    BY <1>1, <2>2 DEF Finish
  <2>3. QED
    BY <2>1, <2>2
<1>4. /\ old.pc \in {"body", "finish"} /\ h # None /\ h \in Hit
      /\ old.pc = "body" => h.cursor = Len(h.body)
  BY <1>1 DEF WriteEnd, Finish, GoodRequest, GoodStage, RequestState
<1>5. /\ GoodHit(h, cut, mixed)
      /\ old.status = 200 /\ old.meta = h.meta /\ h.meta \in Responses
      /\ old.tasks = NoTasks \/ h.cursor = Len(h.body)
  BY <1>1, <1>4 DEF GoodRequest, GoodStage, Hit
<1>6. Sound(old.body, h.meta, mixed)
  BY <1>1, <1>5 DEF GoodRequest, GoodClient
<1>7. old.kind.method = "GET" => old.body = h.body
  <2>1. CASE old.pc = "body"
    <3>1. Same(old.body, h.body, Len(h.body)) /\ h.body \in Seq(Chunks)
      BY <1>1, <1>4, <2>1 DEF GoodRequest, GoodClient, Hit
    <3>2. QED
      BY <3>1, SameIsAll
  <2>2. CASE old.pc = "finish"
    BY <1>1, <2>2 DEF GoodRequest, GoodClient
  <2>3. QED
    BY <1>4, <2>1, <2>2
<1> DEFINE r == [old EXCEPT !.pc = p]
<1>8. r \in RequestState
  <2>1. {"finish", "join"} \subseteq Places
    BY DEF Places
  <2>2. QED
    BY <1>1, <2>1 DEF RequestState
<1>9. /\ r.pc = p /\ r.hit = h /\ r.tasks = old.tasks /\ r.kind = old.kind
      /\ r.status = 200 /\ r.meta = h.meta /\ r.body = old.body
  BY <1>1, <1>5 DEF RequestState
<1> HIDE DEF r
<1>10. GoodTasks(r, cut, mixed)
  BY <1>1, <1>5, <1>9 DEF GoodRequest, GoodTasks
<1>11. GoodStage(r)
  BY <1>4, <1>5, <1>9 DEF GoodStage
<1>12. GoodClient(r, cut, mixed)
  BY <1>6, <1>7, <1>9 DEF GoodClient
<1>13. GoodRequest(r, cut, mixed)
  BY <1>5, <1>9, <1>10, <1>11, <1>12 DEF GoodRequest
<1>14. QED
  BY <1>2, <1>3, <1>8, <1>13, QuietStep DEF Inv, TypeOK, r

(* A hit is dropped after n of its chunks were sent to tasks.              *)
LEMMA DropStep ==
    ASSUME Inv, NEW q \in Requests,
           NEW t \in [{1, 2} -> Seq(Chunks) \cup {None}], NEW n \in Nat,
           Drop(q, t, n),
           req[q].hit # None, n <= Len(req[q].hit.body),
           t # NoTasks => req[q].status = 200 /\ req[q].meta = req[q].hit.meta,
           \A j \in {1, 2} :
             t[j] # None => Copies(t[j], req[q].hit.body, n,
                                   req[q].hit.meta, cut, mixed)
    PROVE  Inv'
<1> DEFINE old == req[q]
           h   == old.hit
           r   == [old EXCEPT !.pc = "error", !.hit = None, !.chunk = None,
                              !.tasks = t]
<1>1. old \in RequestState /\ GoodRequest(old, cut, mixed)
  BY DEF Inv, TypeOK
<1>2. /\ UNCHANGED <<tier, expired, mixed>> /\ req' = [req EXCEPT ![q] = r]
      /\ cut' = cut \cup Deprives(t, h, n)
  BY DEF Drop
<1>3. h \in Hit /\ GoodHit(h, cut, mixed) /\ h.meta \in Responses
  BY <1>1 DEF GoodRequest, RequestState, Hit
<1>4. /\ cut \subseteq cut' /\ cut' \in SUBSET Responses
      /\ t # NoTasks /\ n < Len(h.body) => h.meta \in cut'
  BY <1>2, <1>3 DEF Deprives, Inv, TypeOK
<1>5. GoodCopy(h.body, h.meta, cut', mixed) /\ Len(h.body) \in Nat
  BY <1>3, <1>4, GoodCopyStays DEF GoodHit, Hit
<1>6. ASSUME NEW j \in {1, 2}, t[j] # None
      PROVE  GoodCopy(t[j], old.meta, cut', mixed)
  <2>1. t # NoTasks
    BY <1>6 DEF NoTasks
  <2>2. n = Len(h.body) \/ h.meta \in cut'
    BY <1>4, <1>5, <2>1
  <2>3. Copies(t[j], h.body, n, h.meta, cut', mixed)
    BY <1>4, <1>6, CopiesStays
  <2>4. GoodCopy(t[j], h.meta, cut', mixed)
    BY <1>5, <2>2, <2>3, CopyIsGood
  <2>5. QED
    BY <2>1, <2>4
<1>7. r \in RequestState
  <2>1. "error" \in Places
    BY DEF Places
  <2>2. \A x \in [{1, 2} -> Seq(Chunks) \cup {None}] :
          [old EXCEPT !.pc = "error", !.hit = None, !.chunk = None,
                      !.tasks = x] \in RequestState
    BY <1>1, <2>1 DEF RequestState
  <2>3. QED
    BY <2>2
<1>8. /\ r.pc = "error" /\ r.hit = None /\ r.tasks = t
      /\ r.status = old.status /\ r.meta = old.meta /\ r.body = old.body
  BY <1>1 DEF RequestState
<1> HIDE DEF r
<1>9. GoodTasks(r, cut', mixed)
  BY <1>6, <1>8 DEF GoodTasks
<1>10. GoodStage(r) /\ GoodClient(r, cut', mixed)
  BY <1>1, <1>8 DEF GoodRequest, GoodStage, GoodClient
<1>11. GoodRequest(r, cut', mixed)
  BY <1>8, <1>9, <1>10 DEF GoodRequest
<1>12. QED
  BY <1>2, <1>4, <1>7, <1>11, QuietStep

LEMMA FailStep ==
    ASSUME Inv, NEW q \in Requests, ReadFails(q) \/ WriteFails(q)
    PROVE  Inv'
<1> DEFINE old == req[q]
<1>1. old \in RequestState /\ GoodRequest(old, cut, mixed)
  BY DEF Inv, TypeOK
<1>2. /\ old.pc \in {"headers", "body", "write"}
      /\ Drop(q, old.tasks, old.hit.cursor)
  BY DEF ReadFails, WriteFails
<1>3. /\ old.hit # None /\ old.hit \in Hit
      /\ GoodHit(old.hit, cut, mixed) /\ GoodTasks(old, cut, mixed)
      /\ old.tasks \in [{1, 2} -> Seq(Chunks) \cup {None}]
      /\ old.tasks # NoTasks => old.status = 200 /\ old.meta = old.hit.meta
  BY <1>1, <1>2 DEF GoodRequest, GoodStage, RequestState
<1>4. old.hit.cursor \in Nat /\ old.hit.cursor <= Len(old.hit.body)
  BY <1>3 DEF Hit, GoodHit
<1>5. \A j \in {1, 2} :
        old.tasks[j] # None => Copies(old.tasks[j], old.hit.body,
                                      old.hit.cursor, old.hit.meta, cut, mixed)
  BY <1>3 DEF GoodTasks
<1> HIDE DEF old
<1>6. QED
  BY <1>2, <1>3, <1>4, <1>5, DropStep DEF old

LEMMA SpawnFailsStep ==
    ASSUME Inv, NEW q \in Requests, SpawnFails(q)
    PROVE  Inv'
<1> DEFINE old == req[q]
           h   == old.hit
<1>1. old \in RequestState /\ GoodRequest(old, cut, mixed)
  BY DEF Inv, TypeOK
<1>2. /\ old.pc = "body" /\ h.cursor = 0 /\ Len(h.body) > 0
      /\ \E j \in h.lazy :
           Drop(q, [i \in {1, 2} |-> IF i \in h.lazy /\ i < j
                                     THEN <<h.body[1]>> ELSE None], 1)
  BY DEF SpawnFails
<1>3. PICK j \in h.lazy :
        Drop(q, [i \in {1, 2} |-> IF i \in h.lazy /\ i < j
                                  THEN <<h.body[1]>> ELSE None], 1)
  BY <1>2
<1> DEFINE t == [i \in {1, 2} |-> IF i \in h.lazy /\ i < j
                                  THEN <<h.body[1]>> ELSE None]
<1>4. /\ h # None /\ h \in Hit /\ GoodHit(h, cut, mixed)
      /\ old.status = 200 /\ old.meta = h.meta
  BY <1>1, <1>2 DEF GoodRequest, GoodStage, RequestState
<1>5. /\ h.body \in Seq(Chunks) /\ Sound(h.body, h.meta, mixed)
      /\ h.body[1] \in Chunks /\ 1 <= Len(h.body)
  BY <1>2, <1>4 DEF Hit, GoodHit, GoodCopy
<1>6. Copies(<<h.body[1]>>, h.body, 1, h.meta, cut, mixed)
  <2>1. Copies(<<>>, h.body, 0, h.meta, cut, mixed)
    BY CopyBegins
  <2>2. Copies(Append(<<>>, h.body[0 + 1]), h.body, 0 + 1, h.meta, cut, mixed)
    <3>1. 0 \in Nat /\ 0 < Len(h.body)
      BY <1>2
    <3> HIDE DEF h
    <3>2. QED
      BY <1>5, <2>1, <3>1, CopyGrows
  <2>3. Append(<<>>, h.body[0 + 1]) = <<h.body[1]>> /\ 0 + 1 = 1
    BY <1>5
  <2>4. QED
    BY <2>2, <2>3
<1>7. \A i \in {1, 2} : t[i] \in {<<h.body[1]>>, None}
  OBVIOUS
<1>8. t \in [{1, 2} -> Seq(Chunks) \cup {None}]
  BY <1>5
<1>9. Drop(q, t, 1)
  BY <1>3
<1> HIDE DEF t
<1>10. \A i \in {1, 2} :
        t[i] # None => Copies(t[i], h.body, 1, h.meta, cut, mixed)
  BY <1>6, <1>7
<1> HIDE DEF h, old
<1>11. QED
  BY <1>4, <1>5, <1>8, <1>9, <1>10, DropStep DEF h, old

(* A task whose hit has been read to the end, or is gone, has what may be  *)
(* committed.                                                              *)
LEMMA TaskIsGood ==
    ASSUME NEW r \in RequestState, NEW c, NEW m, GoodRequest(r, c, m),
           r.hit = None \/ r.pc \in {"finish", "join"},
           NEW j \in {1, 2}, r.tasks[j] # None
    PROVE  /\ r.meta \in Responses
           /\ r.tasks[j] \in Seq(Chunks)
           /\ GoodCopy(r.tasks[j], r.meta, c, m)
<1>1. r.tasks # NoTasks
  BY DEF NoTasks
<1>2. r.status = 200 /\ r.meta \in Responses
  BY <1>1 DEF GoodRequest, GoodStage
<1> HIDE DEF GoodCopy, Copies
<1>a. /\ r.hit = None => GoodCopy(r.tasks[j], r.meta, c, m)
      /\ r.hit # None => Copies(r.tasks[j], r.hit.body, r.hit.cursor,
                               r.hit.meta, c, m)
  BY DEF GoodRequest, GoodTasks
<1>3. GoodCopy(r.tasks[j], r.meta, c, m)
  <2>1. CASE r.hit = None
    BY <1>a, <2>1
  <2>2. CASE r.hit # None
    <3>1. /\ r.hit \in Hit /\ r.meta = r.hit.meta
          /\ r.hit.cursor = Len(r.hit.body)
      BY <1>1, <2>2 DEF GoodRequest, GoodStage, RequestState
    <3>2. GoodCopy(r.hit.body, r.hit.meta, c, m)
      BY <2>2 DEF GoodRequest, GoodHit
    <3>3. r.hit.cursor \in Nat /\ r.hit.cursor <= Len(r.hit.body)
      BY <3>1 DEF Hit
    <3>4. GoodCopy(r.tasks[j], r.hit.meta, c, m)
      BY <1>a, <2>2, <3>1, <3>2, <3>3, CopyIsGood
    <3>5. QED
      BY <3>1, <3>4
  <2>3. QED
    BY <2>1, <2>2
<1>4. r.tasks[j] \in Seq(Chunks)
  BY DEF RequestState
<1>5. QED
  BY <1>2, <1>3, <1>4

(* The tier's own hit does not finish.                                     *)
LEMMA FinishFailsStep ==
    ASSUME Inv, NEW q \in Requests, FinishFails(q)
    PROVE  Inv'
<1> DEFINE old == req[q]
           h   == old.hit
           r   == [old EXCEPT !.pc = "served", !.hit = None]
<1>1. old \in RequestState /\ GoodRequest(old, cut, mixed)
  BY DEF Inv, TypeOK
<1>2. /\ old.pc = "finish" /\ UNCHANGED <<tier, expired, cut, mixed>>
      /\ req' = [req EXCEPT ![q] = r]
  BY DEF FinishFails
<1>3. /\ h # None /\ h \in Hit /\ GoodHit(h, cut, mixed)
      /\ old.status = 200 /\ old.meta = h.meta /\ h.meta \in Responses
      /\ Sound(old.body, old.meta, mixed)
      /\ old.kind.method = "GET" => old.body = h.body
  BY <1>1, <1>2 DEF GoodRequest, GoodStage, GoodClient, RequestState, Hit
<1>4. r \in RequestState
  <2>1. "served" \in Places
    BY DEF Places
  <2>2. QED
    BY <1>1, <2>1 DEF RequestState
<1>5. /\ r.pc = "served" /\ r.hit = None /\ r.tasks = old.tasks
      /\ r.kind = old.kind /\ r.status = 200 /\ r.meta = old.meta
      /\ r.body = old.body
  BY <1>1, <1>3 DEF RequestState
<1> HIDE DEF r
<1>6. GoodTasks(r, cut, mixed)
  BY <1>1, <1>2, <1>5, TaskIsGood DEF GoodTasks
<1>7. GoodStage(r)
  BY <1>3, <1>5 DEF GoodStage
<1>8. GoodClient(r, cut, mixed)
  BY <1>3, <1>5 DEF GoodClient, GoodHit, GoodCopy
<1>9. GoodRequest(r, cut, mixed)
  BY <1>5, <1>6, <1>7, <1>8 DEF GoodRequest
<1>10. QED
  BY <1>2, <1>4, <1>9, QuietStep DEF Inv, TypeOK

(* A request one of whose tasks is over.                                   *)
LEMMA TaskEnds ==
    ASSUME NEW old \in RequestState, GoodRequest(old, cut, mixed),
           NEW j \in {1, 2}, NEW r,
           r = [old EXCEPT !.tasks = [old.tasks EXCEPT ![j] = None]]
    PROVE  r \in RequestState /\ GoodRequest(r, cut, mixed)
<1> DEFINE t == [old.tasks EXCEPT ![j] = None]
<1>1. /\ t \in [{1, 2} -> Seq(Chunks) \cup {None}]
      /\ \A i \in {1, 2} : t[i] \in {None, old.tasks[i]}
      /\ old.tasks = NoTasks => t = NoTasks
  BY DEF RequestState, NoTasks
<1>2. r = [old EXCEPT !.tasks = t]
  OBVIOUS
<1> HIDE DEF t
<1>3. r \in RequestState
  BY <1>1, <1>2 DEF RequestState
<1>4. /\ r.pc = old.pc /\ r.hit = old.hit /\ r.tasks = t
      /\ r.kind = old.kind /\ r.status = old.status /\ r.meta = old.meta
      /\ r.body = old.body /\ r.chunk = old.chunk
  BY <1>2 DEF RequestState
<1>5. r.hit # None => GoodHit(r.hit, cut, mixed)
  BY <1>4 DEF GoodRequest
<1>6. GoodTasks(r, cut, mixed)
  BY <1>1, <1>4 DEF GoodRequest, GoodTasks
<1>7. GoodStage(r)
  BY <1>1, <1>4 DEF GoodRequest, GoodStage
<1>8. GoodClient(r, cut, mixed)
  BY <1>4 DEF GoodRequest, GoodClient
<1>9. QED
  BY <1>3, <1>5, <1>6, <1>7, <1>8 DEF GoodRequest

LEMMA TaskStep ==
    ASSUME Inv, NEW q \in Requests, NEW j \in {1, 2},
           TaskCommits(q, j) \/ TaskFails(q, j)
    PROVE  Inv'
<1> DEFINE old == req[q]
           r   == [old EXCEPT !.tasks = [old.tasks EXCEPT ![j] = None]]
<1>1. old \in RequestState /\ GoodRequest(old, cut, mixed)
  BY DEF Inv, TypeOK
<1>2. req' = [req EXCEPT ![q] = r] /\ UNCHANGED <<expired, cut, mixed>>
  BY DEF TaskCommits, TaskFails
<1>3. r \in RequestState /\ GoodRequest(r, cut, mixed)
  BY <1>1, TaskEnds
<1> HIDE DEF r
<1>4. tier' \in [Tiers -> Entry \cup {None}] /\ GoodTiers(tier', cut, mixed)
  <2>1. CASE TaskCommits(q, j)
    <3> DEFINE e == [meta |-> old.meta, body |-> old.tasks[j]]
    <3>1. /\ old.tasks[j] # None /\ (old.hit = None \/ old.pc = "join")
          /\ tier' = [tier EXCEPT ![j] = e]
      BY <2>1 DEF TaskCommits
    <3>2. /\ old.meta \in Responses /\ old.tasks[j] \in Seq(Chunks)
          /\ GoodCopy(old.tasks[j], old.meta, cut, mixed)
      BY <1>1, <3>1, TaskIsGood
    <3>3. /\ e \in Entry /\ GoodEntry(e, cut, mixed)
      BY <3>2 DEF Entry, GoodEntry
    <3> HIDE DEF e
    <3>4. QED
      BY <3>1, <3>3 DEF Inv, TypeOK, GoodTiers
  <2>2. CASE TaskFails(q, j)
    BY <2>2 DEF TaskFails, Inv, TypeOK
  <2>3. QED
    BY <2>1, <2>2
<1>5. QED
  BY <1>2, <1>3, <1>4, OneRequestSteps DEF Inv, TypeOK

(* What L0 gets of a hit.                                                  *)
LEMMA CommitIsGood ==
    ASSUME Inv, NEW h \in Hit, GoodHit(h, cut, mixed), CommitL0(h)
    PROVE  /\ cut' \in SUBSET Responses /\ cut \subseteq cut'
           /\ tier' \in [Tiers -> Entry \cup {None}]
           /\ GoodTiers(tier', cut', mixed)
<1>1. /\ h.meta \in Responses /\ h.cursor \in Nat /\ h.cursor <= Len(h.body)
      /\ Len(h.body) \in Nat
  BY DEF Hit, GoodHit
<1>2. CASE UNCHANGED <<tier, cut>>
  BY <1>2 DEF Inv, TypeOK
<1>3. CASE /\ tier' = IF h.buf = None THEN tier
                      ELSE [tier EXCEPT ![0] = [meta |-> h.meta, body |-> h.buf]]
           /\ cut' = cut \cup (IF h.buf # None /\ h.cursor < Len(h.body)
                               THEN {h.meta} ELSE {})
  <2>1. cut' \in SUBSET Responses /\ cut \subseteq cut'
    BY <1>1, <1>3 DEF Inv, TypeOK
  <2>2. GoodTiers(tier, cut', mixed)
    BY <2>1, GoodCopyStays DEF Inv, GoodTiers, GoodEntry
  <2>3. CASE h.buf = None
    BY <1>3, <2>1, <2>2, <2>3 DEF Inv, TypeOK
  <2>4. CASE h.buf # None
    <3> DEFINE e == [meta |-> h.meta, body |-> h.buf]
    <3>1. GoodCopy(h.body, h.meta, cut', mixed)
      BY <2>1, GoodCopyStays DEF GoodHit
    <3>2. Copies(h.buf, h.body, h.cursor, h.meta, cut', mixed)
      BY <2>1, <2>4, CopiesStays DEF GoodHit
    <3>3. h.cursor = Len(h.body) \/ h.meta \in cut'
      BY <1>1, <1>3, <2>4
    <3>4. GoodCopy(h.buf, h.meta, cut', mixed)
      BY <1>1, <3>1, <3>2, <3>3, CopyIsGood
    <3>5. h.buf \in Seq(Chunks)
      BY <2>4 DEF Hit
    <3>6. e \in Entry /\ GoodEntry(e, cut', mixed)
      BY <1>1, <3>4, <3>5 DEF Entry, GoodEntry
    <3>7. tier' = [tier EXCEPT ![0] = e]
      BY <1>3, <2>4
    <3> HIDE DEF e
    <3>8. QED
      BY <2>1, <2>2, <3>6, <3>7 DEF Inv, TypeOK, GoodTiers
  <2>5. QED
    BY <2>3, <2>4
<1>4. QED
  BY <1>2, <1>3 DEF CommitL0

LEMMA ServedStep ==
    ASSUME Inv, NEW q \in Requests, Served(q)
    PROVE  Inv'
<1> DEFINE old == req[q]
           h   == old.hit
           r   == [old EXCEPT !.pc = "served", !.hit = None]
<1>1. old \in RequestState /\ GoodRequest(old, cut, mixed)
  BY DEF Inv, TypeOK
<1>2. /\ old.pc = "join" /\ old.tasks = NoTasks /\ CommitL0(h)
      /\ UNCHANGED <<expired, mixed>> /\ req' = [req EXCEPT ![q] = r]
  BY DEF Served
<1>3. /\ h # None /\ h \in Hit /\ GoodHit(h, cut, mixed)
      /\ old.status = 200 /\ old.meta = h.meta /\ h.meta \in Responses
      /\ Sound(old.body, old.meta, mixed)
      /\ old.kind.method = "GET" => old.body = h.body
  BY <1>1, <1>2 DEF GoodRequest, GoodStage, GoodClient, RequestState, Hit
<1>4. /\ cut' \in SUBSET Responses /\ cut \subseteq cut'
      /\ tier' \in [Tiers -> Entry \cup {None}]
      /\ GoodTiers(tier', cut', mixed)
  BY <1>2, <1>3, CommitIsGood
<1>5. r \in RequestState
  <2>1. "served" \in Places
    BY DEF Places
  <2>2. QED
    BY <1>1, <2>1 DEF RequestState
<1>6. /\ r.pc = "served" /\ r.hit = None /\ r.tasks = NoTasks
      /\ r.kind = old.kind /\ r.status = 200 /\ r.meta = old.meta
      /\ r.body = old.body
  BY <1>1, <1>2, <1>3 DEF RequestState
<1> HIDE DEF r
<1>7. GoodTasks(r, cut, mixed) /\ GoodStage(r)
  BY <1>3, <1>6 DEF GoodTasks, GoodStage, NoTasks
<1>8. GoodClient(r, cut, mixed)
  BY <1>3, <1>6 DEF GoodClient, GoodHit, GoodCopy
<1>9. GoodRequest(r, cut', mixed)
  <2>1. GoodRequest(r, cut, mixed)
    BY <1>6, <1>7, <1>8 DEF GoodRequest
  <2>2. QED
    BY <1>4, <2>1, GoodRequestStays
<1>10. QED
  BY <1>2, <1>4, <1>5, <1>9, OneRequestSteps

LEMMA CleanupStep ==
    ASSUME Inv, NEW q \in Requests, Cleanup(q)
    PROVE  Inv'
<1> DEFINE old == req[q]
           h   == old.hit
           r   == [old EXCEPT !.pc = "not_modified", !.hit = None,
                              !.meta = h.meta]
<1>1. old \in RequestState /\ GoodRequest(old, cut, mixed)
  BY DEF Inv, TypeOK
<1>2. /\ old.pc = "cleanup" /\ CommitL0(h)
      /\ UNCHANGED <<expired, mixed>> /\ req' = [req EXCEPT ![q] = r]
  BY DEF Cleanup
<1>3. /\ h \in Hit /\ GoodHit(h, cut, mixed) /\ h.meta \in Responses
      /\ old.status = 0 /\ old.body = <<>> /\ old.tasks = NoTasks
  BY <1>1, <1>2 DEF GoodRequest, GoodStage, RequestState, Hit
<1>4. /\ cut' \in SUBSET Responses /\ cut \subseteq cut'
      /\ tier' \in [Tiers -> Entry \cup {None}]
      /\ GoodTiers(tier', cut', mixed)
  BY <1>2, <1>3, CommitIsGood
<1>5. r \in RequestState
  <2>1. "not_modified" \in Places
    BY DEF Places
  <2>2. \A m \in Responses :
          [old EXCEPT !.pc = "not_modified", !.hit = None, !.meta = m]
            \in RequestState
    BY <1>1, <2>1 DEF RequestState
  <2>3. QED
    BY <1>3, <2>2
<1>6. /\ r.pc = "not_modified" /\ r.hit = None /\ r.tasks = NoTasks
      /\ r.status = 0 /\ r.body = <<>>
  BY <1>1, <1>3 DEF RequestState
<1> HIDE DEF r
<1>7. GoodRequest(r, cut', mixed)
  BY <1>6 DEF GoodRequest, GoodTasks, GoodStage, GoodClient, NoTasks
<1>8. QED
  BY <1>2, <1>4, <1>5, <1>7, OneRequestSteps

LEMMA Updated ==
    ASSUME NEW old \in RequestState, NEW p \in Places, NEW s \in Statuses
    PROVE  [old EXCEPT !.pc = p, !.status = s] \in RequestState
BY DEF RequestState

LEMMA NotModifiedStep ==
    ASSUME Inv, NEW q \in Requests, WriteNotModified(q) \/ NotModifiedFails(q)
    PROVE  Inv'
<1> DEFINE old == req[q]
<1>1. old \in RequestState /\ GoodRequest(old, cut, mixed)
  BY DEF Inv, TypeOK
<1>2. /\ old.pc = "not_modified" /\ UNCHANGED <<tier, expired, cut, mixed>>
      /\ old.status = 0 /\ old.body = <<>> /\ old.tasks = NoTasks
      /\ old.hit = None
  BY <1>1 DEF WriteNotModified, NotModifiedFails, GoodRequest, GoodStage
<1>3. PICK p \in {"served", "error"}, s \in {0, 304} :
        req' = [req EXCEPT ![q] = [old EXCEPT !.pc = p, !.status = s]]
  <2>1. CASE WriteNotModified(q)
    BY <2>1 DEF WriteNotModified
  <2>2. CASE NotModifiedFails(q)
    <3>1. [old EXCEPT !.pc = "error"] = [old EXCEPT !.pc = "error", !.status = 0]
      BY <1>1, <1>2 DEF RequestState
    <3>2. QED
      BY <2>2, <3>1 DEF NotModifiedFails
  <2>3. QED
    BY <2>1, <2>2
<1> DEFINE r == [old EXCEPT !.pc = p, !.status = s]
<1>4. r \in RequestState
  <2>1. p \in Places
    BY DEF Places
  <2>2. s \in Statuses
    BY DEF Statuses
  <2>3. old \in RequestState
    BY <1>1
  <2> HIDE DEF old
  <2>4. [old EXCEPT !.pc = p, !.status = s] \in RequestState
    BY <2>1, <2>2, <2>3, Updated
  <2>5. QED
    BY <2>4
<1>5. /\ r.pc = p /\ r.hit = None /\ r.tasks = NoTasks
      /\ r.status = s /\ r.body = <<>>
  BY <1>1, <1>2 DEF RequestState
<1>6. req' = [req EXCEPT ![q] = r]
  BY <1>3
<1> HIDE DEF r
<1>7. GoodRequest(r, cut, mixed)
  BY <1>5 DEF GoodRequest, GoodTasks, GoodStage, GoodClient, NoTasks
<1>8. QED
  BY <1>2, <1>4, <1>6, <1>7, QuietStep DEF Inv, TypeOK
-----------------------------------------------------------------------------
(* The steps of the tiers, and the invariant.                              *)

LEMMA StorageStep ==
    ASSUME Inv, Storage
    PROVE  Inv'
<1>1. \A r \in Responses :
        /\ Body(r) \in Seq(Chunks)
        /\ [meta |-> r, body |-> Body(r)] \in Entry
        /\ GoodCopy(Body(r), r, cut, mixed)
  BY BodyIsExcerpt, BodyIsGood DEF Entry
<1>2. /\ tier \in [Tiers -> Entry \cup {None}] /\ GoodTiers(tier, cut, mixed)
      /\ {expired, cut, mixed} \subseteq SUBSET Responses
  BY DEF Inv, TypeOK
<1>3. req' = req /\ cut' = cut
  BY DEF Storage, Purge, Store, StoreLoses, Expire
<1>4. ASSUME tier' \in [Tiers -> Entry \cup {None}],
             GoodTiers(tier', cut, mixed'),
             expired' \in SUBSET Responses, mixed' \in SUBSET Responses,
             mixed \subseteq mixed'
      PROVE  Inv'
  <2>1. \A q \in Requests : GoodRequest(req[q], cut, mixed')
    BY <1>4, GoodRequestStays DEF Inv
  <2>2. QED
    BY <1>2, <1>3, <1>4, <2>1 DEF Inv, TypeOK
<1>5. CASE Purge
  <2>1. PICK failed : tier' = [i \in Tiers |-> IF i \in failed THEN tier[i]
                                               ELSE None]
    BY <1>5 DEF Purge
  <2>2. tier' \in [Tiers -> Entry \cup {None}] /\ GoodTiers(tier', cut, mixed)
    BY <1>2, <2>1 DEF GoodTiers, GoodEntry
  <2>3. QED
    BY <1>2, <1>4, <1>5, <2>2 DEF Purge
<1>6. ASSUME NEW r \in Responses, Store(r) PROVE Inv'
  <2> DEFINE e == [meta |-> r, body |-> Body(r)]
  <2>1. e \in Entry /\ GoodEntry(e, cut, mixed)
    BY <1>1 DEF GoodEntry
  <2>2. PICK failed :
          tier' = [i \in Tiers |-> IF (i = L3 \/ Admits(i, r)) /\ i \notin failed
                                   THEN e ELSE tier[i]]
    BY <1>6 DEF Store
  <2> HIDE DEF e
  <2>3. tier' \in [Tiers -> Entry \cup {None}] /\ GoodTiers(tier', cut, mixed)
    BY <1>2, <2>1, <2>2 DEF GoodTiers
  <2>4. QED
    BY <1>2, <1>4, <1>6, <2>3 DEF Store
<1>7. ASSUME NEW r \in Responses, StoreLoses(r) PROVE Inv'
  <2> DEFINE e == [meta |-> r, body |-> Body(r)]
             f == [tier[L3] EXCEPT !.body = Body(r)]
  <2>1. tier[L3] \in Entry /\ tier[L3].meta \in Responses
    BY <1>2, <1>7 DEF StoreLoses, Tiers, L3, Entry
  <2>2. mixed' \in SUBSET Responses /\ mixed \subseteq mixed'
        /\ tier[L3].meta \in mixed'
    BY <1>2, <1>7, <2>1 DEF StoreLoses
  <2>3. e \in Entry /\ GoodEntry(e, cut, mixed')
    BY <1>1, <2>2, GoodCopyStays DEF GoodEntry
  <2>4. f \in Entry /\ GoodEntry(f, cut, mixed')
    <3>1. f \in Entry /\ f.body = Body(r) /\ f.meta = tier[L3].meta
      BY <1>1, <2>1 DEF Entry
    <3>2. GoodCopy(Body(r), tier[L3].meta, cut, mixed')
      BY <2>2, BodyIsExcerpt DEF GoodCopy, Sound
    <3>3. QED
      BY <3>1, <3>2 DEF GoodEntry
  <2>5. GoodTiers(tier, cut, mixed')
    BY <1>2, <2>2, GoodCopyStays DEF GoodTiers, GoodEntry
  <2>6. PICK failed :
          tier' = [i \in Tiers |-> IF i = L3 THEN f
                                   ELSE IF Admits(i, r) /\ i \notin failed
                                     THEN e
                                   ELSE tier[i]]
    BY <1>7 DEF StoreLoses
  <2> HIDE DEF e, f
  <2>7. tier' \in [Tiers -> Entry \cup {None}] /\ GoodTiers(tier', cut, mixed')
    BY <1>2, <2>3, <2>4, <2>5, <2>6 DEF GoodTiers
  <2>8. QED
    BY <1>2, <1>4, <1>7, <2>2, <2>7 DEF StoreLoses
<1>8. ASSUME NEW r \in Responses, Expire(r) PROVE Inv'
  BY <1>2, <1>4, <1>8 DEF Expire
<1>9. QED
  BY <1>5, <1>6, <1>7, <1>8 DEF Storage

LEMMA InvInit == Init => Inv
<1> SUFFICES ASSUME Init PROVE Inv
  OBVIOUS
<1> DEFINE r == [pc |-> "idle", kind |-> None, hit |-> None,
                 tasks |-> NoTasks, chunk |-> None, stale |-> None,
                 status |-> 0, meta |-> None, body |-> <<>>]
<1>1. /\ "idle" \in Places /\ 0 \in Statuses /\ <<>> \in Seq(Chunks)
      /\ NoTasks \in [{1, 2} -> Seq(Chunks) \cup {None}]
  BY DEF Places, Statuses, NoTasks
<1>2. r \in RequestState
  BY <1>1 DEF RequestState
<1>3. GoodRequest(r, cut, mixed)
  BY DEF GoodRequest, GoodTasks, GoodStage, GoodClient, NoTasks
<1>4. req = [q \in Requests |-> r]
  BY DEF Init
<1> HIDE DEF r
<1>5. TypeOK
  BY <1>2, <1>4 DEF Init, TypeOK
<1>6. \A q \in Requests : GoodRequest(req[q], cut, mixed)
  BY <1>3, <1>4
<1>7. GoodTiers(tier, cut, mixed)
  BY DEF Init, GoodTiers, GoodEntry
<1>8. QED
  BY <1>5, <1>6, <1>7 DEF Inv

LEMMA InvStep == Inv /\ [Next]_vars => Inv'
<1> SUFFICES ASSUME Inv, [Next]_vars PROVE Inv'
  OBVIOUS
<1>1. CASE Storage
  BY <1>1, StorageStep
<1>2. ASSUME NEW q \in Requests, RequestFilter(q) PROVE Inv'
  BY <1>2, StartStep, LeaveLookupStep, DecideStep, WriteHeadersStep,
     ReadChunkStep, WriteChunkStep, WriteEndStep, FailStep, SpawnFailsStep,
     FinishFailsStep, TaskStep, ServedStep, CleanupStep, NotModifiedStep
  DEF RequestFilter
<1>3. CASE UNCHANGED vars
  BY <1>3 DEF vars, Inv, TypeOK
<1>4. QED
  BY <1>1, <1>2, <1>3 DEF Next

LEMMA InvHolds == Spec => []Inv
BY InvInit, InvStep, PTL DEF Spec
-----------------------------------------------------------------------------
(* Every request, hit and tier keeps its type.                             *)
THEOREM TypeCorrect == Spec => []TypeOK
<1>1. Inv => TypeOK
  BY DEF Inv
<1>2. QED
  BY <1>1, InvHolds, PTL

(* request_filter answers Ok(false) only with an untouched response, and   *)
(* no handler or task left in the middle of a body, whatever fails.        *)
THEOREM OriginIsAskedInTime == Spec => []OriginGetsUntouchedResponse
<1>1. Inv => OriginGetsUntouchedResponse
  <2> SUFFICES ASSUME Inv, NEW q \in Requests, req[q].pc = "origin"
               PROVE  /\ req[q].status = 0 /\ req[q].body = <<>>
                      /\ req[q].hit = None /\ req[q].tasks = NoTasks
    BY DEF OriginGetsUntouchedResponse
  <2>1. GoodStage(req[q])
    BY DEF Inv, GoodRequest
  <2>2. QED
    BY <2>1 DEF GoodStage
<1>2. QED
  BY <1>1, InvHolds, PTL

(* No client is given chunks of two responses, out of order or twice, nor  *)
(* of another response than that of its headers but where L3 mixed them.   *)
THEOREM BodiesBelongToHeaders == Spec => []BodyBelongsToHeaders
<1>1. Inv => BodyBelongsToHeaders
  <2> SUFFICES ASSUME Inv, NEW q \in Requests
               PROVE  /\ req[q].body # <<>> => req[q].status = 200
                      /\ OfOneResponse(req[q].body)
                      /\ \A i \in DOMAIN req[q].body :
                           req[q].meta \notin mixed
                             => req[q].body[i][1] = req[q].meta
    BY DEF BodyBelongsToHeaders
  <2> DEFINE b == req[q].body
  <2>1. /\ req[q].status # 200 => b = <<>>
        /\ req[q].status = 200 => Sound(b, req[q].meta, mixed)
    BY DEF Inv, GoodRequest, GoodStage, GoodClient
  <2>2. CASE req[q].status = 200
    <3>1. PICK s \in Responses :
            (req[q].meta \notin mixed => s = req[q].meta) /\ Excerpt(b, s)
      BY <2>1, <2>2 DEF Sound
    <3> HIDE DEF b
    <3>2. b \in Seq(Chunks) /\ DOMAIN b = 1 .. Len(b) /\ Len(b) \in Nat
      BY <3>1 DEF Excerpt
    <3>3. ASSUME NEW i \in 1 .. Len(b) PROVE b[i][1] = s /\ b[1][1] = s
      <4>1. 1 \in 1 .. Len(b)
        BY <3>2
      <4>2. QED
        BY <3>1, <4>1 DEF Excerpt
    <3>4. \A i, j \in 1 .. Len(b) : i < j => b[i][2] < b[j][2]
      BY <3>1 DEF Excerpt
    <3>5. QED
      BY <2>2, <3>1, <3>2, <3>3, <3>4 DEF b, OfOneResponse
  <2>3. CASE req[q].status # 200
    BY <2>1, <2>3 DEF OfOneResponse
  <2>4. QED
    BY <2>2, <2>3
<1>2. QED
  BY <1>1, InvHolds, PTL

(* Purges, stores, failures and other requests shorten what a request is   *)
(* served only by way of the promotions that the histories name.           *)
THEOREM WholeBodiesAreServed == Spec => []ServedIsWhole
<1>1. Inv => ServedIsWhole
  BY DEF Inv, GoodRequest, GoodClient, ServedIsWhole
<1>2. QED
  BY <1>1, InvHolds, PTL
-----------------------------------------------------------------------------
(* The contract.                                                           *)

(* Between its decision and its answer a request is one that the answer    *)
(* suits.                                                                  *)
Suits(r) ==
    /\ r.pc \in {"lookup", "headers", "body", "write", "finish", "join",
                 "cleanup", "not_modified"} => r.kind.method \in {"GET", "HEAD"}
    /\ r.pc \in {"headers", "cleanup", "not_modified"} => ~NoCache(r.kind)
    /\ r.pc = "headers" => ~NotModified(r.kind, r.hit.meta)
    /\ r.pc = "cleanup" => NotModified(r.kind, r.hit.meta)
    /\ r.pc = "not_modified" => r.meta \in Responses /\ NotModified(r.kind, r.meta)
    /\ r.pc \in {"body", "write"} => r.kind.method = "GET"

SuitsInv == \A q \in Requests : Suits(req[q])

(* A request leaves the others as they are.                                *)
LEMMA OthersStay ==
    ASSUME Inv, NEW q \in Requests, RequestFilter(q)
    PROVE  \A p \in Requests : p # q => req'[p] = req[p]
<1>1. req \in [Requests -> RequestState]
  BY DEF Inv, TypeOK
<1>2. \E r : req' = [req EXCEPT ![q] = r]
  <2>1. CASE \/ Start(q) \/ Miss(q) \/ KeepForOrigin(q) \/ DecideNotModified(q)
             \/ DecideServe(q) \/ LookupFails(q) \/ WriteHeaders(q)
             \/ WriteChunk(q) \/ WriteEnd(q) \/ Finish(q) \/ FinishFails(q)
             \/ Served(q) \/ Cleanup(q) \/ WriteNotModified(q)
             \/ NotModifiedFails(q)
    BY <2>1 DEF Start, Miss, KeepForOrigin, DecideNotModified, DecideServe,
      LookupFails, WriteHeaders, WriteChunk, WriteEnd, Finish, FinishFails,
      Served, Cleanup, WriteNotModified, NotModifiedFails
  <2>2. CASE ReadChunk(q)
    BY <2>2 DEF ReadChunk
  <2>3. CASE ReadFails(q) \/ SpawnFails(q) \/ WriteFails(q)
    BY <2>3 DEF ReadFails, SpawnFails, WriteFails, Drop
  <2>4. CASE \E j \in {1, 2} : TaskCommits(q, j) \/ TaskFails(q, j)
    BY <2>4 DEF TaskCommits, TaskFails
  <2>5. QED
    BY <2>1, <2>2, <2>3, <2>4 DEF RequestFilter
<1>3. QED
  BY <1>1, <1>2

LEMMA ReadChunkShape ==
    ASSUME NEW q \in Requests, ReadChunk(q)
    PROVE  \E g, t : req' = [req EXCEPT ![q] =
                      [@ EXCEPT !.pc = "write",
                                !.chunk = req[q].hit.body[req[q].hit.cursor + 1],
                                !.hit = g, !.tasks = t]]
<1> DEFINE h       == req[q].hit
           n       == h.cursor + 1
           c       == h.body[n]
           tasks   == IF h.cursor > 0 THEN req[q].tasks
                      ELSE [j \in {1, 2} |-> IF j \in h.lazy THEN <<>> ELSE None]
           running == {j \in {1, 2} : tasks[j] # None}
           Read(skip0) == [h EXCEPT !.cursor = n,
                                    !.buf = IF h.buf = None \/ skip0 THEN @
                                            ELSE Append(h.buf, c)]
           Sent(skip) == [j \in {1, 2} |-> IF j \in running \ skip
                                           THEN Append(tasks[j], c)
                                           ELSE tasks[j]]
<1>1. \E skip0 \in {FALSE, Faulty /\ h.buf # None},
         skip \in SUBSET (IF n > Capacity THEN running ELSE {}) :
         req' = [req EXCEPT ![q] = [@ EXCEPT !.pc = "write", !.chunk = c,
                                             !.hit = Read(skip0),
                                             !.tasks = Sent(skip)]]
  BY DEF ReadChunk
<1> HIDE DEF Read, Sent, running
<1>2. QED
  BY <1>1

LEMMA SuitsStep ==
    ASSUME Inv, SuitsInv, [Next]_vars
    PROVE  SuitsInv'
<1>1. CASE Storage \/ UNCHANGED vars
  <2>1. req' = req
    BY <1>1 DEF Storage, Purge, Store, StoreLoses, Expire, vars
  <2>2. QED
    BY <2>1 DEF SuitsInv
<1>2. ASSUME NEW q \in Requests, RequestFilter(q) PROVE SuitsInv'
  <2>1. /\ req[q] \in RequestState /\ GoodStage(req[q])
        /\ Suits(req[q]) /\ req \in [Requests -> RequestState]
    BY DEF Inv, TypeOK, SuitsInv, GoodRequest
  <2>2. Suits(req'[q])
    <3>1. CASE Start(q)
      BY <2>1, <3>1 DEF Start, Suits, RequestState
    <3>2. CASE Miss(q)
      BY <2>1, <3>2 DEF Miss, Suits, RequestState
    <3>3. CASE KeepForOrigin(q)
      BY <2>1, <3>3 DEF KeepForOrigin, Suits, RequestState
    <3>4. CASE LookupFails(q)
      BY <2>1, <3>4 DEF LookupFails, Suits, RequestState
    <3>5. CASE DecideNotModified(q)
      BY <2>1, <3>5 DEF DecideNotModified, Suits, RequestState
    <3>6. CASE DecideServe(q)
      BY <2>1, <3>6 DEF DecideServe, Suits, RequestState
    <3>7. CASE WriteHeaders(q)
      BY <2>1, <3>7 DEF WriteHeaders, Suits, RequestState
    <3>8. CASE WriteChunk(q)
      BY <2>1, <3>8 DEF WriteChunk, Suits, RequestState
    <3>9. CASE WriteEnd(q)
      BY <2>1, <3>9 DEF WriteEnd, Suits, RequestState
    <3>10. CASE Finish(q)
      BY <2>1, <3>10 DEF Finish, Suits, RequestState
    <3>11. CASE FinishFails(q)
      BY <2>1, <3>11 DEF FinishFails, Suits, RequestState
    <3>12. CASE Served(q)
      BY <2>1, <3>12 DEF Served, Suits, RequestState
    <3>13. CASE WriteNotModified(q)
      BY <2>1, <3>13 DEF WriteNotModified, Suits, RequestState
    <3>14. CASE NotModifiedFails(q)
      BY <2>1, <3>14 DEF NotModifiedFails, Suits, RequestState
    <3>15. CASE Cleanup(q)
      BY <2>1, <3>15 DEF Cleanup, Suits, RequestState, GoodStage, Hit
    <3>16. CASE ReadChunk(q)
      <4>1. PICK g, t : req' = [req EXCEPT ![q] =
                                 [@ EXCEPT !.pc = "write",
                                           !.chunk = req[q].hit.body[req[q].hit.cursor + 1],
                                           !.hit = g, !.tasks = t]]
        BY <3>16, ReadChunkShape
      <4>2. /\ req[q].pc = "body" /\ req'[q].pc = "write"
            /\ req'[q].kind = req[q].kind
        BY <2>1, <3>16, <4>1 DEF ReadChunk, RequestState
      <4>3. QED
        BY <2>1, <4>2 DEF Suits
    <3>17. CASE ReadFails(q) \/ SpawnFails(q) \/ WriteFails(q)
      <4>1. req'[q].pc = "error"
        BY <2>1, <3>17 DEF ReadFails, SpawnFails, WriteFails, Drop, RequestState
      <4>2. QED
        BY <4>1 DEF Suits
    <3>18. ASSUME NEW j \in {1, 2}, TaskCommits(q, j) \/ TaskFails(q, j)
          PROVE  Suits(req'[q])
      <4> DEFINE t == [req[q].tasks EXCEPT ![j] = None]
      <4>1. req' = [req EXCEPT ![q] = [req[q] EXCEPT !.tasks = t]]
        BY <3>18 DEF TaskCommits, TaskFails
      <4> HIDE DEF t
      <4>2. /\ req'[q].pc = req[q].pc /\ req'[q].kind = req[q].kind
            /\ req'[q].hit = req[q].hit /\ req'[q].meta = req[q].meta
        BY <2>1, <4>1 DEF RequestState
      <4>3. QED
        BY <2>1, <4>2 DEF Suits
    <3>19. QED
      BY <1>2, <3>1, <3>2, <3>3, <3>4, <3>5, <3>6, <3>7, <3>8, <3>9,
         <3>10, <3>11, <3>12, <3>13, <3>14, <3>15, <3>16, <3>17, <3>18
      DEF RequestFilter
  <2>3. QED
    BY <1>2, <2>1, <2>2, OthersStay DEF SuitsInv
<1>3. QED
  BY <1>1, <1>2 DEF Next

LEMMA SuitsInvariance == Spec => []SuitsInv
<1>1. Init => SuitsInv
  <2> SUFFICES ASSUME Init, NEW q \in Requests PROVE Suits(req[q])
    BY DEF SuitsInv
  <2>1. req[q].pc = "idle"
    BY DEF Init
  <2>2. QED
    BY <2>1 DEF Suits
<1>2. Inv /\ SuitsInv /\ [Next]_vars => SuitsInv'
  BY SuitsStep
<1>3. QED
  BY <1>1, <1>2, InvHolds, PTL DEF Spec

(* The exchange of a request that steps to r becomes what r looks like.    *)
LEMMA SeenStep ==
    ASSUME Inv, NEW q \in Requests, NEW r, req' = [req EXCEPT ![q] = r]
    PROVE  Exchange!Becomes(q, Seen(r))
<1>1. req \in [Requests -> RequestState]
  BY DEF Inv, TypeOK
<1>2. \A p \in Requests : req'[p] = IF p = q THEN r ELSE req[p]
  BY <1>1
<1>3. [p \in Requests |-> Seen(req'[p])]
        = [[p \in Requests |-> Seen(req[p])] EXCEPT ![q] = Seen(r)]
  <2>1. [[p \in Requests |-> Seen(req[p])] EXCEPT ![q] = Seen(r)]
          = [p \in Requests |-> IF p = q THEN Seen(r) ELSE Seen(req[p])]
    OBVIOUS
  <2>2. \A p \in Requests :
          Seen(req'[p]) = IF p = q THEN Seen(r) ELSE Seen(req[p])
    BY <1>2
  <2>3. QED
    BY <2>1, <2>2
<1>4. QED
  BY <1>3 DEF Exchange!Becomes

(* A step that shows nothing of itself.                                    *)
LEMMA HiddenStep ==
    ASSUME Inv, NEW q \in Requests, NEW r, req' = [req EXCEPT ![q] = r],
           Seen(r) = Seen(req[q])
    PROVE  \A p \in Requests : Seen(req'[p]) = Seen(req[p])
<1>1. req \in [Requests -> RequestState]
  BY DEF Inv, TypeOK
<1>2. QED
  BY <1>1

LEMMA SeenAs ==
    ASSUME NEW r, NEW o, NEW k, NEW s, NEW m, NEW b,
           Outcome(r.pc) = o, r.kind = k, r.status = s,
           (IF r.status = 0 THEN None ELSE r.meta) = m, r.body = b
    PROVE  Seen(r) = [outcome |-> o, kind |-> k, status |-> s, of |-> m,
                      body |-> b]
  BY DEF Seen

(* What a request in the middle looks like.                                *)
LEMMA OpenSeen ==
    ASSUME NEW q \in Requests,
           req[q].pc \notin {"idle", "origin", "served", "error"}
    PROVE  Exchange!Open(q, req[q].status)
  BY DEF Exchange!Open, Seen, Outcome

(* The rule of the code is that of the documentation and its exception.    *)
LEMMA MatchesMeansNotModified ==
    ASSUME NEW k, NEW r
    PROVE  /\ Exchange!Matches(k, r) => NotModified(k, r)
           /\ NotModified(k, r) => \/ Exchange!Matches(k, r)
                                   \/ Exchange!MatchesByDate(k, r)
BY DEF NotModified, ETagMatches, NotModifiedSince, Exchange!Matches,
       Exchange!MatchesByDate, Exchange!SameTag, Exchange!NotLater

LEMMA WantsMeansNoCache ==
    ASSUME NEW k
    PROVE  Exchange!Wants(k) <=> ~NoCache(k)
BY DEF Exchange!Wants, NoCache

(* The request arrives.                                                    *)
LEMMA StartShows ==
    ASSUME Inv, NEW q \in Requests, Start(q)
    PROVE  Exchange!Step(q)
<1> DEFINE old == req[q]
<1>1. PICK k \in Kinds :
        req' = [req EXCEPT ![q] =
                 [@ EXCEPT !.kind = k,
                           !.pc = IF k.method \in {"GET", "HEAD"}
                                  THEN "lookup" ELSE "origin"]]
  BY DEF Start
<1> DEFINE r == [old EXCEPT !.kind = k,
                            !.pc = IF k.method \in {"GET", "HEAD"}
                                   THEN "lookup" ELSE "origin"]
<1>2. Exchange!Becomes(q, Seen(r))
  BY <1>1, SeenStep
<1>3. old \in RequestState
  BY DEF Inv, TypeOK
<1>4. Seen(r) = [Seen(old) EXCEPT !.kind = k,
                                  !.outcome = IF k.method \in {"GET", "HEAD"}
                                              THEN "open" ELSE "origin"]
  <2>1. /\ r.kind = k /\ r.status = old.status /\ r.meta = old.meta
        /\ r.body = old.body
        /\ r.pc = IF k.method \in {"GET", "HEAD"} THEN "lookup" ELSE "origin"
    BY <1>3 DEF RequestState
  <2> HIDE DEF r
  <2>2. Outcome(r.pc) = IF k.method \in {"GET", "HEAD"}
                        THEN "open" ELSE "origin"
    BY <2>1 DEF Outcome
  <2>3. Seen(r) = [outcome |-> IF k.method \in {"GET", "HEAD"}
                               THEN "open" ELSE "origin",
                   kind |-> k, status |-> old.status,
                   of |-> IF old.status = 0 THEN None ELSE old.meta,
                   body |-> old.body]
    BY <2>1, <2>2, SeenAs
  <2>4. Seen(old) = [outcome |-> Outcome(old.pc), kind |-> old.kind,
                     status |-> old.status,
                     of |-> IF old.status = 0 THEN None ELSE old.meta,
                     body |-> old.body]
    BY DEF Seen
  <2>5. PICK x : x = [Seen(old) EXCEPT !.kind = k]
    OBVIOUS
  <2>6. x = [outcome |-> Outcome(old.pc), kind |-> k,
             status |-> old.status,
             of |-> IF old.status = 0 THEN None ELSE old.meta,
             body |-> old.body]
    BY <2>4, <2>5
  <2>7. Seen(r) = [x EXCEPT !.outcome = IF k.method \in {"GET", "HEAD"}
                                        THEN "open" ELSE "origin"]
    BY <2>3, <2>6
  <2>8. QED
    BY <2>5, <2>7
<1>5. Seen(old).outcome = "none"
  BY DEF Start, Seen, Outcome
<1> HIDE DEF r
<1>6. Exchange!Ask(q)
  BY <1>2, <1>4, <1>5 DEF Exchange!Ask
<1>7. QED
  BY <1>6 DEF Exchange!Step

(* The request is passed on.                                               *)
LEMMA PassOnShows ==
    ASSUME Inv, NEW q \in Requests, Miss(q) \/ KeepForOrigin(q)
    PROVE  Exchange!Step(q)
<1> DEFINE old == req[q]
<1>1. old \in RequestState /\ GoodStage(old)
  BY DEF Inv, TypeOK, GoodRequest
<1>2. old.pc = "lookup" /\ old.status = 0
  BY <1>1 DEF Miss, KeepForOrigin, GoodStage
<1>3. PICK s : req' = [req EXCEPT ![q] = [old EXCEPT !.pc = "origin", !.stale = s]]
  <2>1. CASE Miss(q)
    <3>1. req' = [req EXCEPT ![q] =
                   [old EXCEPT !.pc = "origin", !.stale = old.stale]]
      BY <1>1, <2>1 DEF Miss, RequestState
    <3>2. QED
      BY <3>1
  <2>2. CASE KeepForOrigin(q)
    BY <2>2 DEF KeepForOrigin
  <2>3. QED
    BY <2>1, <2>2
<1> DEFINE r == [old EXCEPT !.pc = "origin", !.stale = s]
<1>4. Exchange!Becomes(q, Seen(r))
  BY <1>3, SeenStep
<1>5. Seen(r) = [Seen(old) EXCEPT !.outcome = "origin"]
  BY <1>1 DEF Seen, Outcome, RequestState
<1>6. Exchange!Open(q, 0)
  BY <1>2, OpenSeen
<1> HIDE DEF r
<1>7. Exchange!PassOn(q)
  BY <1>4, <1>5, <1>6 DEF Exchange!PassOn
<1>8. QED
  BY <1>7 DEF Exchange!Step

(* The request fails.                                                      *)
LEMMA FailureShows ==
    ASSUME Inv, NEW q \in Requests,
           \/ LookupFails(q) \/ ReadFails(q) \/ SpawnFails(q) \/ WriteFails(q)
           \/ NotModifiedFails(q)
    PROVE  Exchange!Step(q)
<1> DEFINE old == req[q]
           r   == req'[q]
<1>1. old \in RequestState /\ req \in [Requests -> RequestState]
  BY DEF Inv, TypeOK
<1>2. \E x : req' = [req EXCEPT ![q] = x]
  <2>1. CASE LookupFails(q) \/ NotModifiedFails(q)
    BY <2>1 DEF LookupFails, NotModifiedFails
  <2>2. CASE ReadFails(q) \/ SpawnFails(q) \/ WriteFails(q)
    BY <2>2 DEF ReadFails, SpawnFails, WriteFails, Drop
  <2>3. QED
    BY <2>1, <2>2
<1>3. req' = [req EXCEPT ![q] = r]
  BY <1>1, <1>2
<1>4. /\ r.pc = "error" /\ r.kind = old.kind /\ r.status = old.status
      /\ r.meta = old.meta /\ r.body = old.body
  <2>1. CASE LookupFails(q)
    BY <1>1, <2>1 DEF LookupFails, RequestState
  <2>2. CASE NotModifiedFails(q)
    BY <1>1, <2>2 DEF NotModifiedFails, RequestState
  <2>3. ASSUME NEW t, NEW n, Drop(q, t, n)
        PROVE  /\ r.pc = "error" /\ r.kind = old.kind
               /\ r.status = old.status /\ r.meta = old.meta
               /\ r.body = old.body
    BY <1>1, <2>3 DEF Drop, RequestState
  <2>4. CASE ReadFails(q) \/ WriteFails(q)
    BY <2>3, <2>4 DEF ReadFails, WriteFails
  <2>5. CASE SpawnFails(q)
    <3>1. \E t : Drop(q, t, 1)
      BY <2>5 DEF SpawnFails
    <3>2. QED
      BY <2>3, <3>1
  <2>6. QED
    BY <2>1, <2>2, <2>4, <2>5
<1>5. Exchange!Becomes(q, Seen(r))
  BY <1>3, SeenStep
<1> HIDE DEF r
<1>6. Seen(r) = [Seen(old) EXCEPT !.outcome = "error"]
  BY <1>4 DEF Seen, Outcome
<1>7. Seen(old).outcome = "open"
  BY DEF LookupFails, ReadFails, SpawnFails, WriteFails, NotModifiedFails,
         Seen, Outcome
<1>8. Exchange!Fail(q)
  BY <1>5, <1>6, <1>7 DEF Exchange!Fail
<1>9. QED
  BY <1>8 DEF Exchange!Step

(* What only the tiers and the tasks see.                                  *)
LEMMA NothingShows ==
    ASSUME Inv, NEW q \in Requests,
           \/ DecideNotModified(q) \/ DecideServe(q) \/ ReadChunk(q)
           \/ WriteEnd(q) \/ Finish(q) \/ Cleanup(q)
           \/ \E j \in {1, 2} : TaskCommits(q, j) \/ TaskFails(q, j)
    PROVE  \A p \in Requests : Seen(req'[p]) = Seen(req[p])
<1> DEFINE old == req[q]
<1>1. old \in RequestState /\ GoodStage(old)
  BY DEF Inv, TypeOK, GoodRequest
<1>2. CASE DecideNotModified(q) \/ DecideServe(q)
  <2>1. PICK p \in {"cleanup", "headers"} :
          req' = [req EXCEPT ![q] = [old EXCEPT !.pc = p,
                                                !.hit = LookupResult.hit]]
    BY <1>2 DEF DecideNotModified, DecideServe
  <2>2. old.pc = "lookup"
    BY <1>2 DEF DecideNotModified, DecideServe
  <2>3. Seen([old EXCEPT !.pc = p, !.hit = LookupResult.hit]) = Seen(old)
    BY <1>1, <2>2 DEF Seen, Outcome, RequestState
  <2>4. QED
    BY <2>1, <2>3, HiddenStep
<1>3. CASE ReadChunk(q)
  <2>1. PICK g, t : req' = [req EXCEPT ![q] =
                             [old EXCEPT !.pc = "write",
                                         !.chunk = old.hit.body[old.hit.cursor + 1],
                                         !.hit = g, !.tasks = t]]
    BY <1>3, ReadChunkShape
  <2> DEFINE c == old.hit.body[old.hit.cursor + 1]
             r == [old EXCEPT !.pc = "write", !.chunk = c, !.hit = g, !.tasks = t]
  <2>2. old.pc = "body"
    BY <1>3 DEF ReadChunk
  <2>3. /\ r.pc = "write" /\ r.kind = old.kind /\ r.status = old.status
        /\ r.meta = old.meta /\ r.body = old.body
    BY <1>1 DEF RequestState
  <2>4. req' = [req EXCEPT ![q] = r]
    BY <2>1
  <2> HIDE DEF r
  <2>5. Seen(r) = Seen(old)
    BY <2>2, <2>3 DEF Seen, Outcome
  <2>6. QED
    BY <2>4, <2>5, HiddenStep
<1>4. CASE WriteEnd(q) \/ Finish(q)
  <2>1. /\ old.pc \in {"body", "finish"}
        /\ \E p \in {"finish", "join"} :
             req' = [req EXCEPT ![q] = [old EXCEPT !.pc = p]]
    <3>1. CASE WriteEnd(q)
      BY <3>1 DEF WriteEnd
    <3>2. CASE Finish(q)
      BY <1>1, <3>2 DEF Finish
    <3>3. QED
      BY <1>4, <3>1, <3>2
  <2>2. PICK p \in {"finish", "join"} :
          req' = [req EXCEPT ![q] = [old EXCEPT !.pc = p]]
    BY <2>1
  <2>3. Seen([old EXCEPT !.pc = p]) = Seen(old)
    BY <1>1, <2>1 DEF Seen, Outcome, RequestState
  <2>4. QED
    BY <2>2, <2>3, HiddenStep
<1>5. CASE Cleanup(q)
  <2> DEFINE r == [old EXCEPT !.pc = "not_modified", !.hit = None,
                              !.meta = old.hit.meta]
  <2>1. /\ old.pc = "cleanup" /\ old.status = 0
        /\ req' = [req EXCEPT ![q] = r]
    BY <1>1, <1>5 DEF Cleanup, GoodStage
  <2>2. /\ r.pc = "not_modified" /\ r.kind = old.kind
        /\ r.status = old.status /\ r.body = old.body
    BY <1>1 DEF RequestState
  <2> HIDE DEF r
  <2>3. Seen(r) = Seen(old)
    BY <2>1, <2>2 DEF Seen, Outcome
  <2>4. QED
    BY <2>1, <2>3, HiddenStep
<1>6. ASSUME NEW j \in {1, 2}, TaskCommits(q, j) \/ TaskFails(q, j)
      PROVE  \A p \in Requests : Seen(req'[p]) = Seen(req[p])
  <2> DEFINE t == [old.tasks EXCEPT ![j] = None]
             r == [old EXCEPT !.tasks = t]
  <2>1. req' = [req EXCEPT ![q] = r]
    BY <1>6 DEF TaskCommits, TaskFails
  <2> HIDE DEF t
  <2>2. /\ r.pc = old.pc /\ r.kind = old.kind /\ r.status = old.status
        /\ r.meta = old.meta /\ r.body = old.body
    BY <1>1 DEF RequestState
  <2> HIDE DEF r
  <2>3. Seen(r) = Seen(old)
    BY <2>2 DEF Seen
  <2>4. QED
    BY <2>1, <2>3, HiddenStep
<1>7. QED
  BY <1>2, <1>3, <1>4, <1>5, <1>6

(* The headers of a 200.                                                   *)
LEMMA WriteHeadersShows ==
    ASSUME Inv, SuitsInv, NEW q \in Requests, WriteHeaders(q)
    PROVE  Exchange!Step(q)
<1> DEFINE old == req[q]
           m   == old.hit.meta
           r   == req'[q]
<1>1. /\ old \in RequestState /\ req \in [Requests -> RequestState]
      /\ GoodStage(old) /\ Suits(old)
  BY DEF Inv, TypeOK, GoodRequest, SuitsInv
<1>2. old.pc = "headers" /\ old.status = 0 /\ m \in Responses
  BY <1>1 DEF WriteHeaders, GoodStage, RequestState, Hit
<1>3. \E x : req' = [req EXCEPT ![q] = x]
  BY DEF WriteHeaders
<1>4. req' = [req EXCEPT ![q] = r]
  BY <1>1, <1>3
<1>5. /\ r.pc \in {"finish", "body"} /\ r.kind = old.kind /\ r.status = 200
      /\ r.meta = m /\ r.body = old.body
  BY <1>1 DEF WriteHeaders, RequestState
<1>6. Exchange!Becomes(q, Seen(r))
  BY <1>4, SeenStep
<1> HIDE DEF r, m
<1>7. Seen(r) = [Seen(old) EXCEPT !.status = 200, !.of = m]
  <2>1. Outcome(r.pc) = "open" /\ Outcome(old.pc) = "open"
    BY <1>2, <1>5 DEF Outcome
  <2>2. Seen(r) = [outcome |-> "open", kind |-> old.kind, status |-> 200,
                   of |-> m, body |-> old.body]
    BY <1>5, <2>1, SeenAs
  <2>3. Seen(old) = [outcome |-> "open", kind |-> old.kind, status |-> 0,
                     of |-> None, body |-> old.body]
    BY <1>2, <2>1, SeenAs
  <2>4. PICK x : x = [Seen(old) EXCEPT !.status = 200]
    OBVIOUS
  <2>5. x = [outcome |-> "open", kind |-> old.kind, status |-> 200,
             of |-> None, body |-> old.body]
    BY <2>3, <2>4
  <2>6. Seen(r) = [x EXCEPT !.of = m]
    BY <2>2, <2>5
  <2>7. QED
    BY <2>4, <2>6
<1>8. Exchange!Open(q, 0) /\ Seen(old).kind = old.kind
  BY <1>2, OpenSeen DEF Seen
<1>9. Exchange!Wants(old.kind) /\ ~Exchange!Matches(old.kind, m)
  BY <1>1, <1>2, WantsMeansNoCache, MatchesMeansNotModified DEF Suits, m
<1>10. Exchange!Begin(q)
  BY <1>2, <1>6, <1>7, <1>8, <1>9 DEF Exchange!Begin
<1>11. QED
  BY <1>10 DEF Exchange!Step

(* What the client is sent continues what it has.                          *)
LEMMA ChunkContinues ==
    ASSUME Inv, NEW q \in Requests, req[q].pc = "write"
    PROVE  \E s \in Responses : \E n \in 1 .. Length[s] :
              /\ req[q].chunk = <<s, n>>
              /\ Exchange!Continues(req[q].body, s, n, req[q].meta)
<1> DEFINE old == req[q]
           b   == old.body
           h   == old.hit
           k   == h.cursor
<1>1. /\ old \in RequestState /\ GoodStage(old)
      /\ GoodClient(old, cut, mixed)
      /\ old.hit # None => GoodHit(old.hit, cut, mixed)
  BY DEF Inv, TypeOK, GoodRequest
<1>2. /\ h \in Hit /\ GoodHit(h, cut, mixed) /\ old.meta = h.meta
      /\ h.meta \in Responses
  BY <1>1 DEF GoodStage, RequestState, Hit
<1>3. PICK s \in Responses : /\ h.meta \notin mixed => s = h.meta
                             /\ Excerpt(h.body, s)
  BY <1>2 DEF GoodHit, GoodCopy, Sound
<1>4. /\ k \in 1 .. Len(h.body) /\ Len(h.body) \in Nat
      /\ Same(b, h.body, k - 1) /\ old.chunk = h.body[k]
  BY <1>1, <1>2, <1>3 DEF GoodClient, GoodHit, Hit, Excerpt
<1>5. /\ Len(b) = k - 1 /\ \A i \in 1 .. (k - 1) : b[i] = h.body[i]
      /\ b \in Seq(Chunks)
  BY <1>4 DEF Same
<1> DEFINE n == old.chunk[2]
<1>6. n \in 1 .. Length[s] /\ old.chunk[1] = s
  BY <1>3, <1>4 DEF Excerpt
<1>7. old.chunk \in Chunks
  BY <1>3, <1>4 DEF Excerpt
<1>8. old.chunk = <<s, n>>
  BY <1>6, <1>7 DEF Chunks
<1>9. ASSUME b # <<>> PROVE b[Len(b)][1] = s /\ b[Len(b)][2] < n
  <2>1. Len(b) \in 1 .. (k - 1)
    BY <1>4, <1>5, <1>9
  <2>2. b[Len(b)] = h.body[Len(b)]
    BY <1>5, <2>1
  <2>3. Len(b) \in 1 .. Len(h.body) /\ Len(b) < k
    <3> DEFINE l == Len(b)
               w == Len(h.body)
    <3>1. k \in 1 .. w /\ w \in Nat /\ l \in 1 .. (k - 1)
      BY <1>4, <2>1
    <3> HIDE DEF l, w, k
    <3>2. l \in 1 .. w /\ l < k
      BY <3>1
    <3>3. QED
      BY <3>2 DEF l, w, k
  <2>4. QED
    BY <1>3, <1>4, <2>2, <2>3 DEF Excerpt
<1>10. ASSUME old.meta \notin cut \cup mixed PROVE n = Len(b) + 1
  <2>1. h.body = Body(h.meta)
    BY <1>2, <1>10 DEF GoodHit, GoodCopy
  <2>2. Len(h.body) = Length[h.meta]
    BY <1>2, <2>1, ConstantsAssumption DEF Body
  <2>3. h.body[k] = <<h.meta, k>>
    BY <1>4, <2>1, <2>2 DEF Body
  <2>4. QED
    BY <1>4, <1>5, <2>3
<1> HIDE DEF n
<1>11. Exchange!Continues(b, s, n, old.meta)
  BY <1>2, <1>3, <1>9, <1>10 DEF Exchange!Continues
<1>12. QED
  BY <1>6, <1>8, <1>11

(* A chunk.                                                                *)
LEMMA WriteChunkShows ==
    ASSUME Inv, SuitsInv, NEW q \in Requests, WriteChunk(q)
    PROVE  Exchange!Step(q)
<1> DEFINE old == req[q]
           r   == req'[q]
<1>1. /\ old \in RequestState /\ req \in [Requests -> RequestState]
      /\ GoodStage(old) /\ Suits(old)
  BY DEF Inv, TypeOK, GoodRequest, SuitsInv
<1>2. /\ old.pc = "write" /\ old.status = 200 /\ old.kind.method = "GET"
      /\ old.status # 0
  BY <1>1 DEF WriteChunk, GoodStage, Suits
<1>3. \E x : req' = [req EXCEPT ![q] = x]
  BY DEF WriteChunk
<1>4. req' = [req EXCEPT ![q] = r]
  BY <1>1, <1>3
<1>5. PICK c : c = Append(old.body, old.chunk)
  OBVIOUS
<1>6. /\ r.pc = "body" /\ r.kind = old.kind /\ r.status = old.status
      /\ r.meta = old.meta /\ r.body = c
  BY <1>1, <1>5 DEF WriteChunk, RequestState
<1>7. Exchange!Becomes(q, Seen(r))
  BY <1>4, SeenStep
<1> HIDE DEF r
<1>8. Outcome(r.pc) = "open" /\ Outcome(old.pc) = "open"
  BY <1>2, <1>6 DEF Outcome
<1>9. Seen(r) = [Seen(old) EXCEPT !.body = c]
  <2>1. Seen(r) = [outcome |-> "open", kind |-> old.kind, status |-> 200,
                   of |-> old.meta, body |-> c]
    BY <1>2, <1>6, <1>8, SeenAs
  <2>2. Seen(old) = [outcome |-> "open", kind |-> old.kind, status |-> 200,
                     of |-> old.meta, body |-> old.body]
    BY <1>2, <1>8, SeenAs
  <2>3. QED
    BY <2>1, <2>2
<1>10. /\ Seen(old).of = old.meta /\ Seen(old).body = old.body
       /\ Seen(old).kind = old.kind
  BY <1>2 DEF Seen
<1>11. PICK s \in Responses : \E n \in 1 .. Length[s] :
          /\ old.chunk = <<s, n>>
          /\ Exchange!Continues(old.body, s, n, old.meta)
  BY <1>2, ChunkContinues
<1>12. PICK n \in 1 .. Length[s] :
          /\ old.chunk = <<s, n>>
          /\ Exchange!Continues(old.body, s, n, old.meta)
  BY <1>11
<1>13. Seen(r) = [Seen(old) EXCEPT !.body = Append(@, <<s, n>>)]
  BY <1>5, <1>9, <1>10, <1>12
<1>14. Exchange!Open(q, 200)
  BY <1>2, OpenSeen
<1> DEFINE e == [p \in Requests |-> Seen(req[p])]
<1>15. e[q] = Seen(old)
  OBVIOUS
<1> HIDE DEF e
<1>16. /\ Exchange!Becomes(q, [e[q] EXCEPT !.body = Append(@, <<s, n>>)])
       /\ e[q].kind.method = "GET"
       /\ Exchange!Continues(e[q].body, s, n, e[q].of)
  <2>1. Seen(r) = [e[q] EXCEPT !.body = Append(@, <<s, n>>)]
    BY <1>13, <1>15, Zenon
  <2>2. e[q].kind.method = "GET"
    BY <1>2, <1>10, <1>15
  <2>3. Exchange!Continues(e[q].body, s, n, e[q].of)
    BY <1>10, <1>12, <1>15, Zenon
  <2>4. QED
    BY <1>7, <2>1, <2>2, <2>3, Zenon
<1> USE DEF e
<1>17. Exchange!Send(q)
  BY <1>14, <1>16 DEF Exchange!Send
<1>18. QED
  BY <1>17 DEF Exchange!Step

(* The end of a 200.                                                       *)
LEMMA EndShows ==
    ASSUME Inv, SuitsInv, NEW q \in Requests, Served(q) \/ FinishFails(q)
    PROVE  Exchange!Step(q)
<1> DEFINE old == req[q]
           r   == req'[q]
<1>1. /\ old \in RequestState /\ req \in [Requests -> RequestState]
      /\ GoodStage(old) /\ Suits(old) /\ GoodClient(old, cut, mixed)
      /\ old.hit # None => GoodHit(old.hit, cut, mixed)
  BY DEF Inv, TypeOK, GoodRequest, SuitsInv
<1>2. old.pc \in {"finish", "join"}
  BY DEF Served, FinishFails
<1>3. /\ old.status = 200 /\ old.status # 0 /\ old.meta = old.hit.meta
      /\ old.kind.method \in {"GET", "HEAD"}
      /\ old.hit # None /\ old.meta \in Responses
  BY <1>1, <1>2 DEF GoodStage, Suits
<1>4. req' = [req EXCEPT ![q] = [@ EXCEPT !.pc = "served", !.hit = None]]
  BY DEF Served, FinishFails
<1>5. req' = [req EXCEPT ![q] = r]
  BY <1>1, <1>4
<1>6. /\ r.pc = "served" /\ r.kind = old.kind /\ r.status = old.status
      /\ r.meta = old.meta /\ r.body = old.body
  BY <1>1, <1>4 DEF RequestState
<1>7. Exchange!Becomes(q, Seen(r))
  BY <1>5, SeenStep
<1> HIDE DEF r
<1>8. Seen(r) = [Seen(old) EXCEPT !.outcome = "served"]
  BY <1>6 DEF Seen, Outcome
<1>9. /\ Seen(old).of = old.meta /\ Seen(old).body = old.body
      /\ Seen(old).kind = old.kind
  BY <1>3 DEF Seen
<1>10. \/ old.kind.method = "HEAD"
       \/ Len(old.body) = Length[old.meta]
       \/ old.meta \in cut \cup mixed
  <2> SUFFICES ASSUME old.kind.method = "GET", old.meta \notin cut \cup mixed
               PROVE  Len(old.body) = Length[old.meta]
    BY <1>3
  <2>1. old.body = Body(old.meta)
    BY <1>1, <1>2, <1>3 DEF GoodClient, GoodHit, GoodCopy
  <2>2. QED
    BY <1>3, <2>1, ConstantsAssumption DEF Body
<1>11. Exchange!Open(q, 200)
  BY <1>2, <1>3, OpenSeen
<1>12. Exchange!End(q)
  BY <1>7, <1>8, <1>9, <1>10, <1>11 DEF Exchange!End
<1>13. QED
  BY <1>12 DEF Exchange!Step

(* The 304.                                                                *)
LEMMA NotModifiedShows ==
    ASSUME Inv, SuitsInv, NEW q \in Requests, WriteNotModified(q)
    PROVE  Exchange!Step(q)
<1> DEFINE old == req[q]
           r   == req'[q]
<1>1. /\ old \in RequestState /\ req \in [Requests -> RequestState]
      /\ GoodStage(old) /\ Suits(old)
  BY DEF Inv, TypeOK, GoodRequest, SuitsInv
<1>2. /\ old.pc = "not_modified" /\ old.status = 0 /\ old.meta \in Responses
      /\ ~NoCache(old.kind) /\ NotModified(old.kind, old.meta)
  BY <1>1 DEF WriteNotModified, GoodStage, Suits
<1>3. req' = [req EXCEPT ![q] = [@ EXCEPT !.pc = "served", !.status = 304]]
  BY DEF WriteNotModified
<1>4. req' = [req EXCEPT ![q] = r]
  BY <1>1, <1>3
<1>5. /\ r.pc = "served" /\ r.kind = old.kind /\ r.status = 304
      /\ r.meta = old.meta /\ r.body = old.body
  BY <1>1, <1>3 DEF RequestState
<1>6. Exchange!Becomes(q, Seen(r))
  BY <1>4, SeenStep
<1> HIDE DEF r
<1>7. Seen(r) = [Seen(old) EXCEPT !.status = 304, !.of = old.meta,
                                  !.outcome = "served"]
  <2>1. Outcome(r.pc) = "served" /\ Outcome(old.pc) = "open"
    BY <1>2, <1>5 DEF Outcome
  <2>2. Seen(r) = [outcome |-> "served", kind |-> old.kind, status |-> 304,
                   of |-> old.meta, body |-> old.body]
    BY <1>5, <2>1, SeenAs
  <2>3. Seen(old) = [outcome |-> "open", kind |-> old.kind, status |-> 0,
                     of |-> None, body |-> old.body]
    BY <1>2, <2>1, SeenAs
  <2>4. PICK x : x = [Seen(old) EXCEPT !.status = 304]
    OBVIOUS
  <2>5. x = [outcome |-> "open", kind |-> old.kind, status |-> 304,
             of |-> None, body |-> old.body]
    BY <2>3, <2>4
  <2>6. PICK y : y = [x EXCEPT !.of = old.meta]
    OBVIOUS
  <2>7. y = [outcome |-> "open", kind |-> old.kind, status |-> 304,
             of |-> old.meta, body |-> old.body]
    BY <2>5, <2>6
  <2>8. Seen(r) = [y EXCEPT !.outcome = "served"]
    BY <2>2, <2>7
  <2>9. QED
    BY <2>4, <2>6, <2>8
<1>8. Exchange!Open(q, 0) /\ Seen(old).kind = old.kind
  BY <1>2, OpenSeen DEF Seen
<1>9. /\ Exchange!Wants(old.kind)
      /\ \/ Exchange!Matches(old.kind, old.meta)
         \/ Exchange!MatchesByDate(old.kind, old.meta)
  BY <1>2, WantsMeansNoCache, MatchesMeansNotModified
<1> DEFINE e == [p \in Requests |-> Seen(req[p])]
<1>10. e[q] = Seen(old)
  OBVIOUS
<1> HIDE DEF e
<1>11. Exchange!Becomes(q, [e[q] EXCEPT !.status = 304, !.of = old.meta,
                                        !.outcome = "served"])
  BY <1>6, <1>7, <1>10
<1>12. /\ Exchange!Wants(e[q].kind)
       /\ \/ Exchange!Matches(e[q].kind, old.meta)
          \/ Exchange!MatchesByDate(e[q].kind, old.meta)
  BY <1>8, <1>9, <1>10
<1> USE DEF e
<1>13. Exchange!AnswerNotModified(q)
  BY <1>2, <1>8, <1>11, <1>12 DEF Exchange!AnswerNotModified
<1>14. QED
  BY <1>13 DEF Exchange!Step

(* What has been cut or mixed up stays so.                                 *)
LEMMA HistoriesGrow ==
    ASSUME [Next]_vars
    PROVE  cut \subseteq cut' /\ mixed \subseteq mixed'
<1>1. CASE Storage \/ UNCHANGED vars
  BY <1>1 DEF Storage, Purge, Store, StoreLoses, Expire, vars
<1>2. ASSUME NEW q \in Requests, RequestFilter(q)
      PROVE  cut \subseteq cut' /\ mixed \subseteq mixed'
  <2>1. CASE \/ Start(q) \/ Miss(q) \/ KeepForOrigin(q) \/ DecideNotModified(q)
             \/ DecideServe(q) \/ LookupFails(q) \/ WriteHeaders(q)
             \/ WriteChunk(q) \/ WriteEnd(q) \/ Finish(q) \/ FinishFails(q)
             \/ WriteNotModified(q) \/ NotModifiedFails(q)
    BY <2>1 DEF Start, Miss, KeepForOrigin, DecideNotModified, DecideServe,
      LookupFails, WriteHeaders, WriteChunk, WriteEnd, Finish, FinishFails,
      WriteNotModified, NotModifiedFails
  <2>2. CASE Served(q) \/ Cleanup(q)
    BY <2>2 DEF Served, Cleanup, CommitL0
  <2>3. CASE ReadChunk(q)
    BY <2>3 DEF ReadChunk
  <2>4. CASE ReadFails(q) \/ SpawnFails(q) \/ WriteFails(q)
    BY <2>4 DEF ReadFails, SpawnFails, WriteFails, Drop
  <2>5. CASE \E j \in {1, 2} : TaskCommits(q, j) \/ TaskFails(q, j)
    BY <2>5 DEF TaskCommits, TaskFails
  <2>6. QED
    BY <1>2, <2>1, <2>2, <2>3, <2>4, <2>5 DEF RequestFilter
<1>3. QED
  BY <1>1, <1>2 DEF Next

(* Every client sees the contract, however many requests there are, and    *)
(* whatever is stored, promoted, purged or fails meanwhile: one answer,    *)
(* begun once, continued in order, ended whole unless some promotion of    *)
(* that response was cut short before, and Not Modified only if the        *)
(* response matches by the rule of the documentation or, for a request     *)
(* with both validators, by its date.                                      *)
THEOREM ImplementsExchange == Spec => ExchangeSpec
<1>1. Init => Exchange!Init
  <2> SUFFICES ASSUME Init PROVE Exchange!Init
    OBVIOUS
  <2>1. \A q \in Requests :
          Seen(req[q]) = [outcome |-> "none", kind |-> None, status |-> 0,
                          of |-> None, body |-> <<>>]
    BY DEF Init, Seen, Outcome
  <2>2. QED
    BY <2>1 DEF Init, Exchange!Init
<1>2. Inv /\ SuitsInv /\ [Next]_vars => [Exchange!Next]_(Exchange!vars)
  <2> SUFFICES ASSUME Inv, SuitsInv, [Next]_vars PROVE Exchange!Next
    OBVIOUS
  <2>1. cut \subseteq cut' /\ mixed \subseteq mixed'
    BY HistoriesGrow
  <2>2. \/ \A p \in Requests : Seen(req'[p]) = Seen(req[p])
        \/ \E q \in Requests : Exchange!Step(q)
    <3>1. CASE Storage \/ UNCHANGED vars
      BY <3>1 DEF Storage, Purge, Store, StoreLoses, Expire, vars
    <3>2. ASSUME NEW q \in Requests, RequestFilter(q)
          PROVE  \/ \A p \in Requests : Seen(req'[p]) = Seen(req[p])
                 \/ Exchange!Step(q)
      <4>1. CASE Start(q)
        BY <4>1, StartShows
      <4>2. CASE Miss(q) \/ KeepForOrigin(q)
        BY <4>2, PassOnShows
      <4>3. CASE \/ LookupFails(q) \/ ReadFails(q) \/ SpawnFails(q)
                 \/ WriteFails(q) \/ NotModifiedFails(q)
        BY <4>3, FailureShows
      <4>4. CASE \/ DecideNotModified(q) \/ DecideServe(q) \/ ReadChunk(q)
                 \/ WriteEnd(q) \/ Finish(q) \/ Cleanup(q)
                 \/ \E j \in {1, 2} : TaskCommits(q, j) \/ TaskFails(q, j)
        BY <4>4, NothingShows
      <4>5. CASE WriteHeaders(q)
        BY <4>5, WriteHeadersShows
      <4>6. CASE WriteChunk(q)
        BY <4>6, WriteChunkShows
      <4>7. CASE Served(q) \/ FinishFails(q)
        BY <4>7, EndShows
      <4>8. CASE WriteNotModified(q)
        BY <4>8, NotModifiedShows
      <4>9. QED
        BY <3>2, <4>1, <4>2, <4>3, <4>4, <4>5, <4>6, <4>7, <4>8
        DEF RequestFilter
    <3>3. QED
      BY <3>1, <3>2 DEF Next
  <2>3. CASE \A p \in Requests : Seen(req'[p]) = Seen(req[p])
    <3>1. [q \in Requests |-> Seen(req'[q])] = [q \in Requests |-> Seen(req[q])]
      BY <2>3
    <3>2. QED
      BY <2>1, <3>1 DEF Exchange!Next
  <2>4. CASE \E q \in Requests : Exchange!Step(q)
    BY <2>1, <2>4 DEF Exchange!Next
  <2>5. QED
    BY <2>2, <2>3, <2>4
<1>3. QED
  BY <1>1, <1>2, InvHolds, SuitsInvariance, PTL
  DEF Spec, ExchangeSpec, Exchange!Spec
=============================================================================
