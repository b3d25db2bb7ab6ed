# Verification of pingora-demo

TLA+ models of the image cache in `src/`, checked with TLC, and proofs about
them checked with TLAPS. Paths such as `durable.rs:222` are below
`src/src/storage/` or `src/src/` of this workspace (`src/storage/`, `src/` of
the repository).

## 1. The system

A Pingora proxy looks every GET and HEAD up in a cache of up to four tiers and
serves the hit, answers 304, or goes to the origin. All code is async Rust on
tokio; shared state is behind `Arc<Mutex<..>>`, each mutex held for one call.

| Component | State | Operations | Talks to |
|---|---|---|---|
| Proxy (`proxy.rs`) | per-request `RequestCtx` (key, stale meta, stale hit) | `request_filter`, `CacheDecision::from_lookup` | `Storage::lookup`, `HitHandler::{read_body, finish}` |
| HTTP parsing (`proxy.rs`) | none | Cache-Control, ETag lists, three date formats | proxy |
| Keys and metadata (`cache.rs`) | none | `CacheKey::from`, `CacheMeta::{new, is_fresh}` | all |
| Tiered cache (`multi_tier.rs`) | four tiers, `Policy` | `lookup`, `get_miss_handler`, `purge`, `update_meta`, `touch` | each tier, top down |
| Fan-out fill (`FanoutMiss`) | a miss handler per tier, bytes so far | `write_body`, `finish` | each tier's miss handler |
| Promotion (`HitFromL1PromoteL0`, `HitFromLower`) | L0's miss handler; a channel of 64 chunks and a task for L1 and for L2 | `read_body`, `finish`, drop | the tasks |
| Memory tiers (`MemoryStore`) | key -> (meta, body) | the `Storage` calls | - |
| Durable tier (`durable.rs`) | none of its own | the `Storage` calls, `BlobMiss` | index store, blob store |
| Index and blob store (`memory.rs`) | key -> manifest; object -> body | `get, put_new, cas_update, delete, touch_ttl`; `get, put, delete` | - |
| Metadata codec (`durable.rs`) | none | `serialize_meta`, `deserialize_meta` | durable tier |
| Policy (`policy.rs`) | limits and promotion modes | `parse_content_length` | tiered cache |

`main.rs` prints a greeting; no code in the repository connects a response of
the origin to a fill yet, so fills, purges and updates are the calls any user of
the `Storage` trait may make.

What is hard:

* A method of the durable tier is several store calls, and the calls of
  concurrent methods interleave between them. Correctness rests on `put_new`
  and `cas_update`.
* A purge walks down the tiers, fills and promotions write them one by one, and
  nothing orders them against each other.
* Promotion runs beside the client's read: channels overflow, clients go away,
  tiers fail, and `finish` has to wait for tasks that wait for `finish`.
* Two expiry times (manifest, metadata), two lengths (declared, actual) and two
  versions (manifest, the one a client carries) describe one entry.

Per component, what makes it correct:

* durable tier: one winner per version; nothing that has been purged comes back
  under an old version; a purge ends what it found; a manifest has a body;
* promotion: what is committed is what was read; nothing outlives a `finish`
  that answers Ok; `finish` returns and tasks left alone end; promotion does not
  hurt the client;
* tiered cache: a purge is final, size gates hold, expired is not fresh;
* proxy: the origin is asked only with an untouched response, a complete
  response is sent exactly once, conditional headers in the order of RFC 7232;
* HTTP parsing: dates are compared as the calendar orders them; a client is told
  304 only for what it holds, and is not sent again what it names;
* codec: what a manifest is given comes out of it.

`PROJECT.json` lists the hazards with their lines and the properties that cover
them.

## 2. Modules

| Module | Models | Notes |
|---|---|---|
| `DurableTier` | `durable.rs` and the two stores of `memory.rs` | one step per store call |
| `EntryLifecycle` | the abstract specification of an index entry | refined by `DurableTier` |
| `MCDurableTier` | instances for TLC | symmetry of clients |
| `DurableTierProofs` | theorems | |
| `StreamPromotion` | `HitFromLower`, `HitFromL1PromoteL0`, their tasks | one hit; fair version |
| `PromotionContract` | what promotion promises of a hit | refined by `StreamPromotion` |
| `StreamPromotionProofs` | theorems | |
| `MultiTier` | `MultiTier`, `FanoutMiss`, `MemoryStore`, `Policy` | one step per visit to a tier |
| `MCMultiTier` | instances for TLC | sizes, limits, policies |
| `MultiTierProofs` | theorems | |
| `ProxyRequest` | `request_filter`, `CacheDecision` of `proxy.rs`, over four tiers with promotion | one step per await |
| `ClientExchange` | what the proxy promises its clients | refined by `ProxyRequest` |
| `MCProxyRequest` | instances for TLC | responses and request headers |
| `ProxyRequestProofs` | theorems | |
| `HttpDate` | `parse_http_date`, `timestamp_from_components`, `matches_if_modified_since` | one step per turn of a loop |
| `MCHttpDate` | an instance for TLC | dates at every boundary |
| `HttpDateProofs` | theorems | |
| `MetaCodec` | `serialize_meta`, `deserialize_meta`, `CacheMeta` | functions |
| `MetaCodecProofs` | the round trip | |
| `RequestHeaders` | `parse_etag`, `parse_if_none_match`, `matches_etag`, `parse_cache_control` | functions |
| `Revalidation` | `set_cache_headers`, the headers of a 304, and the decision, down to the header values | composes `MetaCodec` and `RequestHeaders` with a client |
| `MCRevalidation` | an instance for TLC | validators of seven versions |
| `RequestHeadersProofs` | what the parsers of `RequestHeaders` compute | |
| `RevalidationProofs` | theorems | |

### DurableTier

`index` and `blob` are the two maps of `memory.rs`, `now` the clock, `task` the
locals of each call in flight. A client looks a key up and may refill under the
version it saw, or makes one call. `lookup` is two steps (`LookupIndex`,
`LookupBlob`), `BlobMiss::finish` two (`FillComplete`, then `FillPutNew`,
`FillCas` or `FillLoses`), `purge` up to four (`PurgeGet`, `PurgeBump`,
`PurgeBlob`, `PurgeIndex`), `update_meta` two, `touch` one. Helpers named for
the store calls (`PutNew`, `CasMatches`, `CasUpdate`, ...) carry the code of
`memory.rs`. A store may answer `DurableError::Backend` wherever it can, at the
first store call of a call (`FirstCallFails`) or at a later one (`StoreFails`);
the error takes effect before the store's call does. A response, body and
metadata, is named by the client that stores it; `object`, `len` and `etag` of a
manifest are not modelled (the object is a function of the key, the others are
never read back).

`epoch` and `won` are history: `epoch[k]` counts the lives of a key that
purges have ended, `won` remembers the life in which a call's index write took
effect. They make "first writer wins" and "a purged entry does not come back"
statements about states.

`EntryLifecycle` says what a reader of the index may rely on: a life starts at
version 0, metadata changes only with a version one higher, and only a removal
ends it. Expiry may change freely, hence is not part of it.

### StreamPromotion

One hit. `HitFromLower::read_body` is `ReadChunk`, then for L1 and L2 in turn
`Spawn` (or `SpawnFails`) and `TrySend`; `finish` is `Finish`, `JoinL1`,
`JoinL2`, `CommitL0`; each task is `Receive`, `Commit`, `WorkerFails`. When the
hit of the tier below does not finish (`?` at `multi_tier.rs:158`), so does the
wrapper (`FinishFails`): it is dropped, its tasks are joined by nobody, and L0
gets nothing. The proxy's part is in the guards: it finishes a hit that was read
to its end, or not at all (HEAD, 304), and drops it when a read or a write fails
or when the client goes away. `HitFromL1PromoteL0` is the case with no L1 and L2
target. Chunk *i* of the body is the number *i*.

`PromotionContract` knows no channels, senders or tasks. A client takes chunks;
the hit is closed when all have been taken, or none, and else abandoned; not
before that each tier gets its copy: one at most, in order, and from a task with
every chunk that fits the channel. After a closing that succeeded no tier gets
one; after one that failed, and of a hit that was abandoned, a task may still
store what was taken, a beginning of the body in the latter case. The refinement
maps the places of the handler to the phases of the hit.

### MultiTier

`mem` and `durable` are the contents of L0 to L2 and of L3 for one key. Each
call keeps in `tier` the tier it visits next. A client's lookup records the
miss handlers its wrapper holds (`open`); `FinishHit` begins the finish, which
waits for the tasks of L1 and L2 and then commits L0 (`Promote`, `Served`). A
hit that is dropped before that (`DropHit`: the client left, a read or the
finish failed) ends the call, but the tasks that were spawned run on and commit
at any later time (`Straggle`), as the detached tasks of
`multi_tier.rs:106-112` do. A fill opens the tiers whose gate passes, drops
those the body outgrows, and finishes the rest one by one. When a tier fails to
write a chunk (`WriteFails`), the tiers below do not get that chunk, the caller
is told, and every handler stays open: it may write on, finish or drop them; it
may also finish before the body is complete. What a tier has stored without a
chunk is marked `cut`. Purge, update and touch go top down and take an error for
false. Freshness is `is_fresh` with its three cases: `expires_at`, else
`created_at + ttl`, else fresh (`Dated` says which of these the metadata has).
The three modules divide the work: a call on L3 is one step here, and its inner
steps are `DurableTier`'s; what a promotion leaves out of a body is
`StreamPromotion`'s. `spared` and `gone` are history, for the purge property
alone: which bodies somebody held while a purge ran, and which it has therefore
done away with.

### ProxyRequest

`req` holds the locals of each `request_filter` call, its `RequestCtx`
(`stale_hit`) and the response as the client got it (`status`, `meta`, `body`).
What lies between two awaits is one step: the lookup with the decision
(`Miss`, `KeepForOrigin`, `DecideNotModified`, `DecideServe`, `LookupFails`),
each write to the client, each `read_body`, and `finish` (`Finish` after a 200,
`Cleanup` before the headers of a 304). A hit may come from
any of the four `tier`s; it is read from its own copy and is promoted as
`HitFromL1PromoteL0` and `HitFromLower` do it: the handler keeps L0's buffer
(`buf`) and sends each chunk to a task for L1 and for L2 (`tasks`, spawned at
the first chunk: `ReadChunk`, `SpawnFails`), whose channel may refuse a chunk
once `Capacity` have been sent; L0's handler may fail to write one, which the
code ignores. The tasks commit when their sender is gone (`TaskCommits`): in
`finish`, or whenever they like once the hit has been dropped with the client,
a failed read or a failed finish. A channel is not followed here as in
`StreamPromotion`: what a task was sent is what it will commit, unless it fails.
Beside the requests, responses are stored (over all tiers that admit them, or
losing the race in L3 and leaving its body under the winner's manifest,
`StoreLoses`), expire and are purged at any moment. Conditional headers are sets
of tags and a date, already parsed; only `from_lookup`'s precedence among them
is in this module, the parsing is in the next two. `cut` and `mixed` are
history: responses of which a promotion was left without a chunk (an unread or
an abandoned hit, a full channel, a failed write to L0), and responses under
whose metadata L3 got another body.

`ClientExchange` is what clients see of it, without tiers, hits and buffers: a
request is passed on before anything is written, or answered once, with the
headers of one response and then its body, chunk by chunk to the end, or with
304 if the response matches what the client has, and neither if the client wants
no cached response. Nothing follows a failure. The body may be short, never out
of order and never of two responses, when the response is in `cut` or `mixed`.
When a 304 is due is stated by the rule of the documentation (`proxy.rs:773` and
778: If-None-Match decides where there is one) and not by the code's function;
what the code does beyond it has a name of its own, `MatchesByDate`: a request
with both validators may be answered by its date although its tag does not match
(`proxy.rs:809`). The refinement shows of a request its kind, its outcome and
what has been written, and of the cache the two histories.

### HttpDate

One call of `matches_if_modified_since`. A header date is the record of its
fields: splitting into words and the names of days are left out, a field that is
no number counts as one out of range (both end in `None`). `Parse` makes the
checks, `AddYear` and `AddMonth` are the turns of the two loops, `AddDay`
completes the timestamp, first of the stored date and then of the client's, and
`Compare` answers. A timestamp is a pair of days and seconds, because TLC's
integers have 32 bits. The year of an RFC 850 date is added to a century in
`i32`: `YearPanics` is a build with overflow checks, `ParseFails` one without,
where the wrapped year is out of range.

The reference is the calendar in closed form (`DayNumber`), with no table and no
leap year rule, and, for the order, the fields compared one by one. The year an
RFC 850 date means (`YearMeant`) is the one of 1970 to 2069 that ends in its two
digits, as the comment at `proxy.rs:562` has it. Of an RFC 850 year outside
0..99 the properties say nothing (`YearIsMeant`): the code accepts it (170 is
taken for 2070), and no document says what it means.

### MetaCodec and RequestHeaders

Functions, without state. A buffer is a sequence of cells: a character, a number
of eight bytes or a length of two bytes. A ttl counts fractions of a second
(`PerSecond`), of which `as_secs` writes the whole seconds; a length is written
modulo `LenMod` (2^16 in the code), so a string that does not fit leaves the
reader in the middle of its text, as in the code. `DeserializeMeta` reads any
buffer, and what it cannot read gives `CacheMeta::default()`. Tags are sequences
of characters of which the quote, the comma, the prefix `W/`, the star and the
line break have names; blanks, which are trimmed, are left out. A Cache-Control
line is the sequence of its directives.

### Revalidation

The whole way of a validator: an origin changes its content (`Modify`), versions
are stored through the codec (`Store`), a client asks (`GoToOrigin`, `Serve`,
`AnswerNotModified`, `LookupFails`: the outcomes of `request_filter`), keeps
copies with the headers it was sent (`Receive`), and sends them back as
`If-None-Match` and `If-Modified-Since`, joined with commas, repeated, weakened
on the way or replaced by `*`. A header value with a control character
(`Controls`) is refused by Pingora's `insert_header`, which fails the answer; a
line break the code itself drops from a 200, and not from a 304. Origin and
client are the environment; they are honest (later versions have later dates and
other tags), which `ValidatorsAssumption` states. Interleavings are left to
`DurableTier` and `ProxyRequest`: a request is one step here.

## 3. Runs

| Run | Checks | Bounds |
|---|---|---|
| `durable_all` | `TypeOK`, `OneWinnerPerVersion`, `EveryLifeHasACreator`, `PurgeEndsWhatItSaw`, `NoDanglingManifest`, `LookupFindsBody`, `BodyIsTheManifests`, `OlderCallsReviveNothing`, refinement `LifecycleSpec` | 4 clients, 1 key, all calls, both purges, TTL 0 and 1, clock 0..1, failing stores |
| `durable_inflight`, `durable_versioned`, `durable_quiet` | violated: findings 1 to 3 | 3, 4, 3 clients |
| `promotion_all` | `TypeOK`, `OnlyRefusedChunksAreMissing`, `FirstChunksAreNotRefused`, `OnlySetupFailsTheRead`, `NoWorkerOutlivesFinish`, `FinishReturns`, `AbandonedWorkersEnd`, refinement `ContractSpec` | 3 chunks, channels of 2, everything may fail, fair |
| `promotion_cleanup`, `promotion_setup` | violated: findings 4 and 5 | 2 chunks; 1 chunk |
| `tiers_all` | `TypeOK`, `PurgedIsGone`, `GateHolds`, `CutAboveIsCutBelow` | 3 clients, L0, L1 and L3 that may fail, all calls, the default policy, bodies of lengths 1 and 2 that are not declared, limits 1 and 2, clock 0..1 |
| `tiers_expired` | violated: finding 6 | 3 clients, L1 and L3, all three ways to tell freshness |
| `proxy_all` | `TypeOK`, `OriginGetsUntouchedResponse`, `BodyBelongsToHeaders`, `ServedIsWhole`, refinement `ExchangeSpec` | 2 requests of five kinds, L0, L1 and L3 with the default policy, 2 responses of 2 and 1 chunks of which the longer is too large for L0, channels of 1, strict mode, everything may fail |
| `http_date` | `TypeOK`, `TimestampsFollowCalendar`, `NotModifiedIffNotLater` | every pair of 91 dates: ends of months, years, centuries and of 1970 to 2100, leap days and seconds, all formats |
| `revalidation_all` | `TypeOK`, `NotModifiedIsCurrent`, `HeldIsNotSentAgain`, `HeadersSurviveStorage`, `NoCacheIsNotServed`, `DirectivesAsSent` | 7 versions, 2 copies, lengths modulo 8, 2 tags and 2 directives looked at, half seconds |

What the properties leave out, and why:

* `NoDanglingManifest` and `LookupFindsBody` speak of the time until a hard
  purge begins (finding 3 shows what happens then), `BodyIsTheManifests` of keys
  that no purge and no losing or failed fill has touched: `tests/storage.rs:329`
  accepts that a loser's body stays under the winner's manifest.
* `OlderCallsReviveNothing` is about calls that found the entry as the purge
  found it, or older. A call that finds the tombstone itself, which stays when
  the index refuses the delete, does make it fresh: an `update_meta` reads the
  bumped version, moves the expiry and its CAS succeeds (`durable.rs:346-362`),
  and so does a fill with that version; a touch compares no version at all. No
  document says what a purge that failed leaves.
* `NoWorkerOutlivesFinish` is about a finish that answers Ok. When the source's
  own finish fails, the tasks run on and commit after the return;
  `AbandonedWorkersEnd` says that they end, and `ContractSpec` what they may
  store. `OnlySetupFailsTheRead` says how far the code is from finding 5.
* `PurgedIsGone` is about bodies whose fill was over when the purge ended and
  that no get, no fill and no straggling task held while it ran, and about
  purges that every tier answered. The purge may overlap anything else. A body
  that something held does come back: nothing in the repository promises more.
* `GateHolds` is an action property under the default policy: a body above a
  tier's maximum gets there only as the copy of a hit whose metadata does not
  tell its length. L3 fills a length in, L1 and L2 do not, and such a body
  passes L0's gate (`multi_tier.rs:270`); no document promises otherwise, so it
  is a hazard and not a finding.
* `CutAboveIsCutBelow` says where a body that a failing write cut short may be.
  That such a body is committed when the caller finishes all the same is what
  the code does.
* `ServedIsWhole` and the ends of `ExchangeSpec` except responses in `cut` and
  `mixed`: what an unread or abandoned hit, a full channel or a failed write
  left in a tier is served to later clients, under the default policy from L0,
  L1 and L2. The property says that nothing else shortens a body.
* `NoCacheIsNotServed` allows that the request fails: the error of a lookup is
  returned (`proxy.rs:161-165`) before no-cache is looked at.

Three things that `Revalidation`'s properties except are behaviours of the code
worth knowing. A list of tags is split at every comma, also one inside a quoted
tag: such a tag is never recognised as a whole, and a piece of it may be another
version's tag, whose client is then told 304. Metadata with a string of 2^16
bytes or more is read back as something else, or as the default, which has no
expiry; what it is read back as may hold the validators of another version, so
`NotModifiedIsCurrent` speaks of versions whose tag and date survive storage
(`KeepsValidators`), and a theorem shows that those are all whose strings are
short enough. And only the first line of a repeated header is read. Two more are
in the model and no property speaks of them: a line break in a stored tag or
date fails the conditional request (`proxy.rs:248`) where an unconditional one
drops the header, and a year above `i32::MAX - 1900` panics in builds with
overflow checks.

Why these bounds are enough. In the durable tier a client is at most one lookup
and one fill, so four clients give every call two rivals and one successor:
enough for a purge of a life, a new life and a survivor of the old one, which is
the longest story the findings need; calls on different keys share no state, so
one key suffices. For promotion, a body one chunk longer than the channel
overflows it, or does not when the task keeps up; 64 stands for any capacity,
and the code makes no other use of it. In the tiers, three clients let a fill, a
purge and a promotion meet. L0, L1 and L3 are one tier that is filled by the
handler, one that is filled by a task and is itself a source, and the one with
versions; L2 behaves as L1 does but for the order of the joins. Body lengths are
not declared there, since a declared one that is too large never enters a tier;
metadata says nothing of time (`Dated = {"nothing"}`), as no property of that
run depends on freshness, and `tiers_expired` has the three ways to tell it. At
the proxy, two requests let one shorten or replace what the other reads, a body
of two chunks has a middle, and a channel of one refuses the second chunk of it.
There, only the shorter response expires (`Expiring`), only the longer one loses
races in L3 (`Rivals`), and of the tiers only L3 fails a fill or a purge
(`Failing`): each once is enough for every combination with the steps of a
request, which may all fail. Five kinds of requests stand for the methods, a
no-cache, and conditions by date, and by tag and date together. The clock needs
two values, before and after an expiry. The dates of `http_date` lie on both
sides of every limit the conversion has; `i32::MAX` is 4000 there, above every
year supported. In `revalidation_all` each version stands for one kind of
validator (with commas, weak, plain, unclosed, with a line break or another
control character, too long, and with a content type too long for the length
field, in which another version's tag is read), two copies let a tag be mistaken
for another's, and the limits of 20 tags and 10 directives are 2, so that a
third is beyond them. The theorems of section 5 remove these bounds for the
properties they name.

`CHECK_DEADLOCK FALSE` is used in every run but `revalidation_all`: clients are
finitely many and a system whose calls have all returned stops.

Fairness is assumed in `promotion_all` only, where the liveness properties are:
weak fairness of `finish`'s steps and of each task's. tokio polls what is ready,
and a tier's `write_body` and `finish` return. Nothing makes a client read on,
so reading has no fairness.

## 4. Findings

1. `durable.rs:334` "in-flight fills will fail CAS": a fill without a version
   does `put_new`, which succeeds on the key the purge has just emptied.
2. `durable.rs:325` "Bump version via CAS to invalidate in-flight fills": the
   bumped version is deleted with its manifest and the next life starts at 0
   again, so an old version matches a new entry (ABA).
3. `tests/storage.rs:296` "Verify key is still purged (LookupResult::Miss)": a
   hard purge and a fill may leave a manifest without a body; the key answers
   `Err(NotFound)` from then on, and the proxy an internal error.
4. `proxy.rs:240` "Best-effort cleanup of unused hit handler": the cleanup of
   an unread hit commits an empty body to L0.
5. `multi_tier.rs:67` "Promotion is best-effort; ignore failures so the client
   path stays clean": `read_body` passes on the error of a tier that opens no
   miss handler (`?` at lines 131 and 142), and the client's response breaks off
   at its first chunk.
6. `tests/storage.rs:70` "expired entries should not be fresh": an expired
   entry of L1, L2 or L3 is `Fresh` when it comes through `MultiTier`.

One more disagreement is stated in `ClientExchange` instead of a run of its own:
`proxy.rs:773` "If-Modified-Since matches (no INM)" and `proxy.rs:778`
"If-None-Match takes precedence over If-Modified-Since", where line 809 consults
If-Modified-Since also when If-None-Match is there and does not match. The
contract has the documented rule, and the code implements it only with the
exception `MatchesByDate`.

## 5. Proofs

`DurableTierProofs`, for any keys, clients, TTLs, clock and fault assumption:

* `TypeCorrect`, `FirstWriterWins`, `VersionedFillsCreateNothing`,
  `PurgesEndLives`, `ImplementsLifecycle`, `BodiesAndManifestsAgree`,
  `OlderCallsAreShutOut`, and, until a hard purge begins, `SoftPurgesKeepBodies`
  and `SoftPurgesFailNoLookup`.
* The argument of the first five. `OneWinnerPerVersion` is not inductive: a step
  may win under a version that another call won under before. `IndInv` adds
  `WonInPast`: what a call has won, it won in a life that has begun, and in the
  present life its condition lies below the present version, so a CAS that
  succeeds now competes with no earlier winner. `CallShape` ties the fields of a
  call to its program counter, and `PurgeInPast` says that a purge past its last
  step began in a life that is over. `StepEffect` shows that each action does
  one of four things to the index (`Silent`, `Created`, `Revised`, `Removed`),
  `StepFrame` what it leaves alone; the preservation of each part and the
  refinement are then proved from the four effects and not from the twenty-odd
  actions.
* Bodies. `SoftInv` says that a manifest, or a fill about to write one, has a
  body. `BodyInv` says whose it is. Its parts: the place of a call belongs to its
  operation (`Phase`); without a purge of its key an entry stays, and what a call
  saw of it lies in the past (`SeenInPast`); and while every call on the key is
  harmless or a fill between its two writes (`Unsettled`), the body is the
  manifest's if there is no such fill, and that of the fill if there is one that
  may still win (`BodyOf`). Nothing is claimed while two fills are between their
  writes: one of them will lose, and a loser's body may stay.
* Tombstones. `OlderCallsReviveNothing` is itself nearly inductive: what lies on
  a tombstone is expired, or was written under its version or a later one. With
  `PurgeSaw` (a purge whose bump succeeded had found a manifest) it follows each
  write of the index, which goes to a version one higher than the one it saw.

`StreamPromotionProofs`, for any length and capacity: `TypeCorrect`,
`FinishJoinsWorkers`, `PromotionFailsAtFirstChunkOnly`,
`ChannelTakesItsCapacity`, `CommitsAllButRefused` and `ImplementsContract`.
`StreamInv` says when the slots are still lazy (`Setup`) and which of them have
a task and a sender (`Senders`): a slot is set up with the first chunk or never,
which is why nothing fails the read afterwards. Then it follows the chunks: what
a task holds, then what is in its channel, is in the order of the body
(`InOrder`), with the refused chunks it is all that was offered (`Whole`), and a
channel holds no more than was offered to it (`Bounded`), so no chunk up to the
`Capacity`-th is refused. `FinishJoinsWorkers` has an invariant of its own, that
a `finish` which goes on has joined the tasks of the slots it has gone past; a
`finish` that fails leaves it for a place of its own, of which nothing is
claimed. The refinement needs both, and `CopyInv`: when each tier has got its
copy, and that a miss handler holds, at place *i*, no chunk before the *i*-th,
so that the copy is no longer than what was read. A task's commit is then the
contract's `Settle`, `CommitL0` its `Return`, `FinishFails` its `CloseFails`,
and all steps of channels and tasks but these are stutters.

`MultiTierProofs`, for any clients, configured tiers, limits, lengths and
faults:

* `TypeCorrect`. `Typed` adds what is to be known of a call by itself: the
  handlers of a hit are those its length passes (`GoodHit`), a fill carries its
  own response and leaves out of L3 what it leaves out above (`GoodFill`).
* `NextFlow` says of any step where bodies go: what a call holds it held before,
  has found in a tier, or begins to fill (`HeldFlow`); what is in a tier was
  there, or was brought by a hit or a fill that had it open (`MemFlow`,
  `DurableFlow`). The next three theorems are proved from it, and not from the
  two dozen actions.
* `PurgesAreFinal`, for every promotion policy. `PurgedIsGone` says what holds
  once a purge has ended, but why it holds is what the purge has done so far:
  `Clears` says that a body the running purge has no note of is held by nobody
  and is in no tier the purge has passed. With its last visit every tier is
  free of it.
* `GatesHold`, for every policy, declared lengths or not: a fill that comes to be
  finished is in no tier that is too small for all of it, and a hit is not
  wrapped for a tier that its length, if it has one, does not pass.
* `FillsFailDownwards`, for every policy. `CutInv` follows a cut body through
  tiers and hits back to its fill, which has missed L3 too and, when it is over,
  has left the body cut there if it has left it at all.

`ProxyRequestProofs`, for any requests, responses and headers: `TypeCorrect`,
`OriginIsAskedInTime`, `BodiesBelongToHeaders`, `WholeBodiesAreServed`,
`ImplementsExchange`, for any tiers, limits, policy and capacity. The invariant
follows the chunks. A body in a tier is an excerpt, in order, of one response
(`Sound`), and the whole of it unless the histories say otherwise (`GoodCopy`).
L0's buffer and what a task was sent are made of the chunks the hit has read
(`Picked`), and are all of them for a response in neither history (`Same`); the
client has what was read less the chunk being written. `cut` and `mixed` only
grow, so what was good stays good. For the refinement `SuitsInv` adds that a
request between its decision and its answer is one the answer suits, by the
contract's rule or its exception.

`HttpDateProofs`, for any dates: `TypeCorrect`, `LoopsComputeCalendar`,
`ComparisonIsCalendarOrder`. `YearsInv` and `MonthsInv` are the invariants of the
two loops: the days so far are those before the year, and the month, that the
loop has reached, in the closed form of the calendar. That the closed form grows
by the length of a year or month at each turn, and orders dates as their fields
do, is shown of the years 1970 to 2100.

`MetaCodecProofs`: `RoundTrip`, for any metadata whose strings are shorter than
`LenMod`, field by field along the buffer: it is read back as it was written,
less the fraction of a second of its ttl, its version (which is not written) and
empty strings (`Recovered`).

`RequestHeadersProofs` says what the loops of the parsers compute for every
input. Its induction is over a set of naturals (`SetInduction`), so it needs no
theorem about an operator, and `LoopRuns` shows that a function defined by a
step on its predecessor exists and takes those steps. On them rest:

* the Cache-Control loop: a directive the line names among the first
  `MaxDirectives` is obeyed, and an answer is changed by nothing else;
* lists of tags: `StarIsAlone` (only the star itself is a list that matches
  everything) and `CommasSeparateTags`, the converse of `join`: splitting a
  joined list at its commas gives back its tags, if no tag holds a comma. The
  joined text is written in turns; turns end in their order, they leave no gap,
  and the commas of the text are exactly the ends of all turns but the last, so
  what lies between two commas next to each other is one tag.

`RevalidationProofs`, whatever the buffers, tags and headers: `TypeCorrect`,
`StoredHeadersComeBack`, from the round trip and the invariant that a manifest
was made by `SerializeMeta`, and

* `NotModifiedMeansHeld` (a 304 goes only to a client that holds the current
  version), `HeldSavesTheBody` (a client that names the current version is not
  sent it again), `NoCacheIsObeyed` (such a request is answered by the origin, or
  has failed with its lookup) and `DirectivesMeanThemselves`. `IndInv`
  adds to the types `AskedInv`, that the request at hand is one the client can
  make of its copies and was answered as it was asked, and `HeldInv`, that a
  copy of a version that keeps its validators has those or none. The decision
  then follows from what the parsers make of the header the client has joined.
* `FittingKeepsValidators`: strings shorter than the length field can tell keep
  their validators, which is the hypothesis of the first of these.

The proofs assume the named assumptions (`ConstantsAssumption`,
`NoneAssumption`, `CodecAssumption`, `ValidatorsAssumption`) of each module,
which every run of it evaluates.

Model-checked only: liveness (`FinishReturns`, `AbandonedWorkersEnd`), which is
out of the prover's reach, and the violated properties, which are false. Every
other property a run checks is a theorem.

## 6. Not modelled

* Splitting of header texts into words, trimming, parsing of numbers and the
  names of months: their results are the fields the models start from. The
  weekday of a date, which the code does not look at.
* Widths other than those of the length field and of the RFC 850 year: times and
  lengths are natural numbers. `now + ttl` overflows for a ttl near `u64::MAX`
  seconds (`durable.rs:229`), which nothing in the repository configures.
* Hashing of keys (`CacheKey`): taken to be injective. The key is the path
  without the query (`proxy.rs:135`), so the models' one key stands for a path.
* A poisoned mutex: it cannot happen, as no code panics while holding one.
* `BlobStore::head`, `BlobWrite::abort`, `CachePolicy`: used by nobody.
* Persistence: the stores of the repository are in memory, so a restart loses
  all of them together.

## 7. Plan

Done: all modules of section 2, with their proofs. What could come next:

1. A property of what a body that was cut short may do to a client: it needs a
   decision, which the repository does not state, on whether such copies are to
   be committed at all.
2. An abstract specification of the tiered cache, as `EntryLifecycle` is one of
   the durable tier: what a lookup may find after which calls, with the purge
   theorem as its consequence.
3. The connection of origin responses to fills, once the code has it
   (`stale_hit` and `stale_meta` are kept for it and not used yet).
