--------------------------- MODULE ClientExchange ---------------------------
(***************************************************************************)
(* What the proxy promises the clients it answers from the cache, stated   *)
(* without tiers, hits and buffers.  A request is passed on to the origin  *)
(* before anything is written, or answered once: with the headers of one   *)
(* response and then its body, chunk by chunk to the end, or with Not      *)
(* Modified if a response matches what the client has.  After a failure    *)
(* nothing more is written.                                                *)
(***************************************************************************)
EXTENDS Naturals, Sequences

CONSTANTS
    Requests, Responses, None, Kinds,
    Length,       \* number of chunks of each response's body
    ETags,        \* ETag of each response, or None
    LastModified, \* Last-Modified of each response, or None
    Strict        \* are clients heard that want no cached response?

VARIABLES
    exchange,   \* what each client asked and was answered
    cut,        \* responses that the cache may hold chunks of only
    mixed       \* responses that the cache may hold another's body under

vars == <<exchange, cut, mixed>>

Init ==
    /\ exchange = [q \in Requests |->
                     [outcome |-> "none", kind |-> None, status |-> 0,
                      of |-> None, body |-> <<>>]]
    /\ cut = {}
    /\ mixed = {}

Wants(kind) == ~(Strict /\ kind.no_cache)

SameTag(kind, r) == ETags[r] # None /\ ETags[r] \in kind.if_none_match

NotLater(kind, r) ==
    LastModified[r] # None /\ LastModified[r] <= kind.if_modified_since

(* proxy.rs:772-773 and 778: If-None-Match decides where there is one.     *)
Matches(kind, r) ==
    IF kind.if_none_match # None THEN SameTag(kind, r)
    ELSE kind.if_modified_since # None /\ NotLater(kind, r)

(* The exception: a request with both may be answered by its date, though  *)
(* its tag does not match.                                                 *)
MatchesByDate(kind, r) ==
    /\ kind.if_none_match # None
    /\ kind.if_modified_since # None
    /\ NotLater(kind, r)

Becomes(q, e) == exchange' = [exchange EXCEPT ![q] = e]

(* The exchange is open, its answer has this status (0 before the headers) *)
Open(q, status) ==
    /\ exchange[q].outcome = "open"
    /\ exchange[q].status = status

(* Methods that are not looked up are the origin's at once.                *)
Ask(q) ==
    /\ exchange[q].outcome = "none"
    /\ \E k \in Kinds :
         Becomes(q, [exchange[q] EXCEPT
                       !.kind = k,
                       !.outcome = IF k.method \in {"GET", "HEAD"}
                                   THEN "open" ELSE "origin"])

PassOn(q) ==
    /\ Open(q, 0)
    /\ Becomes(q, [exchange[q] EXCEPT !.outcome = "origin"])

Begin(q) ==
    /\ Open(q, 0)
    /\ Wants(exchange[q].kind)
    /\ \E r \in Responses :
         /\ ~Matches(exchange[q].kind, r)
         /\ Becomes(q, [exchange[q] EXCEPT !.status = 200, !.of = r])

(* Chunk n of s may follow b, as the body of r.                            *)
Continues(b, s, n, r) ==
    /\ r \notin mixed => s = r
    /\ b # <<>> => b[Len(b)][1] = s /\ b[Len(b)][2] < n
    /\ r \notin cut \cup mixed => n = Len(b) + 1

Send(q) ==
    LET e == exchange[q] IN
    /\ Open(q, 200)
    /\ e.kind.method = "GET"
    /\ \E s \in Responses : \E n \in 1 .. Length[s] :
         /\ Continues(e.body, s, n, e.of)
         /\ Becomes(q, [e EXCEPT !.body = Append(@, <<s, n>>)])

End(q) ==
    LET e == exchange[q] IN
    /\ Open(q, 200)
    /\ \/ e.kind.method = "HEAD"
       \/ Len(e.body) = Length[e.of]
       \/ e.of \in cut \cup mixed
    /\ Becomes(q, [e EXCEPT !.outcome = "served"])

AnswerNotModified(q) ==
    /\ Open(q, 0)
    /\ Wants(exchange[q].kind)
    /\ \E r \in Responses :
         /\ Matches(exchange[q].kind, r) \/ MatchesByDate(exchange[q].kind, r)
         /\ Becomes(q, [exchange[q] EXCEPT !.status = 304, !.of = r,
                                           !.outcome = "served"])

Fail(q) ==
    /\ exchange[q].outcome = "open"
    /\ Becomes(q, [exchange[q] EXCEPT !.outcome = "error"])

Step(q) == \/ Ask(q) \/ PassOn(q) \/ Begin(q) \/ Send(q) \/ End(q)
           \/ AnswerNotModified(q) \/ Fail(q)

(* A response may be cut or mixed up at any time, and stays so.            *)
Next ==
    /\ cut \subseteq cut'
    /\ mixed \subseteq mixed'
    /\ UNCHANGED exchange \/ \E q \in Requests : Step(q)

Spec == Init /\ [][Next]_vars
=============================================================================
