----------------------------- MODULE Revalidation -----------------------------
(***************************************************************************)
(* What a client that keeps copies gets from the proxy, down to the        *)
(* headers: metadata is written into a manifest and read back (MetaCodec), *)
(* becomes response headers (set_cache_headers), is kept by the client,    *)
(* and comes back as If-None-Match and If-Modified-Since, whose parsers    *)
(* (RequestHeaders) decide between 304, 200 and the origin.                *)
(*                                                                         *)
(* One key, one client, and a DurableTier below the proxy whose calls are  *)
(* one step each; DurableTier and ProxyRequest have the interleavings.     *)
(***************************************************************************)
EXTENDS MetaCodec, FiniteSets, SequencesExt

CONSTANTS
    MaxTags, MaxDirectives,  \* see RequestHeaders
    LastVersion,  \* bound: versions of the content
    Metas,        \* metadata of each version
    Length,       \* length of each version's body
    Instants,     \* texts of one cell that are HTTP dates, in their order
    CacheControl, \* Cache-Control headers of requests: lines of each
    Controls,     \* cells no header value may have, beside LineBreak
    MaxHeld,      \* bound: copies the client keeps
    Strict,       \* CacheProxyConfig.strict_client_no_cache
    Faulty        \* may a lookup fail?

INSTANCE RequestHeaders

Versions == 1 .. LastVersion

ASSUME ConstantsAssumption ==
    /\ LastVersion \in Nat \ {0}
    /\ Metas \in [Versions -> CacheMeta]
    /\ Length \in [Versions -> Nat]
    /\ Instants \subseteq Nat
    /\ {Quote, Comma, WeakPrefix, Star, LineBreak} \subseteq Utf8
    /\ Controls \subseteq Nat
    /\ MaxHeld \in Nat /\ MaxTags \in Nat /\ MaxDirectives \in Nat
    /\ CacheControl \subseteq Seq(CacheControlLine)
    /\ {Strict, Faulty} \subseteq BOOLEAN

(* parse_http_date of a text (HttpDate has the conversion).                *)
DateOf(text) ==
    IF text # None /\ Len(text) = 1 /\ text[1] \in Instants
    THEN text[1] ELSE None

(* The origin's validators are honest: later versions have later dates and *)
(* other tags.                                                             *)
ASSUME ValidatorsAssumption ==
    \A u, v \in Versions : u < v =>
        /\ LET d == DateOf(Metas[u].last_modified)
               e == DateOf(Metas[v].last_modified)
           IN  d # None /\ e # None => d < e
        /\ Metas[u].etag # None /\ Metas[v].etag # None =>
             LET s == ParseETag(Metas[u].etag)
                 t == ParseETag(Metas[v].etag)
             IN  s # None /\ t # None => s.value # t.value

Header == (Text \ {<<>>}) \cup {None}

(* The headers of a response that come from its metadata.                  *)
Headers == [content_type : Header, content_length : OptionalNumber,
            etag : Header, last_modified : Header, cache_control : Header]

(* A manifest, and of which version the body beside it is.                 *)
Entry == [of : Versions, meta_blob : Seq(Nat), fresh : BOOLEAN]

(* A copy of the client's.                                                 *)
Copy == [of : Versions, etag : Header, last_modified : Header]

(* if_none_match: the tags on each header line, before they are joined.    *)
Request == [if_none_match : Seq(Seq(Text)), if_modified_since : Header,
            cache_control : Seq(CacheControlLine)]

(* "lookup_error" and "error" are both Err: the cache gave no answer, or    *)
(* the answer could not be written.                                        *)
Statuses == {"200", "304", "origin", "lookup_error", "error"}

Reply == [status : Statuses, headers : Headers \cup {None}]

ASSUME NoneAssumption == None \notin Request \cup Reply \cup ETag

VARIABLES
    newest,   \* the origin's present version
    entry,    \* what is stored for the key, or None
    held,     \* the client's copies
    request,  \* the request being answered, or None
    reply     \* its answer, or None

vars == <<newest, entry, held, request, reply>>

TypeOK ==
    /\ newest \in Versions
    /\ entry \in Entry \cup {None}
    /\ held \subseteq Copy
    /\ request \in Request \cup {None}
    /\ reply \in Reply \cup {None}

Init ==
    /\ newest = 1
    /\ entry = None
    /\ held = {}
    /\ request = None
    /\ reply = None
-----------------------------------------------------------------------------
(* The origin and the tier.  What happens while a request is answered does *)
(* not change its answer, and is left to before and after.                 *)

Modify ==
    /\ request = None
    /\ newest < LastVersion
    /\ newest' = newest + 1
    /\ UNCHANGED <<entry, held, request, reply>>

(* A fill ends; it may have been long under way.                           *)
Store(v) ==
    /\ request = None
    /\ v <= newest
    /\ entry' = [of |-> v, meta_blob |-> SerializeMeta(Metas[v]),
                 fresh |-> TRUE]
    /\ UNCHANGED <<newest, held, request, reply>>

Expire ==
    /\ request = None
    /\ entry # None
    /\ entry' = [entry EXCEPT !.fresh = FALSE]
    /\ UNCHANGED <<newest, held, request, reply>>

Purge ==
    /\ request = None
    /\ entry' = None
    /\ UNCHANGED <<newest, held, request, reply>>

(* DurableTier::lookup: a length that was not given is the body's.  (The   *)
(* manifest's version, which it adds, is no header.)                       *)
LookupMeta(e) ==
    LET meta == DeserializeMeta(e.meta_blob) IN
    [meta EXCEPT !.content_length =
        IF meta.content_length = None THEN Length[e.of]
        ELSE meta.content_length]
-----------------------------------------------------------------------------
(* The client makes a request.                                             *)

OwnTags == {c.etag : c \in held} \ {None}

(* What a proxy between makes of a strong tag.                             *)
Weakened(tag) == IF IsWeak(tag) THEN tag ELSE <<WeakPrefix>> \o tag

TagLists ==
    {<<tag>> : tag \in OwnTags}
      \cup {<<Weakened(tag)>> : tag \in OwnTags}
      \cup {<<s, t, u>> : s, t, u \in OwnTags}

IfNoneMatchLines ==
    {<<>>, << << <<Star>> >> >>}
      \cup {<<list>> : list \in TagLists}
      \cup {<< <<s>>, <<t>> >> : s, t \in OwnTags}

(* Conditions and Cache-Control are combined as far as they meet.          *)
Requests ==
    [if_none_match : IfNoneMatchLines,
     if_modified_since : {c.last_modified : c \in held} \cup {None},
     cache_control : {<<>>}]
    \cup
    [if_none_match : {<<>>, << << <<Star>> >> >>},
     if_modified_since : {None}, cache_control : CacheControl]

(* headers.get returns the first of several lines.                         *)
FirstLine(lines) == IF lines = <<>> THEN None ELSE lines[1]

ClientNoCache(req) ==
    LET line == FirstLine(req.cache_control) IN
    /\ Strict
    /\ line # None
    /\ ParseCacheControl(line).no_cache

ETagMatches(req, meta) ==
    LET tags == FirstLine(req.if_none_match) IN
    /\ tags # None
    /\ meta.etag # None
    /\ MatchesETag(meta.etag, JoinWithCommas(tags))

(* Mutant of NotModifiedSince: the comparison is the wrong way round.      *)
NotModifiedUntil(req, meta) ==
    LET stored == DateOf(meta.last_modified)
        client == DateOf(req.if_modified_since)
    IN  stored # None /\ client # None /\ client <= stored

NotModifiedSince(req, meta) ==
    LET stored == DateOf(meta.last_modified)
        client == DateOf(req.if_modified_since)
    IN  stored # None /\ client # None /\ stored <= client

NotModified(req, meta) == ETagMatches(req, meta) \/ NotModifiedSince(req, meta)
-----------------------------------------------------------------------------
(* request_filter: each action is one outcome.                             *)

Arrives(req) ==
    /\ request = None
    /\ request' = req
    /\ UNCHANGED <<newest, entry, held>>

Answered(status, headers) == reply' = [status |-> status, headers |-> headers]

HasFresh == entry # None /\ entry.fresh

(* is_valid_header_value                                                   *)
IsValid(value) == value = None \/ ~Contains(value, LineBreak)

IfValid(value) == IF IsValid(value) THEN value ELSE None

(* The headers that set_cache_headers inserts.                             *)
SetCacheHeaders(meta) ==
    [content_type |-> IfValid(meta.content_type),
     content_length |-> meta.content_length,
     etag |-> IfValid(meta.etag),
     last_modified |-> IfValid(meta.last_modified),
     cache_control |-> IfValid(meta.cache_control)]

(* A 304 has the validators and nothing about the body.                    *)
NotModifiedHeaders(meta) ==
    [content_type |-> None, content_length |-> None, etag |-> meta.etag,
     last_modified |-> meta.last_modified,
     cache_control |-> meta.cache_control]

(* Pingora's insert_header refuses values with a control character.        *)
IsHeaderValue(value) ==
    value = None \/ \A c \in Controls \cup {LineBreak} : ~Contains(value, c)

Insertable(headers) ==
    /\ IsHeaderValue(headers.content_type) /\ IsHeaderValue(headers.etag)
    /\ IsHeaderValue(headers.last_modified)
    /\ IsHeaderValue(headers.cache_control)

(* The answer is written, or fails with the first header that is refused.  *)
Writes(status, headers) ==
    IF Insertable(headers) THEN Answered(status, headers)
    ELSE Answered("error", None)

(* The lookup comes before no-cache is heard, and its error is the answer. *)
LookupFails(req) ==
    /\ Faulty
    /\ Arrives(req)
    /\ Answered("lookup_error", None)

GoToOrigin(req) ==
    /\ Arrives(req)
    /\ ~HasFresh \/ ClientNoCache(req)
    /\ Answered("origin", None)

Serve(req) ==
    LET meta == LookupMeta(entry) IN
    /\ Arrives(req)
    /\ HasFresh /\ ~ClientNoCache(req)
    /\ ~NotModified(req, meta)
    /\ Writes("200", SetCacheHeaders(meta))

(* The 304 drops no header with a line break.                              *)
AnswerNotModified(req) ==
    LET meta == LookupMeta(entry) IN
    /\ Arrives(req)
    /\ HasFresh /\ ~ClientNoCache(req)
    /\ NotModified(req, meta)
    /\ Writes("304", NotModifiedHeaders(meta))
-----------------------------------------------------------------------------
(* The client.                                                             *)

CopyOf(v, headers) ==
    [of |-> v, etag |-> headers.etag, last_modified |-> headers.last_modified]

(* What the origin itself sends of a text that is no header value.         *)
Sent(value) == IF IsHeaderValue(value) THEN value ELSE None

OriginHeaders(v) ==
    LET meta == Recovered(Metas[v]) IN
    [etag |-> Sent(meta.etag), last_modified |-> Sent(meta.last_modified)]

(* What the answer brings; the origin's has the present content.           *)
Received ==
    IF reply.status = "200" THEN {CopyOf(entry.of, reply.headers)}
    ELSE IF reply.status = "origin"
    THEN {CopyOf(newest, OriginHeaders(newest))}
    ELSE {}

(* The client keeps the copy or does not.                                  *)
Receive ==
    /\ request # None
    /\ \/ held' = held
       \/ /\ held' = held \cup Received
          /\ Cardinality(held') <= MaxHeld
    /\ request' = None
    /\ reply' = None
    /\ UNCHANGED <<newest, entry>>

Forget(c) ==
    /\ request = None
    /\ held' = held \ {c}
    /\ UNCHANGED <<newest, entry, request, reply>>
-----------------------------------------------------------------------------
RequestFilter ==
    \E req \in Requests :
        \/ LookupFails(req) \/ GoToOrigin(req)
        \/ Serve(req) \/ AnswerNotModified(req)

Next ==
    \/ Modify \/ Expire \/ Purge
    \/ \E v \in Versions : Store(v)
    \/ RequestFilter
    \/ Receive
    \/ \E c \in held : Forget(c)

Spec == Init /\ [][Next]_vars
-----------------------------------------------------------------------------
(* Properties.                                                             *)

(* The client has tags with commas, which the parser cuts.                 *)
SendsCommas ==
    LET tags == FirstLine(request.if_none_match) IN
    tags # None /\ \E i \in DOMAIN tags : Contains(tags[i], Comma)

(* Metadata that does not fit its length field may be read back with the   *)
(* validators of another version.                                          *)
KeepsValidators(v) ==
    LET meta == DeserializeMeta(SerializeMeta(Metas[v])) IN
    /\ meta.etag \in {None, Metas[v].etag}
    /\ DateOf(meta.last_modified) \in {None, DateOf(Metas[v].last_modified)}

(* A client is told Not Modified only if it holds what is cached, or       *)
(* something newer, or has asked for anything with `*`: no validator it    *)
(* sends is taken for that of another version, however old the cached one  *)
(* is and whatever has been stored or read since.  (A piece of a tag with  *)
(* commas can be, and so can what is read from metadata with a string that *)
(* is too long: these are excepted.)                                       *)
NotModifiedIsCurrent ==
    /\ request # None /\ reply.status = "304" /\ ~SendsCommas
    /\ \A v \in {entry.of} \cup {c.of : c \in held} : KeepsValidators(v)
    => \/ FirstLine(request.if_none_match) = << <<Star>> >>
       \/ \E c \in held : c.of >= entry.of

(* A client that names the cached version is not sent its body again: not  *)
(* when the tag is weak or was weakened on the way, nor after it has been  *)
(* in the cache.  Tags with commas, those past the limit and metadata that *)
(* does not fit its length field are excepted.                             *)
HeldIsNotSentAgain ==
    LET meta == Metas[entry.of]
        tags == FirstLine(request.if_none_match)
    IN
    /\ request # None /\ reply.status = "200"
    /\ Fits(meta) /\ meta.etag # None /\ ParseETag(meta.etag) # None
    /\ tags # None /\ ~SendsCommas
    => \A i \in DOMAIN tags :
         i <= MaxTags => tags[i] \notin {meta.etag, Weakened(meta.etag)}

(* The headers of a response from the cache are those the version was      *)
(* stored with, whatever else was stored, read or purged in between, if    *)
(* they fit their length field.                                            *)
HeadersSurviveStorage ==
    request # None /\ reply.status = "200" /\ Fits(Metas[entry.of]) =>
        LET meta == Recovered(Metas[entry.of]) IN
        reply.headers = SetCacheHeaders(
            [meta EXCEPT !.content_length =
               IF meta.content_length = None THEN Length[entry.of]
               ELSE meta.content_length])

(* In strict mode a request with no-cache among the directives that are    *)
(* looked at gets neither a body nor Not Modified from the cache, whatever *)
(* else it says and whatever is stored: it goes to the origin, unless the  *)
(* lookup fails, which fails the request before no-cache is heard          *)
(* (proxy.rs:161-165).                                                     *)
NoCacheIsNotServed ==
    LET line == FirstLine(request.cache_control) IN
    /\ Strict /\ request # None /\ line # None /\ ~line.long
    /\ \E i \in DOMAIN line.directives :
         i <= MaxDirectives /\ line.directives[i].name = "no-cache"
    => reply.status \in {"origin", "lookup_error"}

(* The last value given that is a number, or None.                         *)
LastGiven(line, name) ==
    LET given == {i \in DOMAIN line.directives :
                    /\ i <= MaxDirectives
                    /\ line.directives[i].name = name
                    /\ line.directives[i].value # None}
    IN  IF given = {} THEN None
        ELSE line.directives[CHOOSE i \in given : \A j \in given : j <= i].value

(* Directives mean what they mean alone: neither one that cannot be parsed *)
(* nor one of another name takes back what was said before.                *)
DirectivesAsSent ==
    LET line == FirstLine(request.cache_control)
        d    == ParseCacheControl(line)
        own  == LastGiven(line, "s-maxage")
    IN
    request # None /\ line # None /\ ~line.long =>
        /\ EffectiveMaxAge(d)
             = IF own # None THEN own ELSE LastGiven(line, "max-age")
        /\ d.stale_if_error = LastGiven(line, "stale-if-error")
        /\ AllowsStore(d) =
             ~\E i \in DOMAIN line.directives :
                 i <= MaxDirectives /\ line.directives[i].name = "no-store"
=============================================================================
