-------------------------- MODULE RevalidationProofs --------------------------
(***************************************************************************)
(* Theorems about Revalidation, for any metadata, tags and requests.       *)
(***************************************************************************)
EXTENDS Revalidation, RequestHeadersProofs

(* Metadata as it comes out of a manifest.                                 *)
StoredMeta == [content_length : OptionalNumber, ttl : Nat,
               created_at : OptionalNumber, expires_at : OptionalNumber,
               content_type : Header, etag : Header,
               last_modified : Header, cache_control : Header,
               version : OptionalNumber]

(* A text that is given and empty counts as not given.                     *)
LEMMA NonEmptyIsHeader ==
    ASSUME NEW s \in OptionalText
    PROVE  NonEmpty(s) \in Header
<1>1. CASE s = None
  <2>1. NonEmpty(s) = None
    BY <1>1, Zenon DEF NonEmpty
  <2>2. QED
    BY <2>1 DEF Header
<1>2. CASE s = <<>>
  <2>1. NonEmpty(s) = None
    BY <1>2, Zenon DEF NonEmpty
  <2>2. QED
    BY <2>1 DEF Header
<1>3. CASE s # None /\ s # <<>>
  BY <1>3, Zenon DEF NonEmpty, Header, OptionalText
<1>4. QED
  BY <1>1, <1>2, <1>3

(* Whatever the cells, what is read is a text with characters or None.     *)
LEMMA ReadIsTyped ==
    ASSUME NEW buf \in Seq(Nat), NEW pos \in Nat
    PROVE  /\ ReadString(buf, pos).text \in Header
           /\ ReadString(buf, pos).pos \in Nat
<1> DEFINE len  == buf[pos + 1]
           text == SubSeq(buf, pos + 2, pos + 1 + len)
           bad  == Len(buf) < pos + 1 \/ Len(buf) < pos + 1 + len
                     \/ text \notin Text
<1>1. CASE bad
  <2>1. ReadString(buf, pos) = Unreadable
    BY <1>1, Zenon DEF ReadString
  <2>2. QED
    BY <2>1 DEF Unreadable, Header
<1>2. CASE ~bad
  <2>1. Len(buf) \in Nat /\ pos + 1 \in 1 .. Len(buf)
    BY <1>2, LenProperties
  <2>2. len \in Nat
    BY <2>1, LenProperties
  <2>3. ReadString(buf, pos)
          = [ok |-> TRUE, text |-> IF len = 0 THEN None ELSE text,
             pos |-> pos + 1 + len]
    BY <1>2, Zenon DEF ReadString
  <2>4. len # 0 => text # <<>>
    <3> DEFINE m == pos + 2
               n == pos + 1 + len
    <3>1. m \in Int /\ n \in Int /\ n - m + 1 = len
      BY <2>2
    <3>2. \A i \in m .. n : buf[i] \in Nat
      BY <1>2, <2>1, <2>2, LenProperties
    <3>3. len # 0 => m <= n
      BY <2>2
    <3> HIDE DEF m, n, len
    <3>4. Len(SubSeq(buf, m, n)) = IF m <= n THEN n - m + 1 ELSE 0
      BY <3>1, <3>2, CutOut
    <3>5. len # 0 => Len(SubSeq(buf, m, n)) # 0
      BY <3>1, <3>3, <3>4
    <3>6. Len(<<>>) = 0
      OBVIOUS
    <3>7. QED
      BY <3>5, <3>6 DEF m, n, len
  <2>5. (IF len = 0 THEN None ELSE text) \in Header
    BY <1>2, <2>4, Zenon DEF Header
  <2> HIDE DEF text, len
  <2>6. pos + 1 + len \in Nat
    BY <2>2
  <2>7. QED
    BY <2>3, <2>5, <2>6
<1>3. QED
  BY <1>1, <1>2

LEMMA DefaultIsTyped == DefaultMeta \in StoredMeta
<1>1. 300 * PerSecond \in Nat
  BY CodecAssumption
<1>2. QED
  BY <1>1 DEF DefaultMeta, StoredMeta, OptionalNumber, Header

LEMMA DecodedIsTyped ==
    ASSUME NEW buf \in Seq(Nat)
    PROVE  DeserializeMeta(buf) \in StoredMeta
<1> DEFINE r1 == ReadString(buf, 6)
           r2 == ReadString(buf, r1.pos)
           r3 == ReadString(buf, r2.pos)
           r4 == ReadString(buf, r3.pos)
           good == /\ Len(buf) >= 6
                   /\ buf[1] = 1
                   /\ r1.ok /\ r2.ok /\ r3.ok /\ r4.ok
           meta == [content_length |-> Given(buf[2], 1, buf[3]),
                    ttl |-> buf[4] * PerSecond,
                    created_at |-> Given(buf[2], 2, buf[5]),
                    expires_at |-> Given(buf[2], 4, buf[6]),
                    content_type |-> r1.text, etag |-> r2.text,
                    last_modified |-> r3.text, cache_control |-> r4.text,
                    version |-> None]
<1>1. /\ r1.text \in Header /\ r2.text \in Header
      /\ r3.text \in Header /\ r4.text \in Header
  <2>1. r1.text \in Header /\ r1.pos \in Nat
    BY ReadIsTyped
  <2> HIDE DEF r1
  <2>2. r2.text \in Header /\ r2.pos \in Nat
    BY <2>1, ReadIsTyped
  <2> HIDE DEF r2
  <2>3. r3.text \in Header /\ r3.pos \in Nat
    BY <2>2, ReadIsTyped
  <2> HIDE DEF r3
  <2>4. r4.text \in Header
    BY <2>3, ReadIsTyped
  <2>5. QED
    BY <2>1, <2>2, <2>3, <2>4
<1>2. DeserializeMeta(buf) = IF good THEN meta ELSE DefaultMeta
  BY Zenon DEF DeserializeMeta
<1>3. CASE good
  <2>1. \A i \in 1 .. 6 : buf[i] \in Nat
    BY <1>3, LenProperties
  <2>2. /\ buf[3] \in Nat /\ buf[4] * PerSecond \in Nat /\ buf[5] \in Nat
        /\ buf[6] \in Nat
    <3>1. /\ buf[3] \in Nat /\ buf[4] \in Nat /\ buf[5] \in Nat
          /\ buf[6] \in Nat
      BY <2>1
    <3>2. QED
      BY <3>1, CodecAssumption
  <2>3. \A flags, bit, n : n \in Nat => Given(flags, bit, n) \in OptionalNumber
    BY Zenon DEF Given, OptionalNumber
  <2>4. None \in OptionalNumber
    BY DEF OptionalNumber
  <2>5. meta = DeserializeMeta(buf)
    BY <1>2, <1>3
  <2> HIDE DEF r1, r2, r3, r4
  <2>6. meta \in StoredMeta
    BY <1>1, <2>2, <2>3, <2>4, Zenon DEF StoredMeta
  <2>7. QED
    BY <2>5, <2>6
<1>4. CASE ~good
  BY <1>2, <1>4, DefaultIsTyped
<1>5. QED
  BY <1>3, <1>4

LEMMA WrittenIsTyped ==
    ASSUME NEW s \in OptionalText
    PROVE  WriteString(s) \in Seq(Nat)
<1>1. CASE s = None
  <2>1. WriteString(s) = <<0>>
    BY <1>1, Zenon DEF WriteString
  <2>2. QED
    BY <2>1, SMT
<1>2. CASE s # None
  <2>1. s \in Seq(Nat)
    BY <1>2, NoneIsApart DEF OptionalText
  <2>2. Len(s) % LenMod \in Nat
    BY <2>1, LenProperties, CodecAssumption, SMT
  <2>3. <<Len(s) % LenMod>> \in Seq(Nat)
    BY <2>2, SMT
  <2>4. WriteString(s) = <<Len(s) % LenMod>> \o s
    BY <1>2, Zenon DEF WriteString
  <2>5. QED
    BY <2>1, <2>3, <2>4, Joined
<1>3. QED
  BY <1>1, <1>2

LEMMA EncodedIsTyped ==
    ASSUME NEW meta \in CacheMeta
    PROVE  SerializeMeta(meta) \in Seq(Nat)
<1>1. /\ meta.content_type \in OptionalText /\ meta.etag \in OptionalText
      /\ meta.last_modified \in OptionalText
      /\ meta.cache_control \in OptionalText
  BY DEF CacheMeta
<1>2. FixedFields(meta) \in Seq(Nat)
  <2>1. <<>> \in Seq(Nat)
    BY EmptySeq
  <2>2. QED
    BY <2>1, FixedFieldsRead
<1>3. /\ WriteString(meta.content_type) \in Seq(Nat)
      /\ WriteString(meta.etag) \in Seq(Nat)
      /\ WriteString(meta.last_modified) \in Seq(Nat)
      /\ WriteString(meta.cache_control) \in Seq(Nat)
  BY <1>1, WrittenIsTyped
<1>4. QED
  BY <1>2, <1>3, Joined DEF SerializeMeta
-----------------------------------------------------------------------------
(* What a step is made of.                                                 *)

LEMMA LookupIsTyped ==
    ASSUME NEW e \in Entry
    PROVE  LookupMeta(e) \in StoredMeta
<1> DEFINE meta == DeserializeMeta(e.meta_blob)
           len  == IF meta.content_length = None THEN Length[e.of]
                   ELSE meta.content_length
<1>1. meta \in StoredMeta
  BY DecodedIsTyped DEF Entry
<1>2. Length[e.of] \in Nat
  BY ConstantsAssumption DEF Entry
<1>3. len \in OptionalNumber
  BY <1>1, <1>2 DEF StoredMeta, OptionalNumber
<1>4. LookupMeta(e) = [meta EXCEPT !.content_length = len]
  BY Zenon DEF LookupMeta
<1> HIDE DEF meta, len
<1>5. QED
  BY <1>1, <1>3, <1>4 DEF StoredMeta

LEMMA ValidatorsLookedUp ==
    ASSUME NEW e \in Entry
    PROVE  LET meta == DeserializeMeta(e.meta_blob) IN
           /\ LookupMeta(e).etag = meta.etag
           /\ LookupMeta(e).last_modified = meta.last_modified
<1> DEFINE meta == DeserializeMeta(e.meta_blob)
           len  == IF meta.content_length = None THEN Length[e.of]
                   ELSE meta.content_length
<1>1. meta \in StoredMeta
  BY DecodedIsTyped DEF Entry
<1>2. LookupMeta(e) = [meta EXCEPT !.content_length = len]
  BY Zenon DEF LookupMeta
<1> HIDE DEF meta, len
<1>3. /\ LookupMeta(e).etag = meta.etag
      /\ LookupMeta(e).last_modified = meta.last_modified
  BY <1>1, <1>2 DEF StoredMeta
<1>4. QED
  BY <1>3 DEF meta

LEMMA HeadersAreTyped ==
    ASSUME NEW meta \in StoredMeta
    PROVE  /\ SetCacheHeaders(meta) \in Headers
           /\ NotModifiedHeaders(meta) \in Headers
<1>1. None \in Header /\ None \in OptionalNumber
  BY DEF Header, OptionalNumber
<1>2. \A s \in Header : IfValid(s) \in Header
  BY <1>1 DEF IfValid
<1>3. /\ meta.content_type \in Header /\ meta.etag \in Header
      /\ meta.last_modified \in Header /\ meta.cache_control \in Header
      /\ meta.content_length \in OptionalNumber
  BY DEF StoredMeta
<1>4. QED
  BY <1>1, <1>2, <1>3, Zenon DEF SetCacheHeaders, NotModifiedHeaders, Headers

LEMMA RecoveredIsTyped ==
    ASSUME NEW meta \in CacheMeta
    PROVE  Recovered(meta) \in StoredMeta
<1>1. None \in OptionalNumber
  BY DEF OptionalNumber
<1>2. /\ meta.content_type \in OptionalText /\ meta.etag \in OptionalText
      /\ meta.last_modified \in OptionalText
      /\ meta.cache_control \in OptionalText
      /\ meta.content_length \in OptionalNumber /\ meta.ttl \in Nat
      /\ meta.created_at \in OptionalNumber
      /\ meta.expires_at \in OptionalNumber
  BY DEF CacheMeta
<1>3. /\ NonEmpty(meta.content_type) \in Header
      /\ NonEmpty(meta.etag) \in Header
      /\ NonEmpty(meta.last_modified) \in Header
      /\ NonEmpty(meta.cache_control) \in Header
  BY <1>2, NonEmptyIsHeader
<1>4. meta.ttl - (meta.ttl % PerSecond) \in Nat
  BY <1>2, WholeSeconds
<1>5. QED
  BY <1>1, <1>2, <1>3, <1>4, Zenon DEF Recovered, StoredMeta

LEMMA CopiesAreTyped ==
    ASSUME NEW v \in Versions, NEW headers,
           headers.etag \in Header, headers.last_modified \in Header
    PROVE  CopyOf(v, headers) \in Copy
  BY DEF CopyOf, Copy

(* A request is made of tags the client has been given.                    *)
LEMMA RequestsAreTyped ==
    ASSUME TypeOK
    PROVE  Requests \subseteq Request
<1>1. OwnTags \subseteq Text
  BY DEF TypeOK, Copy, Header, OwnTags
<1>2. \A tag \in OwnTags : Weakened(tag) \in Text
  <2>1. <<WeakPrefix>> \in Text
    BY ConstantsAssumption, SMT DEF Text
  <2>2. \A tag \in Text : <<WeakPrefix>> \o tag \in Text
    BY <2>1, SMT DEF Text
  <2>3. QED
    BY <1>1, <2>2, Zenon DEF Weakened
<1>3. ASSUME NEW list \in TagLists PROVE list \in Seq(Text)
  <2>1. CASE \E tag \in OwnTags : list = <<tag>>
    <3>1. PICK tag \in Text : list = <<tag>>
      BY <1>1, <2>1
    <3>2. QED
      BY <3>1, SMT
  <2>2. CASE \E tag \in OwnTags : list = <<Weakened(tag)>>
    <3>1. PICK tag \in Text : list = <<tag>>
      BY <1>2, <2>2
    <3>2. QED
      BY <3>1, SMT
  <2>3. CASE \E s, t, u \in OwnTags : list = <<s, t, u>>
    <3>1. PICK s \in Text, t \in Text, u \in Text : list = <<s, t, u>>
      BY <1>1, <2>3
    <3>2. QED
      BY <3>1, SMT
  <2>4. QED
    BY <2>1, <2>2, <2>3 DEF TagLists
<1>4. <<Star>> \in Text
  BY ConstantsAssumption, SMT DEF Text
<1>5. ASSUME NEW lines \in IfNoneMatchLines PROVE lines \in Seq(Seq(Text))
  <2>1. CASE lines = <<>>
    BY <2>1, SMT
  <2>2. CASE lines = << << <<Star>> >> >>
    <3>1. << <<Star>> >> \in Seq(Text)
      BY <1>4, SMT
    <3>2. QED
      BY <2>2, <3>1, SMT
  <2>3. CASE \E list \in TagLists : lines = <<list>>
    <3>1. PICK list \in Seq(Text) : lines = <<list>>
      BY <1>3, <2>3
    <3>2. QED
      BY <3>1, SMT
  <2>4. CASE \E s, t \in OwnTags : lines = << <<s>>, <<t>> >>
    <3>1. PICK s \in Text, t \in Text : lines = << <<s>>, <<t>> >>
      BY <1>1, <2>4
    <3>2. <<s>> \in Seq(Text) /\ <<t>> \in Seq(Text)
      BY <3>1, SMT
    <3>3. QED
      BY <3>1, <3>2, SMT
  <2>5. QED
    BY <2>1, <2>2, <2>3, <2>4 DEF IfNoneMatchLines
<1>6. {c.last_modified : c \in held} \cup {None} \subseteq Header
  BY DEF TypeOK, Copy, Header
<1>7. /\ <<>> \in Seq(CacheControlLine)
      /\ CacheControl \subseteq Seq(CacheControlLine)
  BY ConstantsAssumption, EmptySeq
<1>8. {<<>>, << << <<Star>> >> >>} \subseteq IfNoneMatchLines
  BY DEF IfNoneMatchLines
<1>9. None \in Header
  BY DEF Header
<1>10. QED
  BY <1>5, <1>6, <1>7, <1>8, <1>9 DEF Requests, Request
-----------------------------------------------------------------------------
(* While a request is answered, the entry it was answered from is there,   *)
(* as it was stored.                                                       *)
AnswerInv ==
    /\ entry # None => entry.meta_blob = SerializeMeta(Metas[entry.of])
    /\ request # None => reply # None
    /\ request # None /\ reply.status = "200" =>
         entry # None /\ reply.headers = SetCacheHeaders(LookupMeta(entry))

(* It is one that the client can send with the copies it has, and was      *)
(* answered as it asks for.                                                *)
AskedInv ==
    request # None =>
        /\ request \in Requests
        /\ reply.status \notin {"origin", "lookup_error"} =>
             HasFresh /\ ~ClientNoCache(request)
        /\ reply.status = "200" => ~NotModified(request, LookupMeta(entry))
        /\ reply.status = "304" => NotModified(request, LookupMeta(entry))

(* A copy has the validators of its version or none.                       *)
HeldInv ==
    \A c \in held : KeepsValidators(c.of) =>
        /\ c.etag \in {None, Metas[c.of].etag}
        /\ DateOf(c.last_modified)
             \in {None, DateOf(Metas[c.of].last_modified)}

IndInv == TypeOK /\ AnswerInv /\ AskedInv /\ HeldInv

LEMMA AnswersAreTyped ==
    ASSUME NEW status \in Statuses, NEW headers \in Headers \cup {None}
    PROVE  [status |-> status, headers |-> headers] \in Reply
  BY DEF Reply

LEMMA InitInv == Init => IndInv
<1>1. Init => TypeOK
  <2>1. 1 \in Versions
    BY ConstantsAssumption DEF Versions
  <2>2. QED
    BY <2>1 DEF Init, TypeOK
<1>2. Init => AnswerInv
  BY Zenon DEF Init, AnswerInv
<1>3. Init => AskedInv /\ HeldInv
  BY Zenon DEF Init, AskedInv, HeldInv
<1>4. QED
  BY <1>1, <1>2, <1>3 DEF IndInv

(* A step of the origin or of the tier.                                    *)
LEMMA TierStep ==
    ASSUME IndInv, Modify \/ Expire \/ Purge \/ \E v \in Versions : Store(v)
    PROVE  IndInv'
<1>1. request = None /\ request' = request /\ reply' = reply /\ held' = held
  BY DEF Modify, Expire, Purge, Store
<1> AskedInv' /\ HeldInv'
  BY <1>1, Zenon DEF IndInv, AskedInv, HeldInv
<1>2. CASE Modify
  <2>1. newest' \in Versions
    BY <1>2, ConstantsAssumption DEF IndInv, TypeOK, Modify, Versions
  <2>2. entry' = entry
    BY <1>2 DEF Modify
  <2>3. TypeOK'
    BY <1>1, <2>1, <2>2 DEF IndInv, TypeOK
  <2>4. AnswerInv'
    BY <1>1, <2>2 DEF IndInv, AnswerInv
  <2>5. QED
    BY <2>3, <2>4 DEF IndInv
<1>3. CASE Expire
  <2>1. /\ entry \in Entry /\ newest' = newest
        /\ entry' = [entry EXCEPT !.fresh = FALSE]
    BY <1>3 DEF IndInv, TypeOK, Expire
  <2>2. /\ entry' \in Entry /\ entry'.of = entry.of
        /\ entry'.meta_blob = entry.meta_blob
    BY <2>1 DEF Entry
  <2>3. entry # None
    BY <1>3 DEF Expire
  <2>4. TypeOK'
    BY <1>1, <2>1, <2>2 DEF IndInv, TypeOK
  <2>5. AnswerInv'
    BY <1>1, <2>2, <2>3, Zenon DEF IndInv, AnswerInv
  <2>6. QED
    BY <2>4, <2>5 DEF IndInv
<1>4. CASE Purge
  <2>1. entry' = None /\ newest' = newest
    BY <1>4 DEF Purge
  <2>2. TypeOK'
    BY <1>1, <2>1 DEF IndInv, TypeOK
  <2>3. AnswerInv'
    BY <1>1, <2>1, Zenon DEF AnswerInv
  <2>4. QED
    BY <2>2, <2>3 DEF IndInv
<1>5. ASSUME NEW v \in Versions, Store(v) PROVE IndInv'
  <2>1. /\ newest' = newest
        /\ entry' = [of |-> v, meta_blob |-> SerializeMeta(Metas[v]),
                     fresh |-> TRUE]
    BY <1>5 DEF Store
  <2>2. SerializeMeta(Metas[v]) \in Seq(Nat)
    BY ConstantsAssumption, EncodedIsTyped
  <2>3. /\ entry' \in Entry
        /\ entry'.meta_blob = SerializeMeta(Metas[entry'.of])
    BY <2>1, <2>2 DEF Entry
  <2>4. TypeOK'
    BY <1>1, <2>1, <2>3 DEF IndInv, TypeOK
  <2>5. AnswerInv'
    BY <1>1, <2>3, Zenon DEF AnswerInv
  <2>6. QED
    BY <2>4, <2>5 DEF IndInv
<1>6. QED
  BY <1>2, <1>3, <1>4, <1>5

LEMMA RequestsFollowHeld ==
    ASSUME held' = held
    PROVE  Requests' = Requests
<1>1. OwnTags' = OwnTags
  BY DEF OwnTags
<1>2. TagLists' = TagLists
  BY <1>1, SMT DEF TagLists
<1>3. IfNoneMatchLines' = IfNoneMatchLines
  BY <1>1, <1>2, SMT DEF IfNoneMatchLines
<1>4. {c.last_modified : c \in held}' = {c.last_modified : c \in held}
  OBVIOUS
<1>5. QED
  BY <1>3, <1>4, Zenon DEF Requests

(* A step of the request filter.                                           *)
LEMMA FilterStep ==
    ASSUME IndInv, NEW req \in Requests,
           \/ LookupFails(req) \/ GoToOrigin(req)
           \/ Serve(req) \/ AnswerNotModified(req)
    PROVE  IndInv'
<1>1. /\ request' = req /\ req \in Request /\ newest' = newest
      /\ entry' = entry /\ held' = held
  BY RequestsAreTyped
     DEF IndInv, LookupFails, GoToOrigin, Serve, AnswerNotModified, Arrives
<1>2. HasFresh => LookupMeta(entry) \in StoredMeta
  BY LookupIsTyped DEF HasFresh, IndInv, TypeOK
<1>3. /\ reply' \in Reply
      /\ reply'.status = "200" =>
           entry # None /\ reply'.headers = SetCacheHeaders(LookupMeta(entry))
  <2>1. CASE LookupFails(req) \/ GoToOrigin(req)
    <3>1. PICK status \in {"origin", "lookup_error"} :
            reply' = [status |-> status, headers |-> None]
      BY <2>1, Zenon DEF LookupFails, GoToOrigin, Answered
    <3>2. QED
      BY <3>1, AnswersAreTyped DEF Statuses
  <2>2. CASE Serve(req)
    <3>1. /\ HasFresh
          /\ \/ reply' = [status |-> "200",
                          headers |-> SetCacheHeaders(LookupMeta(entry))]
             \/ reply' = [status |-> "error", headers |-> None]
      BY <2>2, Zenon DEF Serve, Writes, Answered
    <3>2. SetCacheHeaders(LookupMeta(entry)) \in Headers
      BY <1>2, <3>1, HeadersAreTyped
    <3>3. QED
      BY <3>1, <3>2, AnswersAreTyped DEF Statuses, HasFresh
  <2>3. CASE AnswerNotModified(req)
    <3>1. /\ HasFresh
          /\ \/ reply' = [status |-> "304",
                          headers |-> NotModifiedHeaders(LookupMeta(entry))]
             \/ reply' = [status |-> "error", headers |-> None]
      BY <2>3, Zenon DEF AnswerNotModified, Writes, Answered
    <3>2. NotModifiedHeaders(LookupMeta(entry)) \in Headers
      BY <1>2, <3>1, HeadersAreTyped
    <3>3. QED
      BY <3>1, <3>2, AnswersAreTyped DEF Statuses
  <2>4. QED
    BY <2>1, <2>2, <2>3
<1>4. TypeOK'
  BY <1>1, <1>3 DEF IndInv, TypeOK
<1>5. AnswerInv'
  BY <1>1, <1>3, NoneAssumption DEF IndInv, AnswerInv
<1>6. AskedInv'
  <2>1. Requests' = Requests
    BY <1>1, RequestsFollowHeld
  <2>2. HasFresh' = HasFresh /\ LookupMeta(entry)' = LookupMeta(entry)
    BY <1>1, Zenon DEF HasFresh, LookupMeta
  <2>3. /\ ClientNoCache(request)' = ClientNoCache(req)
        /\ NotModified(request, LookupMeta(entry))'
             = NotModified(req, LookupMeta(entry))
    BY <1>1, <2>2, Zenon
       DEF ClientNoCache, NotModified, ETagMatches, NotModifiedSince
  <2> DEFINE meta == LookupMeta(entry)
  <2>4. /\ reply'.status \notin {"origin", "lookup_error"} =>
             HasFresh /\ ~ClientNoCache(req)
        /\ reply'.status = "200" => ~NotModified(req, meta)
        /\ reply'.status = "304" => NotModified(req, meta)
    <3> HIDE DEF meta
    <3>1. CASE LookupFails(req) \/ GoToOrigin(req)
      <4>1. PICK status \in {"origin", "lookup_error"} :
              reply' = [status |-> status, headers |-> None]
        BY <3>1, Zenon DEF LookupFails, GoToOrigin, Answered
      <4>2. QED
        BY <4>1
    <3>2. CASE Serve(req)
      <4>1. /\ HasFresh /\ ~ClientNoCache(req) /\ ~NotModified(req, meta)
            /\ \/ reply' = [status |-> "200",
                            headers |-> SetCacheHeaders(meta)]
               \/ reply' = [status |-> "error", headers |-> None]
        BY <3>2, Zenon DEF Serve, Writes, Answered, meta
      <4>2. QED
        BY <4>1
    <3>3. CASE AnswerNotModified(req)
      <4>1. /\ HasFresh /\ ~ClientNoCache(req) /\ NotModified(req, meta)
            /\ \/ reply' = [status |-> "304",
                            headers |-> NotModifiedHeaders(meta)]
               \/ reply' = [status |-> "error", headers |-> None]
        BY <3>3, Zenon DEF AnswerNotModified, Writes, Answered, meta
      <4>2. QED
        BY <4>1
    <3>4. QED
      BY <3>1, <3>2, <3>3
  <2>5. QED
    BY <1>1, <2>1, <2>2, <2>3, <2>4, Zenon DEF AskedInv
<1>7. HeldInv'
  BY <1>1, Zenon DEF IndInv, HeldInv
<1>8. QED
  BY <1>4, <1>5, <1>6, <1>7 DEF IndInv

(* What is kept of a version's validators by dropping some.                *)
LEMMA ReceivedKeeps ==
    ASSUME IndInv, request # None, NEW c \in Received,
           KeepsValidators(c.of)
    PROVE  /\ c.etag \in {None, Metas[c.of].etag}
           /\ DateOf(c.last_modified)
                \in {None, DateOf(Metas[c.of].last_modified)}
<1>1. DateOf(None) = None
  BY Zenon DEF DateOf
<1>2. \A s : IfValid(s) \in {None, s}
  BY Zenon DEF IfValid
<1>3. \A s : NonEmpty(s) \in {None, s}
  BY Zenon DEF NonEmpty
<1>4. \A v, headers : /\ CopyOf(v, headers).of = v
                      /\ CopyOf(v, headers).etag = headers.etag
                      /\ CopyOf(v, headers).last_modified
                           = headers.last_modified
  BY DEF CopyOf
<1>5. \A meta : /\ SetCacheHeaders(meta).etag = IfValid(meta.etag)
                /\ SetCacheHeaders(meta).last_modified
                     = IfValid(meta.last_modified)
  BY DEF SetCacheHeaders
<1>6. CASE reply.status = "200"
  <2> DEFINE meta == LookupMeta(entry)
             read == DeserializeMeta(SerializeMeta(Metas[entry.of]))
  <2>1. c = CopyOf(entry.of, reply.headers)
    BY <1>6 DEF Received
  <2>2. entry # None /\ reply.headers = SetCacheHeaders(meta)
    BY <1>6, Zenon DEF IndInv, AnswerInv
  <2>3. meta.etag = read.etag /\ meta.last_modified = read.last_modified
    <3>1. entry \in Entry /\ entry.meta_blob = SerializeMeta(Metas[entry.of])
      BY <2>2, Zenon DEF IndInv, TypeOK, AnswerInv
    <3>2. QED
      BY <3>1, ValidatorsLookedUp
  <2> HIDE DEF meta, read
  <2>4. c.of = entry.of /\ c.etag = IfValid(read.etag)
        /\ c.last_modified = IfValid(read.last_modified)
    <3>1. /\ c.of = entry.of /\ c.etag = reply.headers.etag
          /\ c.last_modified = reply.headers.last_modified
      BY <1>4, <2>1, Zenon
    <3>2. /\ reply.headers.etag = IfValid(meta.etag)
          /\ reply.headers.last_modified = IfValid(meta.last_modified)
      BY <1>5, <2>2, Zenon
    <3>3. QED
      BY <2>3, <3>1, <3>2, Zenon
  <2>5. /\ read.etag \in {None, Metas[c.of].etag}
        /\ DateOf(read.last_modified)
             \in {None, DateOf(Metas[c.of].last_modified)}
    BY <2>4, Zenon DEF KeepsValidators, read
  <2>6. QED
    BY <1>1, <1>2, <2>4, <2>5
<1>7. CASE reply.status = "origin"
  <2> DEFINE meta == Recovered(Metas[newest])
             sent == OriginHeaders(newest)
  <2>0. \A s : Sent(s) \in {None, s}
    BY Zenon DEF Sent
  <2>1. /\ c = CopyOf(newest, sent)
        /\ sent.etag = Sent(meta.etag)
        /\ sent.last_modified = Sent(meta.last_modified)
    BY <1>7 DEF Received, OriginHeaders
  <2>2. /\ meta.etag = NonEmpty(Metas[newest].etag)
        /\ meta.last_modified = NonEmpty(Metas[newest].last_modified)
    BY DEF Recovered
  <2> HIDE DEF meta, sent
  <2>3. c.of = newest /\ c.etag = Sent(meta.etag)
        /\ c.last_modified = Sent(meta.last_modified)
    BY <1>4, <2>1, Zenon
  <2>4. QED
    BY <1>1, <1>3, <2>0, <2>2, <2>3
<1>8. QED
  BY <1>6, <1>7 DEF Received

(* A step of the client.                                                   *)
LEMMA ClientStep ==
    ASSUME IndInv, Receive \/ \E c \in held : Forget(c)
    PROVE  IndInv'
<1>1. newest' = newest /\ entry' = entry
  BY DEF Receive, Forget
<1>2. CASE Receive
  <2>1. request' = None /\ reply' = None /\ request # None
    BY <1>2 DEF Receive
  <2>2. Received \subseteq Copy
    <3>1. CASE reply.status = "200"
      <4>1. /\ entry \in Entry
            /\ reply.headers = SetCacheHeaders(LookupMeta(entry))
        BY <2>1, <3>1 DEF IndInv, TypeOK, AnswerInv
      <4>2. reply.headers \in Headers /\ entry.of \in Versions
        BY <4>1, LookupIsTyped, HeadersAreTyped DEF Entry
      <4>3. QED
        BY <3>1, <4>2, CopiesAreTyped DEF Received, Headers
    <3>2. CASE reply.status = "origin"
      <4>1. newest \in Versions /\ Metas[newest] \in CacheMeta
        BY ConstantsAssumption DEF IndInv, TypeOK
      <4>2. /\ OriginHeaders(newest).etag \in Header
            /\ OriginHeaders(newest).last_modified \in Header
        <5>1. /\ Recovered(Metas[newest]).etag \in Header
              /\ Recovered(Metas[newest]).last_modified \in Header
          BY <4>1, RecoveredIsTyped DEF StoredMeta
        <5>2. \A h \in Header : Sent(h) \in Header
          BY Zenon DEF Sent, Header
        <5>3. QED
          BY <5>1, <5>2 DEF OriginHeaders
      <4>3. QED
        BY <3>2, <4>1, <4>2, CopiesAreTyped DEF Received
    <3>3. QED
      BY <3>1, <3>2 DEF Received
  <2>3. held' \subseteq Copy
    BY <1>2, <2>2 DEF Receive, IndInv, TypeOK
  <2>4. TypeOK'
    BY <1>1, <2>1, <2>3 DEF IndInv, TypeOK
  <2>5. AnswerInv' /\ AskedInv'
    BY <1>1, <2>1, Zenon DEF IndInv, AnswerInv, AskedInv
  <2>6. HeldInv'
    <3>1. \A c \in held' : c \in held \/ c \in Received
      BY <1>2 DEF Receive
    <3>2. QED
      BY <2>1, <3>1, ReceivedKeeps, Zenon DEF IndInv, HeldInv
  <2>7. QED
    BY <2>4, <2>5, <2>6 DEF IndInv
<1>3. ASSUME NEW c \in held, Forget(c) PROVE IndInv'
  <2>1. request' = request /\ reply' = reply /\ held' \subseteq held
    BY <1>3 DEF Forget
  <2>2. TypeOK'
    BY <1>1, <2>1 DEF IndInv, TypeOK
  <2>3. AnswerInv' /\ AskedInv'
    <3>1. request = None
      BY <1>3 DEF Forget
    <3>2. QED
      BY <1>1, <2>1, <3>1, Zenon DEF IndInv, AnswerInv, AskedInv
  <2>4. HeldInv'
    <3>1. \A d \in held' : d \in held
      BY <2>1
    <3>2. QED
      BY <3>1, Zenon DEF IndInv, HeldInv
  <2>5. QED
    BY <2>2, <2>3, <2>4 DEF IndInv
<1>4. QED
  BY <1>2, <1>3

LEMMA NextInv == IndInv /\ [Next]_vars => IndInv'
<1> SUFFICES ASSUME IndInv, [Next]_vars PROVE IndInv'
  OBVIOUS
<1>1. CASE Next
  BY <1>1, TierStep, FilterStep, ClientStep, Zenon DEF Next, RequestFilter
<1>2. CASE UNCHANGED vars
  <2>1. TypeOK'
    BY <1>2 DEF IndInv, TypeOK, vars
  <2>2. AnswerInv' /\ HeldInv'
    BY <1>2, Zenon DEF IndInv, AnswerInv, HeldInv, vars
  <2>3. AskedInv'
    <3>1. /\ request' = request /\ reply' = reply /\ entry' = entry
          /\ held' = held
      BY <1>2 DEF vars
    <3>2. Requests' = Requests
      BY <3>1, RequestsFollowHeld
    <3>3. QED
      BY <3>1, <3>2, Zenon
         DEF IndInv, AskedInv, HasFresh, LookupMeta, ClientNoCache,
             NotModified, ETagMatches, NotModifiedSince
  <2>4. QED
    BY <2>1, <2>2, <2>3 DEF IndInv
<1>3. QED
  BY <1>1, <1>2

THEOREM Invariance == Spec => []IndInv
  BY InitInv, NextInv, PTL DEF Spec

(* Types: what a client is sent, keeps and sends back are well-formed      *)
(* header values, whatever a manifest holds.                               *)
THEOREM TypeCorrect == Spec => []TypeOK
<1>1. IndInv => TypeOK
  BY DEF IndInv
<1>2. QED
  BY <1>1, Invariance, PTL

(* Headers: a hit's headers are those its version was stored with, for any *)
(* metadata that fits the length field.                                    *)
THEOREM StoredHeadersComeBack == Spec => []HeadersSurviveStorage
<1>1. IndInv => HeadersSurviveStorage
  <2> SUFFICES ASSUME IndInv, request # None, reply.status = "200",
                      Fits(Metas[entry.of])
               PROVE  LET meta == Recovered(Metas[entry.of]) IN
                      reply.headers = SetCacheHeaders(
                        [meta EXCEPT !.content_length =
                           IF meta.content_length = None THEN Length[entry.of]
                           ELSE meta.content_length])
    BY Zenon DEF HeadersSurviveStorage
  <2>1. /\ entry \in Entry
        /\ entry.meta_blob = SerializeMeta(Metas[entry.of])
        /\ reply.headers = SetCacheHeaders(LookupMeta(entry))
    BY DEF IndInv, TypeOK, AnswerInv
  <2>2. Metas[entry.of] \in CacheMeta
    BY <2>1, ConstantsAssumption DEF Entry
  <2>3. DeserializeMeta(entry.meta_blob) = Recovered(Metas[entry.of])
    BY <2>1, <2>2, RoundTrip
  <2>4. QED
    BY <2>1, <2>3, Zenon DEF LookupMeta
<1>2. QED
  BY <1>1, Invariance, PTL
-----------------------------------------------------------------------------
(* Conditional requests.                                                   *)

(* The value of a tag without its prefix.                                  *)
ValueOf(s) == OpaqueTag(WithoutPrefix(s))

LEMMA ParsedHasValue ==
    ASSUME NEW s \in Seq(Nat)
    PROVE  /\ ParseETag(s) # None <=> ValueOf(s) # <<>>
           /\ ParseETag(s) # None => ParseETag(s).value = ValueOf(s)
<1> DEFINE u == WithoutPrefix(s)
           t == [weak |-> IsWeak(s), value |-> ValueOf(s)]
<1>1. ParseETag(s) = IF ValueOf(s) = <<>> THEN None ELSE t
  BY Zenon DEF ParseETag, ValueOf
<1>2. u \in Seq(Nat)
  <2>1. CASE IsWeak(s)
    <3>1. Tail(s) \in Seq(Nat)
      BY <2>1, SMT DEF IsWeak
    <3>2. QED
      BY <2>1, <3>1, Zenon DEF WithoutPrefix
  <2>2. CASE ~IsWeak(s)
    BY <2>2, Zenon DEF WithoutPrefix
  <2>3. QED
    BY <2>1, <2>2
<1> HIDE DEF u
<1>3. SubSeq(u, 2, Len(u) - 1) \in Seq(Nat)
  <2>1. Len(u) - 1 \in Int /\ \A i \in 2 .. Len(u) - 1 : u[i] \in Nat
    BY <1>2, SMT
  <2>2. QED
    BY <2>1, CutOut
<1>4. <<>> \in Seq(Nat)
  BY EmptySeq
<1>5. ValueOf(s) \in Seq(Nat)
  <2>1. OpaqueTag(u) \in Seq(Nat)
    BY <1>2, <1>3, <1>4, Zenon DEF OpaqueTag
  <2>2. QED
    BY <2>1, Zenon DEF ValueOf, u
<1>6. t \in ETag /\ t.value = ValueOf(s)
  <2>1. IsWeak(s) \in BOOLEAN
    BY Zenon DEF IsWeak
  <2>2. QED
    BY <1>5, <2>1 DEF ETag
<1> HIDE DEF t
<1>7. t # None
  BY <1>6, NoneAssumption
<1>8. QED
  BY <1>1, <1>6, <1>7, Zenon

(* A proxy that weakens a tag leaves its value.                            *)
LEMMA WeakenedHasValue ==
    ASSUME NEW s \in Seq(Nat)
    PROVE  Weakened(s) \in Seq(Nat) /\ ValueOf(Weakened(s)) = ValueOf(s)
<1>1. CASE IsWeak(s)
  BY <1>1, Zenon DEF Weakened
<1>2. CASE ~IsWeak(s)
  <2> DEFINE w == <<WeakPrefix>> \o s
  <2>1. w \in Seq(Nat) /\ w # <<>> /\ w[1] = WeakPrefix /\ Tail(w) = s
    BY SMT DEF WeakPrefix
  <2>2. Weakened(s) = w
    BY <1>2, Zenon DEF Weakened
  <2> HIDE DEF w
  <2>3. WithoutPrefix(w) = s
    BY <2>1, Zenon DEF WithoutPrefix, IsWeak
  <2>4. WithoutPrefix(s) = s
    BY <1>2, Zenon DEF WithoutPrefix
  <2>5. QED
    BY <2>1, <2>2, <2>3, <2>4, Zenon DEF ValueOf
<1>3. QED
  BY <1>1, <1>2

(* What the client sends under If-None-Match.                              *)
LEMMA TagsAreOwn ==
    ASSUME NEW req \in Requests, FirstLine(req.if_none_match) # None,
           FirstLine(req.if_none_match) # << <<Star>> >>
    PROVE  LET tags == FirstLine(req.if_none_match) IN
           /\ tags # <<>>
           /\ \A i \in DOMAIN tags :
                \E own \in OwnTags : tags[i] \in {own, Weakened(own)}
<1> DEFINE lines == req.if_none_match
           tags == FirstLine(lines)
<1>1. lines \in IfNoneMatchLines
  <2>1. {<<>>, << << <<Star>> >> >>} \subseteq IfNoneMatchLines
    BY DEF IfNoneMatchLines
  <2>2. QED
    BY <2>1 DEF Requests
<1>2. lines # <<>> /\ tags = lines[1]
  BY DEF FirstLine
<1>3. lines # << << <<Star>> >> >>
  BY <1>2
<1> DEFINE Own(list) == /\ list # <<>>
                        /\ \A i \in DOMAIN list :
                             \E own \in OwnTags : list[i] \in {own, Weakened(own)}
<1>4. \A x : \A own \in OwnTags : x \in {own, Weakened(own)} => Own(<<x>>)
  OBVIOUS
<1>5. \A a, b, c \in OwnTags : Own(<<a, b, c>>)
  OBVIOUS
<1>6. CASE \E list \in TagLists : lines = <<list>>
  <2>1. PICK list \in TagLists : tags = list
    BY <1>2, <1>6
  <2>2. Own(list)
    <3> HIDE DEF Own
    <3>1. QED
      BY <1>4, <1>5 DEF TagLists
  <2>3. QED
    BY <2>1, <2>2
<1>7. CASE \E a, b \in OwnTags : lines = << <<a>>, <<b>> >>
  <2>1. PICK a \in OwnTags : tags = <<a>>
    BY <1>2, <1>7
  <2>2. Own(<<a>>)
    BY <1>4
  <2>3. QED
    BY <2>1, <2>2
<1>8. QED
  BY <1>1, <1>2, <1>3, <1>6, <1>7 DEF IfNoneMatchLines

LEMMA TagsAreTexts ==
    ASSUME NEW req \in Request, FirstLine(req.if_none_match) # None
    PROVE  /\ FirstLine(req.if_none_match) \in Seq(Text)
           /\ FirstLine(req.if_none_match) \in Seq(Seq(Nat))
<1> DEFINE tags == FirstLine(req.if_none_match)
<1>1. tags \in Seq(Text)
  <2>1. req.if_none_match \in Seq(Seq(Text)) /\ req.if_none_match # <<>>
    BY DEF Request, FirstLine
  <2>2. req.if_none_match[1] \in Seq(Text)
    BY <2>1, SMT
  <2>3. QED
    BY <2>1, <2>2 DEF FirstLine
<1> HIDE DEF tags
<1>2. tags \in Seq(Seq(Nat))
  <2>1. Len(tags) \in Nat /\ tags \in [1 .. Len(tags) -> Text]
    BY <1>1, LenProperties
  <2>2. tags \in [1 .. Len(tags) -> Seq(Nat)]
    BY <2>1, NoneIsApart
  <2>3. QED
    BY <2>1, <2>2, SMT
<1>3. QED
  BY <1>1, <1>2 DEF tags

(* Metadata that fits its length field is read back with its validators:   *)
(* what NotModifiedIsCurrent excepts is metadata that does not.            *)
THEOREM FittingKeepsValidators ==
    ASSUME NEW v \in Versions, Fits(Metas[v])
    PROVE  KeepsValidators(v)
<1> DEFINE read == DeserializeMeta(SerializeMeta(Metas[v]))
<1>1. read = Recovered(Metas[v])
  BY ConstantsAssumption, RoundTrip
<1> HIDE DEF read
<1>2. /\ read.etag = NonEmpty(Metas[v].etag)
      /\ read.last_modified = NonEmpty(Metas[v].last_modified)
  BY <1>1 DEF Recovered
<1>3. \A s : NonEmpty(s) \in {None, s}
  BY Zenon DEF NonEmpty
<1>4. DateOf(None) = None
  BY Zenon DEF DateOf
<1>5. /\ read.etag \in {None, Metas[v].etag}
      /\ DateOf(read.last_modified) \in {None, DateOf(Metas[v].last_modified)}
  BY <1>2, <1>3, <1>4
<1>6. QED
  BY <1>5, Zenon DEF KeepsValidators, read

(* A date the client sends is that of a copy: if it is not before the      *)
(* stored one, the copy is not older than what is stored.                  *)
LEMMA DateIsCurrent ==
    ASSUME IndInv, request # None, entry # None,
           KeepsValidators(entry.of),
           \A c \in held : KeepsValidators(c.of),
           NotModifiedSince(request, LookupMeta(entry))
    PROVE  \E c \in held : c.of >= entry.of
<1> DEFINE stored == DateOf(LookupMeta(entry).last_modified)
           client == DateOf(request.if_modified_since)
           date(v) == DateOf(Metas[v].last_modified)
<1>1. stored # None /\ client # None /\ stored <= client
  BY Zenon DEF NotModifiedSince
<1>2. entry \in Entry /\ entry.of \in Versions
  BY DEF IndInv, TypeOK, Entry
<1>3. stored = date(entry.of)
  <2>1. LookupMeta(entry).last_modified
          = DeserializeMeta(SerializeMeta(Metas[entry.of])).last_modified
    BY <1>2, ValidatorsLookedUp DEF IndInv, AnswerInv
  <2>2. stored \in {None, date(entry.of)}
    BY <2>1, Zenon DEF KeepsValidators
  <2>3. QED
    BY <1>1, <2>2
<1>4. PICK c \in held : request.if_modified_since = c.last_modified
  <2>1. request \in Requests
    BY Zenon DEF IndInv, AskedInv
  <2>2. DateOf(None) = None
    BY Zenon DEF DateOf
  <2>3. request.if_modified_since # None
    BY <1>1, <2>2
  <2>4. request.if_modified_since \in {c.last_modified : c \in held} \cup {None}
    BY <2>1 DEF Requests
  <2>5. QED
    BY <2>3, <2>4
<1>5. client = date(c.of) /\ c.of \in Versions
  <2>1. client \in {None, date(c.of)}
    BY <1>4, Zenon DEF IndInv, HeldInv
  <2>2. c \in Copy
    BY DEF IndInv, TypeOK
  <2>3. QED
    BY <1>1, <2>1, <2>2 DEF Copy
<1>6. \A s : DateOf(s) # None => DateOf(s) \in Nat
  BY ConstantsAssumption, Zenon DEF DateOf
<1>7. stored \in Nat /\ client \in Nat
  BY <1>1, <1>6
<1>8. c.of < entry.of => date(c.of) < date(entry.of)
  BY <1>1, <1>2, <1>3, <1>5, ValidatorsAssumption, Zenon
<1> HIDE DEF stored, client, date
<1>9. ~(c.of < entry.of)
  BY <1>1, <1>3, <1>5, <1>7, <1>8
<1>10. c.of \in Nat /\ entry.of \in Nat
  BY <1>2, <1>5, ConstantsAssumption DEF Versions
<1>11. QED
  BY <1>9, <1>10

(* A tag that matches is that of the version stored.                       *)
LEMMA TagIsCurrent ==
    ASSUME IndInv, request # None, entry # None, ~SendsCommas,
           KeepsValidators(entry.of),
           \A c \in held : KeepsValidators(c.of),
           ETagMatches(request, LookupMeta(entry)),
           FirstLine(request.if_none_match) # << <<Star>> >>
    PROVE  \E c \in held : c.of = entry.of
<1> DEFINE tags == FirstLine(request.if_none_match)
           stored == LookupMeta(entry).etag
           tag(v) == Metas[v].etag
<1>1. /\ tags # None /\ stored # None
      /\ MatchesETag(stored, JoinWithCommas(tags))
  BY Zenon DEF ETagMatches
<1>2. entry \in Entry /\ entry.of \in Versions
  BY DEF IndInv, TypeOK, Entry
<1>3. stored = tag(entry.of)
  <2>1. stored = DeserializeMeta(SerializeMeta(Metas[entry.of])).etag
    BY <1>2, ValidatorsLookedUp DEF IndInv, AnswerInv
  <2>2. stored \in {None, tag(entry.of)}
    BY <2>1, Zenon DEF KeepsValidators
  <2>3. QED
    BY <1>1, <2>2
<1>4. /\ tags \in Seq(Seq(Nat)) /\ tags # <<>>
      /\ \A i \in DOMAIN tags :
           \E own \in OwnTags : tags[i] \in {own, Weakened(own)}
  <2>1. request \in Requests /\ request \in Request
    BY DEF IndInv, AskedInv, TypeOK
  <2>2. QED
    BY <1>1, <2>1, TagsAreOwn, TagsAreTexts
<1>5. \A i \in DOMAIN tags : ~Contains(tags[i], Comma)
  BY <1>1, Zenon DEF SendsCommas
<1>6. Pieces(JoinWithCommas(tags))
        = {tags[i] : i \in {j \in DOMAIN tags : j <= MaxTags}}
  <2> HIDE DEF tags
  <2>1. QED
    BY <1>4, <1>5, CommasSeparateTags, Zenon
<1>7. JoinWithCommas(tags) # <<Star>>
  <2> HIDE DEF tags
  <2>1. tags # << <<Star>> >>
    BY DEF tags
  <2>2. QED
    BY <1>4, <2>1, StarIsAlone
<1> HIDE DEF tags, stored
<1>8. PICK piece \in Pieces(JoinWithCommas(tags)) :
         /\ ParseETag(piece) # None
         /\ ParseETag(piece).value = ParseETag(stored).value
  BY <1>1, <1>7 DEF MatchesETag, IfNoneMatchTags
<1>9. PICK own \in OwnTags : piece \in {own, Weakened(own)}
  BY <1>4, <1>6, <1>8, Zenon
<1>10. PICK c \in held : own = c.etag /\ own # None
  BY DEF OwnTags
<1>11. c \in Copy /\ c.of \in Versions /\ own \in Seq(Nat)
  <2>1. c \in Copy
    BY DEF IndInv, TypeOK
  <2>2. own \in Text
    BY <1>10, <2>1 DEF Copy, Header
  <2>3. QED
    BY <2>1, <2>2, NoneIsApart DEF Copy
<1>12. own = tag(c.of)
  BY <1>10, Zenon DEF IndInv, HeldInv
<1>13. ParseETag(own) # None /\ ParseETag(own).value = ParseETag(piece).value
  <2>1. /\ Weakened(own) \in Seq(Nat)
        /\ ValueOf(Weakened(own)) = ValueOf(own)
    BY <1>11, WeakenedHasValue
  <2>2. piece \in Seq(Nat) /\ ValueOf(piece) = ValueOf(own)
    BY <1>9, <1>11, <2>1
  <2>3. QED
    BY <1>8, <1>11, <2>2, ParsedHasValue
<1>14. ParseETag(stored) # None
  BY <1>1, Zenon DEF MatchesETag
<1>15. c.of \in Nat /\ entry.of \in Nat
  BY <1>2, <1>11, ConstantsAssumption DEF Versions
<1>16. \A u, v \in Versions :
         /\ u < v
         /\ tag(u) # None /\ tag(v) # None
         /\ ParseETag(tag(u)) # None /\ ParseETag(tag(v)) # None
         => ParseETag(tag(u)).value # ParseETag(tag(v)).value
  BY ValidatorsAssumption, Zenon
<1> HIDE DEF tag
<1>17. ~(c.of < entry.of) /\ ~(entry.of < c.of)
  BY <1>1, <1>2, <1>3, <1>8, <1>10, <1>11, <1>12, <1>13, <1>14, <1>16, Zenon
<1>18. QED
  BY <1>15, <1>17

(* Not Modified: for any versions with honest validators, whatever was     *)
(* stored, read and kept, a client told so holds what is cached or newer.  *)
THEOREM NotModifiedMeansHeld == Spec => []NotModifiedIsCurrent
<1>1. IndInv => NotModifiedIsCurrent
  <2> SUFFICES ASSUME IndInv, request # None, reply.status = "304",
                      ~SendsCommas,
                      \A v \in {entry.of} \cup {c.of : c \in held} :
                        KeepsValidators(v),
                      FirstLine(request.if_none_match) # << <<Star>> >>
               PROVE  \E c \in held : c.of >= entry.of
    BY Zenon DEF NotModifiedIsCurrent
  <2>1. entry # None /\ NotModified(request, LookupMeta(entry))
    BY DEF IndInv, AskedInv, HasFresh
  <2>2. KeepsValidators(entry.of) /\ \A c \in held : KeepsValidators(c.of)
    OBVIOUS
  <2>3. CASE NotModifiedSince(request, LookupMeta(entry))
    BY <2>1, <2>2, <2>3, DateIsCurrent, Zenon
  <2>4. CASE ETagMatches(request, LookupMeta(entry))
    <3>1. PICK c \in held : c.of = entry.of
      BY <2>1, <2>2, <2>4, TagIsCurrent, Zenon
    <3>2. entry.of \in Nat
      BY <2>1, ConstantsAssumption DEF IndInv, TypeOK, Entry, Versions
    <3>3. QED
      BY <3>1, <3>2
  <2>5. QED
    BY <2>1, <2>3, <2>4 DEF NotModified
<1>2. QED
  BY <1>1, Invariance, PTL

(* Not sent again: for any tags and any metadata that fits, a client that  *)
(* names the cached version within the limit gets no body.                 *)
THEOREM HeldSavesTheBody == Spec => []HeldIsNotSentAgain
<1>1. IndInv => HeldIsNotSentAgain
  <2> DEFINE meta == Metas[entry.of]
             tags == FirstLine(request.if_none_match)
             stored == LookupMeta(entry).etag
  <2> SUFFICES ASSUME IndInv, request # None, reply.status = "200",
                      Fits(meta), meta.etag # None,
                      ParseETag(meta.etag) # None,
                      tags # None, ~SendsCommas,
                      NEW i \in DOMAIN tags, i <= MaxTags,
                      tags[i] \in {meta.etag, Weakened(meta.etag)}
               PROVE  FALSE
    BY Zenon DEF HeldIsNotSentAgain
  <2>1. /\ entry \in Entry
        /\ entry.meta_blob = SerializeMeta(meta)
    BY DEF IndInv, TypeOK, AnswerInv
  <2>2. meta \in CacheMeta
    BY <2>1, ConstantsAssumption DEF Entry
  <2>3. meta.etag \in Seq(Nat)
    BY <2>2, NoneIsApart DEF CacheMeta, OptionalText
  <2>4. stored = meta.etag
    <3>1. stored = DeserializeMeta(entry.meta_blob).etag
      BY <2>1, ValidatorsLookedUp
    <3>2. stored = NonEmpty(meta.etag)
      BY <2>1, <2>2, <3>1, RoundTrip DEF Recovered
    <3>3. meta.etag # <<>>
      <4>1. ParseETag(<<>>) = None
        BY Zenon DEF ParseETag, OpaqueTag, WithoutPrefix, IsWeak
      <4>2. QED
        BY <4>1
    <3>4. QED
      BY <3>2, <3>3, Zenon DEF NonEmpty
  <2>5. tags \in Seq(Seq(Nat)) /\ tags # <<>>
    <3>1. request \in Request
      BY DEF IndInv, TypeOK
    <3>2. tags \in Seq(Seq(Nat))
      BY <3>1, TagsAreTexts
    <3>3. tags # <<>>
      OBVIOUS
    <3>4. QED
      BY <3>2, <3>3
  <2>6. \A j \in DOMAIN tags : ~Contains(tags[j], Comma)
    BY Zenon DEF SendsCommas
  <2> HIDE DEF tags, meta, stored
  <2>7. Pieces(JoinWithCommas(tags))
          = {tags[j] : j \in {k \in DOMAIN tags : k <= MaxTags}}
    BY <2>5, <2>6, CommasSeparateTags, Zenon
  <2>8. tags[i] \in Pieces(JoinWithCommas(tags))
    BY <2>7
  <2>9. /\ ParseETag(tags[i]) # None
        /\ ParseETag(tags[i]).value = ParseETag(meta.etag).value
    <3>1. /\ Weakened(meta.etag) \in Seq(Nat)
          /\ ValueOf(Weakened(meta.etag)) = ValueOf(meta.etag)
      BY <2>3, WeakenedHasValue
    <3>2. tags[i] \in Seq(Nat) /\ ValueOf(tags[i]) = ValueOf(meta.etag)
      BY <2>3, <3>1
    <3>3. QED
      BY <2>3, <3>2, ParsedHasValue
  <2>10. MatchesETag(stored, JoinWithCommas(tags))
    BY <2>4, <2>8, <2>9 DEF MatchesETag, IfNoneMatchTags
  <2>11. ETagMatches(request, LookupMeta(entry))
    BY <2>4, <2>10, Zenon DEF ETagMatches, stored, tags
  <2>12. QED
    BY <2>11, Zenon DEF IndInv, AskedInv, NotModified
<1>2. QED
  BY <1>1, Invariance, PTL
-----------------------------------------------------------------------------
(* Cache-Control of requests.                                              *)

LEMMA LineIsTyped ==
    ASSUME NEW req \in Request, FirstLine(req.cache_control) # None
    PROVE  FirstLine(req.cache_control) \in CacheControlLine
<1>1. req.cache_control \in Seq(CacheControlLine) /\ req.cache_control # <<>>
  BY DEF Request, FirstLine
<1>2. req.cache_control[1] \in CacheControlLine
  BY <1>1, SMT
<1>3. QED
  BY <1>1, <1>2 DEF FirstLine

(* no-cache: in strict mode a request with it, wherever it stands on the   *)
(* line up to the limit, gets nothing from the cache: it goes to the       *)
(* origin or has failed with its lookup.                                   *)
THEOREM NoCacheIsObeyed == Spec => []NoCacheIsNotServed
<1>1. IndInv => NoCacheIsNotServed
  <2> DEFINE line == FirstLine(request.cache_control)
             says(name) == \E i \in DOMAIN line.directives :
                 i <= MaxDirectives /\ line.directives[i].name = name
  <2> SUFFICES ASSUME IndInv, Strict, request # None, line # None, ~line.long,
                      says("no-cache")
               PROVE  reply.status \in {"origin", "lookup_error"}
    BY Zenon DEF NoCacheIsNotServed
  <2>1. line \in CacheControlLine
    BY LineIsTyped DEF IndInv, TypeOK
  <2>2. ParseCacheControl(line).no_cache
    <3> HIDE DEF line
    <3>1. ParseCacheControl(line).no_cache = says("no-cache")
      BY <2>1, LineIsRead
    <3>2. QED
      BY <3>1
  <2>3. ClientNoCache(request)
    BY <2>2, Zenon DEF ClientNoCache
  <2>4. QED
    BY <2>3, Zenon DEF IndInv, AskedInv
<1>2. QED
  BY <1>1, Invariance, PTL

(* Directives: for lines of any length and any limit, the last number      *)
(* given counts and nothing said is taken back.                            *)
THEOREM DirectivesMeanThemselves == Spec => []DirectivesAsSent
<1>1. IndInv => DirectivesAsSent
  <2> DEFINE line == FirstLine(request.cache_control)
             d == ParseCacheControl(line)
             own == LastGiven(line, "s-maxage")
             says(name) == \E i \in DOMAIN line.directives :
                 i <= MaxDirectives /\ line.directives[i].name = name
  <2> SUFFICES ASSUME IndInv, request # None, line # None, ~line.long
               PROVE  /\ EffectiveMaxAge(d)
                           = IF own # None THEN own
                             ELSE LastGiven(line, "max-age")
                      /\ d.stale_if_error = LastGiven(line, "stale-if-error")
                      /\ AllowsStore(d) = ~says("no-store")
    BY Zenon DEF DirectivesAsSent
  <2>1. line \in CacheControlLine
    BY LineIsTyped DEF IndInv, TypeOK
  <2> HIDE DEF line
  <2>2. /\ d.max_age = LastGiven(line, "max-age")
        /\ d.s_maxage = own
        /\ d.stale_if_error = LastGiven(line, "stale-if-error")
        /\ d.no_store = says("no-store")
    BY <2>1, LineIsRead
  <2> HIDE DEF d, own, says
  <2>3. QED
    BY <2>2, Zenon DEF EffectiveMaxAge, AllowsStore
<1>2. QED
  BY <1>1, Invariance, PTL
=============================================================================
