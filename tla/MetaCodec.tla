------------------------------- MODULE MetaCodec -------------------------------
(***************************************************************************)
(* How the durable tier writes the metadata of a response into a manifest  *)
(* and reads it back (serialize_meta and deserialize_meta of               *)
(* src/src/storage/durable.rs), and the metadata itself (CacheMeta of      *)
(* src/src/cache.rs).                                                      *)
(*                                                                         *)
(* A buffer is a sequence of cells: a character, a number of eight bytes   *)
(* or a length of two bytes.  Characters and numbers are naturals, so a    *)
(* reader that has lost its place misreads one for the other.              *)
(***************************************************************************)
EXTENDS Naturals, Sequences

CONSTANTS
    None,    \* Rust's None
    LenMod,    \* what a length is written modulo: 2^16
    Utf8,      \* cells that can stand in a string
    PerSecond  \* the fractions of a second that a ttl counts

ASSUME CodecAssumption ==
    /\ LenMod \in Nat \ {0} /\ PerSecond \in Nat \ {0}
    /\ Utf8 \subseteq Nat
    /\ None \notin Nat \cup Seq(Nat)

Text == Seq(Utf8)

OptionalText == Text \cup {None}

OptionalNumber == Nat \cup {None}

CacheMeta == [content_length : OptionalNumber, ttl : Nat,
              created_at : OptionalNumber, expires_at : OptionalNumber,
              content_type : OptionalText, etag : OptionalText,
              last_modified : OptionalText, cache_control : OptionalText,
              version : OptionalNumber]

(* CacheMeta::default: five minutes, and no expiry at all.                 *)
DefaultMeta == [content_length |-> None, ttl |-> 300 * PerSecond,
                created_at |-> None, expires_at |-> None,
                content_type |-> None, etag |-> None,
                last_modified |-> None, cache_control |-> None,
                version |-> None]
-----------------------------------------------------------------------------
(* serialize_meta                                                          *)

OrZero(n) == IF n = None THEN 0 ELSE n

Flag(n, bit) == IF n = None THEN 0 ELSE bit

Flags(meta) == Flag(meta.content_length, 1) + Flag(meta.created_at, 2)
                 + Flag(meta.expires_at, 4)

(* Of the ttl, a Duration, whole seconds are written.                      *)
FixedFields(meta) ==
    <<1, Flags(meta), OrZero(meta.content_length), meta.ttl \div PerSecond,
      OrZero(meta.created_at), OrZero(meta.expires_at)>>

(* Mutant of WriteString: the length counts itself.                        *)
WriteStringLonger(s) ==
    IF s = None THEN <<0>> ELSE <<(Len(s) + 1) % LenMod>> \o s

(* The length loses what does not fit, the text does not.                  *)
WriteString(s) ==
    IF s = None THEN <<0>> ELSE <<Len(s) % LenMod>> \o s

SerializeMeta(meta) ==
    FixedFields(meta)
      \o (WriteString(meta.content_type)
      \o (WriteString(meta.etag)
      \o (WriteString(meta.last_modified)
      \o WriteString(meta.cache_control))))
-----------------------------------------------------------------------------
(* deserialize_meta                                                        *)

(* What reading a string at pos gives: is it there, what is it (None if it *)
(* is empty), and where does the next one begin?                           *)

Unreadable == [ok |-> FALSE, text |-> None, pos |-> 0]

(* Mutant of ReadString: no string is None.                                *)
ReadStringNeverNone(buf, pos) ==
    LET len  == buf[pos + 1]
        text == SubSeq(buf, pos + 2, pos + 1 + len)
    IN
    IF Len(buf) < pos + 1 \/ Len(buf) < pos + 1 + len \/ text \notin Text
    THEN Unreadable
    ELSE [ok |-> TRUE, text |-> text, pos |-> pos + 1 + len]

ReadString(buf, pos) ==
    LET len  == buf[pos + 1]
        text == SubSeq(buf, pos + 2, pos + 1 + len)
    IN
    IF Len(buf) < pos + 1 \/ Len(buf) < pos + 1 + len \/ text \notin Text
    THEN Unreadable
    ELSE [ok |-> TRUE, text |-> IF len = 0 THEN None ELSE text,
          pos |-> pos + 1 + len]

Given(flags, bit, n) == IF (flags \div bit) % 2 = 1 THEN n ELSE None

(* Anything that cannot be read gives the default; the version is the      *)
(* manifest's and not in the buffer.                                       *)
DeserializeMeta(buf) ==
    LET content_type  == ReadString(buf, 6)
        etag          == ReadString(buf, content_type.pos)
        last_modified == ReadString(buf, etag.pos)
        cache_control == ReadString(buf, last_modified.pos)
    IN
    IF /\ Len(buf) >= 6
       /\ buf[1] = 1
       /\ content_type.ok /\ etag.ok /\ last_modified.ok /\ cache_control.ok
    THEN [content_length |-> Given(buf[2], 1, buf[3]),
          ttl |-> buf[4] * PerSecond,
          created_at |-> Given(buf[2], 2, buf[5]),
          expires_at |-> Given(buf[2], 4, buf[6]),
          content_type |-> content_type.text, etag |-> etag.text,
          last_modified |-> last_modified.text,
          cache_control |-> cache_control.text,
          version |-> None]
    ELSE DefaultMeta
-----------------------------------------------------------------------------
(* What the codec is meant to do, to be compared with what it does.        *)

Texts(meta) == {meta.content_type, meta.etag, meta.last_modified,
                meta.cache_control}

Fits(meta) == \A s \in Texts(meta) : s # None => Len(s) < LenMod

NonEmpty(s) == IF s = <<>> THEN None ELSE s

(* The metadata as it was given, less empty strings, the version and the   *)
(* fraction of a second of the ttl.                                        *)
Recovered(meta) ==
    [content_length |-> meta.content_length,
     ttl |-> meta.ttl - (meta.ttl % PerSecond),
     created_at |-> meta.created_at, expires_at |-> meta.expires_at,
     content_type |-> NonEmpty(meta.content_type),
     etag |-> NonEmpty(meta.etag),
     last_modified |-> NonEmpty(meta.last_modified),
     cache_control |-> NonEmpty(meta.cache_control), version |-> None]
=============================================================================
