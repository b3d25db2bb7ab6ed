---------------------------- MODULE RequestHeaders ----------------------------
(***************************************************************************)
(* The parsers of request headers in src/src/proxy.rs: entity tags,        *)
(* If-None-Match and Cache-Control.                                        *)
(*                                                                         *)
(* A tag is a sequence of characters.  Those its syntax rests on have      *)
(* names below, the prefix W/ is one of them, and any other number is some *)
(* other character; blanks around a tag, which are trimmed, are left out.  *)
(***************************************************************************)
EXTENDS Naturals, Sequences, FiniteSets

CONSTANTS
    None,          \* Rust's None
    MaxTags,       \* MAX_ETAGS of parse_if_none_match
    MaxDirectives  \* MAX_CC_DIRECTIVES of parse_cache_control

Quote      == 1
Comma      == 2
WeakPrefix == 3
Star       == 4
LineBreak  == 5

Take(s, n) == SubSeq(s, 1, IF Len(s) < n THEN Len(s) ELSE n)
-----------------------------------------------------------------------------
(* parse_etag                                                              *)

ETag == [weak : BOOLEAN, value : Seq(Nat)]

IsWeak(s) == s # <<>> /\ s[1] = WeakPrefix

WithoutPrefix(s) == IF IsWeak(s) THEN Tail(s) ELSE s

(* A tag that opens a quote and does not close it has no value; one        *)
(* without quotes is taken as it is.                                       *)
OpaqueTag(s) ==
    LET opens  == s # <<>> /\ s[1] = Quote
        closes == Len(s) >= 2 /\ s[Len(s)] = Quote
    IN
    IF opens /\ closes THEN SubSeq(s, 2, Len(s) - 1)
    ELSE IF opens THEN <<>> ELSE s

(* Of a tag without a value nothing is left.                               *)
ParseETag(s) ==
    LET value == OpaqueTag(WithoutPrefix(s)) IN
    IF value = <<>> THEN None ELSE [weak |-> IsWeak(s), value |-> value]
-----------------------------------------------------------------------------
(* parse_if_none_match, for a header that is not `*`; and matches_etag     *)

(* The first MaxTags pieces between commas.                                *)
Pieces(header) ==
    LET cuts == {0, Len(header) + 1}
                  \cup {i \in DOMAIN header : header[i] = Comma}
        next(i) == CHOOSE j \in cuts : j > i /\ \A k \in cuts : k > i => j <= k
        taken == {i \in cuts : /\ i <= Len(header)
                              /\ Cardinality({j \in cuts : j < i}) < MaxTags}
    IN  {SubSeq(header, i + 1, next(i) - 1) : i \in taken}

(* What a client does to send tags in one header.                          *)
JoinWithCommas(tags) ==
    LET header[n \in 1 .. Len(tags)] ==
            IF n = 1 THEN tags[1] ELSE header[n - 1] \o <<Comma>> \o tags[n]
    IN  header[Len(tags)]

IfNoneMatchTags(header) ==
    {ParseETag(piece) : piece \in Pieces(header)} \ {None}

(* Mutant of MatchesETag: a weak tag matches a weak tag only.              *)
MatchesETagSameStrength(stored, header) ==
    /\ ParseETag(stored) # None
    /\ \/ header = <<Star>>
       \/ ParseETag(stored) \in IfNoneMatchTags(header)

(* The weak comparison.                                                    *)
MatchesETag(stored, header) ==
    /\ ParseETag(stored) # None
    /\ \/ header = <<Star>>
       \/ \E tag \in IfNoneMatchTags(header) :
             tag.value = ParseETag(stored).value
-----------------------------------------------------------------------------
(* parse_cache_control                                                     *)

Names == {"no-cache", "no-store", "must-revalidate", "max-age", "s-maxage",
          "stale-if-error", "other"}

(* What stands between two commas; its value is None if there is none or   *)
(* it is no u64.                                                           *)
Directive == [name : Names, value : Nat \cup {None}]

(* long: more than 256 bytes                                               *)
CacheControlLine == [long : BOOLEAN, directives : Seq(Directive)]

NoDirectives ==
    [max_age |-> None, s_maxage |-> None, stale_if_error |-> None,
     no_cache |-> FALSE, no_store |-> FALSE, must_revalidate |-> FALSE]

(* Mutant of ParsedOr: a value that cannot be parsed counts as none.       *)
ParsedOnly(value, old) == value

ParsedOr(value, old) == IF value = None THEN old ELSE value

Accept(d, part) ==
    CASE part.name = "no-cache" -> [d EXCEPT !.no_cache = TRUE]
      [] part.name = "no-store" -> [d EXCEPT !.no_store = TRUE]
      [] part.name = "must-revalidate" -> [d EXCEPT !.must_revalidate = TRUE]
      [] part.name = "max-age" ->
            [d EXCEPT !.max_age = ParsedOr(part.value, @)]
      [] part.name = "s-maxage" ->
            [d EXCEPT !.s_maxage = ParsedOr(part.value, @)]
      [] part.name = "stale-if-error" ->
            [d EXCEPT !.stale_if_error = ParsedOr(part.value, @)]
      [] OTHER -> d

(* The directives after each turn of the loop.                             *)
AfterEach(directives) ==
    LET after[n \in 0 .. Len(directives)] ==
            IF n = 0 THEN NoDirectives
            ELSE Accept(after[n - 1], directives[n])
    IN  after

(* Mutant of ParseCacheControl: one directive too few is looked at.        *)
ParseCacheControlShort(line) ==
    LET taken == Take(line.directives, MaxDirectives - 1) IN
    IF line.long THEN NoDirectives ELSE AfterEach(taken)[Len(taken)]

ParseCacheControl(line) ==
    LET taken == Take(line.directives, MaxDirectives) IN
    IF line.long THEN NoDirectives ELSE AfterEach(taken)[Len(taken)]

EffectiveMaxAge(d) == IF d.s_maxage # None THEN d.s_maxage ELSE d.max_age

AllowsStore(d) == ~d.no_store
=============================================================================
