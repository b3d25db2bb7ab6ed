---------------------------- MODULE MCRevalidation ----------------------------
(* Versions and requests for the run of Revalidation.                      *)
EXTENDS Revalidation

(* Characters and dates.                                                   *)
a == 6
b == 7
Control == 8
Day == [v \in 1 .. 7 |-> 20 + v]

Quoted(s) == <<Quote>> \o s \o <<Quote>>

Meta(length, etag, last_modified) ==
    [DefaultMeta EXCEPT !.content_length = length, !.content_type = <<a>>,
                        !.ttl = 2 * PerSecond + 1,
                        !.created_at = 1, !.expires_at = 3, !.etag = etag,
                        !.last_modified = last_modified]

(* A tag with commas whose middle is the value of the next one, which is   *)
(* weak; a plain one; one that is not closed, and a line break elsewhere;  *)
(* one with a line break, and a control character elsewhere; one too long  *)
(* for LenMod; and one with another string too long for it, in which the   *)
(* tag of the third is read.                                               *)
MCMetas ==
    <<Meta(2, Quoted(<<a, Comma, b, Comma, a>>), <<Day[1]>>),
      Meta(None, <<WeakPrefix>> \o Quoted(<<b>>), None),
      Meta(2, Quoted(<<a>>), <<Day[3]>>),
      [Meta(2, <<Quote, b>>, <<Day[4]>>) EXCEPT
         !.cache_control = <<a, LineBreak>>],
      [Meta(2, Quoted(<<LineBreak>>), <<Day[5]>>) EXCEPT
         !.content_type = <<Control>>],
      Meta(2, Quoted(<<a, a, b, b, a, b>>), <<Day[6]>>),
      [Meta(2, Quoted(<<b, b>>), <<Day[7]>>) EXCEPT
         !.content_type = <<3>> \o Quoted(<<a>>) \o <<0, 0, a, a>>]>>

MCUtf8 == 0 .. 40

MCLength == [v \in 1 .. 7 |-> v]

MCInstants == 20 .. 30

Says(name, value) == [name |-> name, value |-> value]

Directives == {Says("no-cache", None), Says("no-store", None),
               Says("max-age", 1), Says("max-age", 2), Says("max-age", None),
               Says("s-maxage", 3), Says("stale-if-error", 4),
               Says("other", None)}

Line(directives) == [long |-> FALSE, directives |-> directives]

NoCache == Says("no-cache", None)

MCCacheControl ==
    {<<Line(<<x, y, NoCache>>)>> : x, y \in Directives}
      \cup {<<Line(<<x>>), Line(<<NoCache>>)>> : x \in Directives}
      \cup {<<[Line(<<x>>) EXCEPT !.long = TRUE]>> : x \in Directives}
=============================================================================
