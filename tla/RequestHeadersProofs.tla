------------------------ MODULE RequestHeadersProofs ------------------------
(***************************************************************************)
(* What the parsers of RequestHeaders compute, for header lines of every   *)
(* length and for every limit on the tags and directives looked at, as     *)
(* Revalidation uses them.                                                 *)
(*                                                                         *)
(* The parsers are loops, and what a loop does is proved by induction on   *)
(* its turns.  The induction is over a set of naturals, those whose turn   *)
(* leaves what is claimed.                                                 *)
(***************************************************************************)
EXTENDS Revalidation, MetaCodecProofs, FiniteSetTheorems, FunctionTheorems

(* A set that has 0 and the successors of its members has every natural:   *)
(* there is no least one without.                                          *)
LEMMA SetInduction ==
    ASSUME NEW S, 0 \in S, \A n \in Nat : n \in S => n + 1 \in S
    PROVE  Nat \subseteq S
<1> DEFINE T == Nat \ S
           R == OpToRel(<, Nat)
<1> SUFFICES ASSUME T # {} PROVE FALSE
  OBVIOUS
<1>1. PICK x \in T : \A y \in T : <<y, x>> \notin R
  <2>1. IsWellFoundedOn(R, Nat)
    BY NatLessThanWellFounded
  <2>2. T \subseteq Nat
    OBVIOUS
  <2> HIDE DEF T, R
  <2>3. QED
    BY <2>1, <2>2, WFMin
<1>2. x # 0 /\ x - 1 \in Nat
  OBVIOUS
<1>3. x - 1 \in T
  OBVIOUS
<1>4. <<x - 1, x>> \in R
  BY <1>2 DEF OpToRel
<1>5. QED
  BY <1>1, <1>3, <1>4

(* A loop of n turns on values in S: its turn i takes v to turn[v, i].     *)
IsLoop(turn, S, n) == turn \in [S \X (1 .. n) -> S]

(* The values it goes through, starting with c.                            *)
IsRun(f, turn, S, n, c) ==
    /\ f \in [0 .. n -> S]
    /\ f[0] = c
    /\ \A i \in 1 .. n : f[i] = turn[<<f[i - 1], i>>]

LEMMA LoopRuns ==
    ASSUME NEW S, NEW c \in S, NEW n \in Nat, NEW turn, IsLoop(turn, S, n)
    PROVE  \E f : IsRun(f, turn, S, n, c)
<1> USE DEF IsLoop
<1> DEFINE Run(f, k) == /\ f \in [0 .. k -> S]
                        /\ f[0] = c
                        /\ \A i \in 1 .. k : f[i] = turn[<<f[i - 1], i>>]
           K == {k \in Nat : k <= n => \E f : Run(f, k)}
<1>1. Run([i \in 0 .. 0 |-> c], 0)
  OBVIOUS
<1>2. ASSUME NEW k \in Nat, NEW f, Run(f, k), k < n
      PROVE  \E g : Run(g, k + 1)
  <2> DEFINE v == turn[<<f[k], k + 1>>]
             g == [i \in 0 .. k + 1 |-> IF i = k + 1 THEN v ELSE f[i]]
  <2>1. /\ k + 1 \in 1 .. n /\ k \in 0 .. k
        /\ f \in [0 .. k -> S] /\ f[0] = c
        /\ \A i \in 1 .. k : f[i] = turn[<<f[i - 1], i>>]
    BY <1>2
  <2>2. v \in S
    <3>1. <<f[k], k + 1>> \in S \X (1 .. n)
      BY <2>1
    <3>2. QED
      BY <3>1
  <2> HIDE DEF v
  <2>3. g \in [0 .. k + 1 -> S]
    BY <2>1, <2>2
  <2>4. g[0] = c
    BY <2>1
  <2>5. ASSUME NEW i \in 1 .. k + 1
        PROVE  g[i] = turn[<<g[i - 1], i>>]
    <3>1. CASE i = k + 1
      <4>1. g[i] = v /\ g[i - 1] = f[k] /\ i = k + 1
        BY <2>1, <3>1
      <4>2. QED
        BY <4>1 DEF v
    <3>2. CASE i # k + 1
      <4>1. i \in 1 .. k /\ g[i] = f[i] /\ g[i - 1] = f[i - 1]
        BY <2>1, <3>2
      <4>2. QED
        BY <2>1, <4>1
    <3>3. QED
      BY <3>1, <3>2
  <2> HIDE DEF g
  <2>6. QED
    BY <2>3, <2>4, <2>5
<1> HIDE DEF Run
<1>3. 0 \in K
  BY <1>1
<1>4. ASSUME NEW k \in Nat, k \in K PROVE k + 1 \in K
  <2>1. SUFFICES ASSUME k + 1 <= n PROVE \E g : Run(g, k + 1)
    OBVIOUS
  <2>2. k <= n /\ k < n
    BY <2>1
  <2>3. \E f : Run(f, k)
    BY <1>4, <2>2
  <2>4. QED
    BY <1>2, <2>2, <2>3
<1>5. n \in K
  <2> HIDE DEF K
  <2>1. QED
    BY <1>3, <1>4, SetInduction
<1>6. \E f : Run(f, n)
  BY <1>5
<1>7. QED
  BY <1>6 DEF Run, IsRun
-----------------------------------------------------------------------------
(* parse_cache_control.                                                    *)

(* CacheControlDirectives as far as they have been read.                   *)
Parsed == [max_age : OptionalNumber, s_maxage : OptionalNumber,
           stale_if_error : OptionalNumber, no_cache : BOOLEAN,
           no_store : BOOLEAN, must_revalidate : BOOLEAN]

(* One turn sets the field of its directive's name, and a value that is no *)
(* number leaves the field as it was.                                      *)
LEMMA AcceptSets ==
    ASSUME NEW d \in Parsed, NEW part \in Directive
    PROVE  LET e == Accept(d, part) IN
           /\ e \in Parsed
           /\ e.max_age = IF part.name = "max-age"
                          THEN ParsedOr(part.value, d.max_age) ELSE d.max_age
           /\ e.s_maxage = IF part.name = "s-maxage"
                           THEN ParsedOr(part.value, d.s_maxage)
                           ELSE d.s_maxage
           /\ e.stale_if_error = IF part.name = "stale-if-error"
                                 THEN ParsedOr(part.value, d.stale_if_error)
                                 ELSE d.stale_if_error
           /\ e.no_cache = (part.name = "no-cache" \/ d.no_cache)
           /\ e.no_store = (part.name = "no-store" \/ d.no_store)
<1>1. /\ part.name \in Names /\ part.value \in OptionalNumber
      /\ DOMAIN d = {"max_age", "s_maxage", "stale_if_error", "no_cache",
                     "no_store", "must_revalidate"}
      /\ d.max_age \in OptionalNumber /\ d.s_maxage \in OptionalNumber
      /\ d.stale_if_error \in OptionalNumber /\ d.no_cache \in BOOLEAN
      /\ d.no_store \in BOOLEAN /\ d.must_revalidate \in BOOLEAN
  BY DEF Directive, Parsed, OptionalNumber
<1>2. \A old \in OptionalNumber : ParsedOr(part.value, old) \in OptionalNumber
  BY <1>1 DEF ParsedOr
<1>3. CASE part.name = "no-cache"
  BY <1>1, <1>3 DEF Accept, Parsed
<1>4. CASE part.name = "no-store"
  BY <1>1, <1>4 DEF Accept, Parsed
<1>5. CASE part.name = "must-revalidate"
  BY <1>1, <1>5 DEF Accept, Parsed
<1>6. CASE part.name = "max-age"
  BY <1>1, <1>2, <1>6 DEF Accept, Parsed
<1>7. CASE part.name = "s-maxage"
  BY <1>1, <1>2, <1>7 DEF Accept, Parsed
<1>8. CASE part.name = "stale-if-error"
  BY <1>1, <1>2, <1>8 DEF Accept, Parsed
<1>9. CASE part.name = "other"
  BY <1>1, <1>9 DEF Accept, Parsed
<1>10. QED
  BY <1>1, <1>3, <1>4, <1>5, <1>6, <1>7, <1>8, <1>9 DEF Names

(* The function AfterEach is defined by is there: each turn gives what the *)
(* next one starts from.                                                   *)
LEMMA EachTurnAccepts ==
    ASSUME NEW ds, Len(ds) \in Nat,
           \A i \in 1 .. Len(ds) : ds[i] \in Directive
    PROVE  /\ AfterEach(ds) \in [0 .. Len(ds) -> Parsed]
           /\ AfterEach(ds)[0] = NoDirectives
           /\ \A i \in 1 .. Len(ds) :
                AfterEach(ds)[i] = Accept(AfterEach(ds)[i - 1], ds[i])
<1> DEFINE n == Len(ds)
           turn == [p \in Parsed \X (1 .. n) |-> Accept(p[1], ds[p[2]])]
           Def(f) == [i \in 0 .. n |-> IF i = 0 THEN NoDirectives
                                       ELSE Accept(f[i - 1], ds[i])]
<1>1. n \in Nat /\ \A i \in 1 .. n : ds[i] \in Directive
  OBVIOUS
<1>2. NoDirectives \in Parsed
  BY DEF NoDirectives, Parsed, OptionalNumber
<1>3. ASSUME NEW d \in Parsed, NEW i \in 1 .. n
      PROVE  Accept(d, ds[i]) \in Parsed
  BY <1>1, AcceptSets
<1>4. turn \in [Parsed \X (1 .. n) -> Parsed]
  BY <1>3
<1>5. \A d \in Parsed, i \in 1 .. n : turn[<<d, i>>] = Accept(d, ds[i])
  OBVIOUS
<1> HIDE DEF turn, n
<1>6. PICK f \in [0 .. n -> Parsed] :
         /\ f[0] = NoDirectives
         /\ \A i \in 1 .. n : f[i] = turn[<<f[i - 1], i>>]
  BY <1>1, <1>2, <1>4, LoopRuns DEF IsLoop, IsRun
<1>7. \A i \in 1 .. n : f[i] = Accept(f[i - 1], ds[i])
  <2>1. \A i \in 1 .. n : i - 1 \in 0 .. n
    BY <1>1
  <2>2. QED
    BY <1>5, <1>6, <2>1
<1>8. f = Def(f)
  BY <1>6, <1>7
<1>9. AfterEach(ds) = CHOOSE g : g = Def(g)
  BY Zenon DEF AfterEach, n
<1> DEFINE after == AfterEach(ds)
<1>10. after = Def(after)
  <2> HIDE DEF Def
  <2>1. QED
    BY <1>8, <1>9, Zenon
<1> HIDE DEF after
<1>11. /\ after[0] = NoDirectives
       /\ \A i \in 1 .. n : after[i] = Accept(after[i - 1], ds[i])
  BY <1>1, <1>10
<1>12. \A k \in 0 .. n : after[k] \in Parsed
  <2> DEFINE K == {k \in Nat : k <= n => after[k] \in Parsed}
  <2>1. 0 \in K
    BY <1>2, <1>11
  <2>2. ASSUME NEW k \in Nat, k \in K PROVE k + 1 \in K
    <3>1. SUFFICES ASSUME k + 1 <= n PROVE after[k + 1] \in Parsed
      OBVIOUS
    <3>2. after[k] \in Parsed /\ k + 1 \in 1 .. n
      BY <1>1, <2>2, <3>1
    <3>3. after[k + 1] = Accept(after[k], ds[k + 1])
      BY <1>11, <3>2
    <3>4. QED
      BY <1>3, <3>2, <3>3
  <2> HIDE DEF K
  <2>3. Nat \subseteq K
    BY <2>1, <2>2, SetInduction
  <2>4. QED
    BY <1>1, <2>3 DEF K
<1>13. after \in [0 .. n -> Parsed]
  BY <1>10, <1>12
<1>14. QED
  BY <1>11, <1>13 DEF after, n

(* The turns in which a name is given a number.                            *)
Givings(ds, k, name) ==
    {i \in 1 .. k : ds[i].name = name /\ ds[i].value # None}

(* x is the last number that the first k directives give the name.         *)
IsLastGiven(x, ds, k, name) ==
    \/ Givings(ds, k, name) = {} /\ x = None
    \/ \E i \in Givings(ds, k, name) :
          /\ \A j \in Givings(ds, k, name) : j <= i
          /\ x = ds[i].value

LEMMA LastGivenGoesOn ==
    ASSUME NEW ds, NEW k \in Nat, NEW name, NEW x, NEW y,
           IsLastGiven(x, ds, k, name),
           y = IF ds[k + 1].name = name THEN ParsedOr(ds[k + 1].value, x)
               ELSE x
    PROVE  IsLastGiven(y, ds, k + 1, name)
<1> DEFINE old == Givings(ds, k, name)
           new == Givings(ds, k + 1, name)
<1>1. 1 .. k + 1 = (1 .. k) \cup {k + 1}
  OBVIOUS
<1>2. CASE ds[k + 1].name = name /\ ds[k + 1].value # None
  <2>1. new = old \cup {k + 1} /\ y = ds[k + 1].value
    BY <1>1, <1>2 DEF Givings, ParsedOr
  <2>2. \A j \in old \cup {k + 1} : j <= k + 1
    BY DEF Givings
  <2>3. QED
    BY <2>1, <2>2 DEF IsLastGiven
<1>3. CASE ~(ds[k + 1].name = name /\ ds[k + 1].value # None)
  <2>1. new = old /\ y = x
    BY <1>1, <1>3 DEF Givings, ParsedOr
  <2>2. QED
    BY <2>1 DEF IsLastGiven
<1>4. QED
  BY <1>2, <1>3

(* What the first k turns leave: of each number the last one given, and    *)
(* of each word whether it was there.                                      *)
LEMMA DirectivesRead ==
    ASSUME NEW ds, Len(ds) \in Nat,
           \A i \in 1 .. Len(ds) : ds[i] \in Directive,
           NEW k \in 0 .. Len(ds)
    PROVE  LET d == AfterEach(ds)[k] IN
           /\ IsLastGiven(d.max_age, ds, k, "max-age")
           /\ IsLastGiven(d.s_maxage, ds, k, "s-maxage")
           /\ IsLastGiven(d.stale_if_error, ds, k, "stale-if-error")
           /\ d.no_cache = \E i \in 1 .. k : ds[i].name = "no-cache"
           /\ d.no_store = \E i \in 1 .. k : ds[i].name = "no-store"
<1> DEFINE after == AfterEach(ds)
           Read(d, j) ==
             /\ IsLastGiven(d.max_age, ds, j, "max-age")
             /\ IsLastGiven(d.s_maxage, ds, j, "s-maxage")
             /\ IsLastGiven(d.stale_if_error, ds, j, "stale-if-error")
             /\ d.no_cache = \E i \in 1 .. j : ds[i].name = "no-cache"
             /\ d.no_store = \E i \in 1 .. j : ds[i].name = "no-store"
           K == {j \in Nat : j <= Len(ds) => Read(after[j], j)}
<1>1. /\ after[0] = NoDirectives
      /\ \A i \in 0 .. Len(ds) : after[i] \in Parsed
      /\ \A i \in 1 .. Len(ds) : after[i] = Accept(after[i - 1], ds[i])
  BY EachTurnAccepts
<1>2. Read(after[0], 0)
  BY <1>1 DEF NoDirectives, IsLastGiven, Givings
<1>3. ASSUME NEW j \in Nat, j + 1 <= Len(ds), Read(after[j], j)
      PROVE  Read(after[j + 1], j + 1)
  <2>1. /\ j + 1 \in 1 .. Len(ds) /\ (j + 1) - 1 = j /\ j \in 0 .. Len(ds)
        /\ 1 .. j + 1 = (1 .. j) \cup {j + 1}
    BY <1>3
  <2>2. /\ after[j] \in Parsed /\ ds[j + 1] \in Directive
        /\ after[j + 1] = Accept(after[j], ds[j + 1])
    BY <1>1, <2>1
  <2> DEFINE d == after[j]
             e == after[j + 1]
             part == ds[j + 1]
  <2>3. /\ e.max_age = IF part.name = "max-age"
                       THEN ParsedOr(part.value, d.max_age) ELSE d.max_age
        /\ e.s_maxage = IF part.name = "s-maxage"
                        THEN ParsedOr(part.value, d.s_maxage) ELSE d.s_maxage
        /\ e.stale_if_error = IF part.name = "stale-if-error"
                              THEN ParsedOr(part.value, d.stale_if_error)
                              ELSE d.stale_if_error
        /\ e.no_cache = (part.name = "no-cache" \/ d.no_cache)
        /\ e.no_store = (part.name = "no-store" \/ d.no_store)
    BY <2>2, AcceptSets
  <2>4. /\ IsLastGiven(e.max_age, ds, j + 1, "max-age")
        /\ IsLastGiven(e.s_maxage, ds, j + 1, "s-maxage")
        /\ IsLastGiven(e.stale_if_error, ds, j + 1, "stale-if-error")
    BY <1>3, <2>3, LastGivenGoesOn
  <2>5. /\ e.no_cache = \E i \in 1 .. j + 1 : ds[i].name = "no-cache"
        /\ e.no_store = \E i \in 1 .. j + 1 : ds[i].name = "no-store"
    BY <1>3, <2>1, <2>3
  <2>6. QED
    BY <2>4, <2>5
<1> HIDE DEF Read, after
<1>4. 0 \in K
  BY <1>2
<1>5. ASSUME NEW j \in Nat, j \in K PROVE j + 1 \in K
  <2>1. SUFFICES ASSUME j + 1 <= Len(ds) PROVE Read(after[j + 1], j + 1)
    OBVIOUS
  <2>2. j <= Len(ds)
    BY <2>1
  <2>3. QED
    BY <1>3, <1>5, <2>1, <2>2
<1>6. k \in K
  <2> HIDE DEF K
  <2>1. QED
    BY <1>4, <1>5, SetInduction
<1>7. Read(after[k], k)
  BY <1>6
<1>8. QED
  BY <1>7 DEF Read, after

(* What the properties call the last value given is what was read.         *)
LEMMA LastGivenIsRead ==
    ASSUME NEW line, NEW n \in Nat, NEW k \in Nat, NEW name, NEW x,
           DOMAIN line.directives = 1 .. n, NEW ds, k <= n,
           \A i \in 1 .. n : i <= MaxDirectives <=> i <= k,
           \A i \in 1 .. k : ds[i] = line.directives[i],
           IsLastGiven(x, ds, k, name)
    PROVE  x = LastGiven(line, name)
<1> DEFINE given == {i \in DOMAIN line.directives :
                       /\ i <= MaxDirectives
                       /\ line.directives[i].name = name
                       /\ line.directives[i].value # None}
           last == CHOOSE i \in given : \A j \in given : j <= i
<1>1. given = Givings(ds, k, name)
  BY DEF Givings
<1>2. LastGiven(line, name)
        = IF given = {} THEN None ELSE line.directives[last].value
  BY Zenon DEF LastGiven
<1>3. CASE given = {}
  BY <1>1, <1>2, <1>3 DEF IsLastGiven
<1>4. CASE given # {}
  <2>1. PICK i \in given : (\A j \in given : j <= i) /\ x = ds[i].value
    BY <1>1, <1>4 DEF IsLastGiven
  <2>2. last \in given /\ \A j \in given : j <= last
    BY <2>1
  <2>3. i \in 1 .. k /\ last \in 1 .. k
    BY <1>1, <2>1, <2>2 DEF Givings
  <2>4. last = i
    <3>1. i <= last /\ last <= i
      BY <2>1, <2>2
    <3> HIDE DEF last, given
    <3>2. QED
      BY <2>3, <3>1
  <2>5. ds[i] = line.directives[i]
    BY <2>3
  <2>6. QED
    BY <1>2, <1>4, <2>1, <2>4, <2>5
<1>5. QED
  BY <1>3, <1>4

(* A header line that is not too long: each directive counts, up to the    *)
(* limit, and nothing else does.                                           *)
LEMMA LineIsRead ==
    ASSUME NEW line \in CacheControlLine, ~line.long
    PROVE  LET d == ParseCacheControl(line)
               says(name) == \E i \in DOMAIN line.directives :
                   i <= MaxDirectives /\ line.directives[i].name = name
           IN
           /\ d.max_age = LastGiven(line, "max-age")
           /\ d.s_maxage = LastGiven(line, "s-maxage")
           /\ d.stale_if_error = LastGiven(line, "stale-if-error")
           /\ d.no_cache = says("no-cache")
           /\ d.no_store = says("no-store")
<1> DEFINE all == line.directives
           ds == Take(all, MaxDirectives)
           n == Len(all)
           k == IF n < MaxDirectives THEN n ELSE MaxDirectives
           d == ParseCacheControl(line)
<1>1. /\ all \in Seq(Directive) /\ MaxDirectives \in Nat /\ n \in Nat
      /\ k \in Nat /\ k <= n /\ DOMAIN all = 1 .. n
      /\ \A i \in 1 .. n : all[i] \in Directive
      /\ \A i \in 1 .. n : i <= MaxDirectives <=> i <= k
  BY ConstantsAssumption, LenProperties DEF CacheControlLine
<1>2. ds = SubSeq(all, 1, k)
  BY DEF Take
<1>3. /\ Len(ds) = k
      /\ \A i \in 1 .. k : ds[i] = all[i] /\ ds[i] \in Directive
  BY <1>1, <1>2, SubSeqProperties
<1>4. d = AfterEach(ds)[k]
  BY <1>3, Zenon DEF ParseCacheControl
<1> HIDE DEF ds, k, n, d
<1>5. /\ IsLastGiven(d.max_age, ds, k, "max-age")
      /\ IsLastGiven(d.s_maxage, ds, k, "s-maxage")
      /\ IsLastGiven(d.stale_if_error, ds, k, "stale-if-error")
      /\ d.no_cache = \E i \in 1 .. k : ds[i].name = "no-cache"
      /\ d.no_store = \E i \in 1 .. k : ds[i].name = "no-store"
  <2>1. k \in 0 .. Len(ds) /\ Len(ds) \in Nat
    BY <1>1, <1>3
  <2>2. \A i \in 1 .. Len(ds) : ds[i] \in Directive
    BY <1>3
  <2>3. QED
    BY <1>4, <2>1, <2>2, DirectivesRead
<1>6. /\ n \in Nat /\ k \in Nat /\ k <= n /\ DOMAIN all = 1 .. n
      /\ \A i \in 1 .. n : i <= MaxDirectives <=> i <= k
      /\ \A i \in 1 .. k : ds[i] = all[i]
  BY <1>1, <1>3
<1>7. \A name : (\E i \in 1 .. k : ds[i].name = name)
                <=> (\E i \in DOMAIN all : i <= MaxDirectives
                                             /\ all[i].name = name)
  BY <1>6
<1>8. /\ d.max_age = LastGiven(line, "max-age")
      /\ d.s_maxage = LastGiven(line, "s-maxage")
      /\ d.stale_if_error = LastGiven(line, "stale-if-error")
  BY <1>5, <1>6, LastGivenIsRead
<1>9. QED
  BY <1>5, <1>7, <1>8 DEF d
-----------------------------------------------------------------------------
(* parse_if_none_match.                                                    *)

(* The header after each tag: the function JoinWithCommas is defined by is *)
(* there.                                                                  *)
IsJoin(h, tags, S, n) ==
    /\ h \in [1 .. n -> S]
    /\ h[1] = tags[1]
    /\ \A i \in 2 .. n : h[i] = h[i - 1] \o <<Comma>> \o tags[i]
    /\ JoinWithCommas(tags) = h[n]

LEMMA JoinHasTurns ==
    ASSUME NEW S, NEW tags, NEW n \in Nat, n >= 1, Len(tags) = n,
           tags[1] \in S,
           \A s \in S, i \in 1 .. n : s \o <<Comma>> \o tags[i] \in S
    PROVE  \E h : IsJoin(h, tags, S, n)
<1> DEFINE Add(s, i) == s \o <<Comma>> \o tags[i]
           m == n - 1
           turn == [p \in S \X (1 .. m) |-> Add(p[1], p[2] + 1)]
           Def(f) == [i \in 1 .. n |-> IF i = 1 THEN tags[1]
                                       ELSE Add(f[i - 1], i)]
<1>1. m \in Nat /\ n \in 1 .. n
  OBVIOUS
<1>2. \A s \in S, i \in 1 .. n : Add(s, i) \in S
  OBVIOUS
<1>3. tags[1] \in S
  OBVIOUS
<1>12. JoinWithCommas(tags) = (CHOOSE x : x = Def(x))[n]
  BY Zenon DEF JoinWithCommas
<1> HIDE DEF Add
<1>4. turn \in [S \X (1 .. m) -> S]
  <2>1. \A i \in 1 .. m : i + 1 \in 1 .. n
    OBVIOUS
  <2>2. QED
    BY <1>2, <2>1
<1>5. \A s \in S, i \in 1 .. m : turn[<<s, i>>] = Add(s, i + 1)
  OBVIOUS
<1> HIDE DEF turn, m
<1>6. PICK f : IsRun(f, turn, S, m, tags[1])
  <2>1. IsLoop(turn, S, m)
    BY <1>4 DEF IsLoop
  <2>2. QED
    BY <1>1, <1>3, <2>1, LoopRuns, Zenon
<1> DEFINE g == [i \in 1 .. n |-> f[i - 1]]
<1>7. \A i \in 1 .. n : i - 1 \in 0 .. m
  BY DEF m
<1>8. g \in [1 .. n -> S] /\ g[1] = tags[1]
  <2>1. \A i \in 1 .. n : f[i - 1] \in S
    BY <1>6, <1>7 DEF IsRun
  <2>2. f[1 - 1] = tags[1] /\ 1 \in 1 .. n
    BY <1>6 DEF IsRun
  <2>3. QED
    BY <2>1, <2>2
<1>9. ASSUME NEW i \in 1 .. n, i # 1 PROVE g[i] = Add(g[i - 1], i)
  <2>1. /\ i - 1 \in 1 .. m /\ i - 1 \in 1 .. n /\ (i - 1) - 1 \in 0 .. m
        /\ (i - 1) + 1 = i
    BY <1>7, <1>9 DEF m
  <2>2. f[i - 1] = turn[<<f[(i - 1) - 1], i - 1>>]
    BY <1>6, <2>1 DEF IsRun
  <2>3. f[(i - 1) - 1] \in S
    BY <1>6, <2>1 DEF IsRun
  <2>4. f[i - 1] = Add(f[(i - 1) - 1], (i - 1) + 1)
    BY <1>5, <2>1, <2>2, <2>3
  <2>5. g[i] = f[i - 1] /\ g[i - 1] = f[(i - 1) - 1]
    BY <2>1
  <2>6. QED
    BY <2>1, <2>4, <2>5
<1> HIDE DEF g
<1>10. g = Def(g)
  BY <1>8, <1>9
<1> DEFINE h == CHOOSE x : x = Def(x)
<1>11. h = Def(h)
  <2> HIDE DEF Def
  <2>1. QED
    BY <1>10
<1> HIDE DEF h
<1>13. h[1] = tags[1] /\ \A i \in 2 .. n : h[i] = Add(h[i - 1], i)
  BY <1>1, <1>11
<1>14. \A i \in 1 .. n : h[i] \in S
  <2> DEFINE K == {k \in Nat : k + 1 <= n => h[k + 1] \in S}
  <2>1. 0 \in K
    BY <1>3, <1>13
  <2>2. ASSUME NEW k \in Nat, k \in K PROVE k + 1 \in K
    <3>1. SUFFICES ASSUME (k + 1) + 1 <= n PROVE h[(k + 1) + 1] \in S
      OBVIOUS
    <3>2. /\ k + 1 <= n /\ (k + 1) + 1 \in 2 .. n /\ (k + 1) + 1 \in 1 .. n
          /\ ((k + 1) + 1) - 1 = k + 1
      BY <3>1
    <3>3. h[(k + 1) + 1] = Add(h[k + 1], (k + 1) + 1)
      BY <1>13, <3>2
    <3>4. QED
      BY <1>2, <2>2, <3>2, <3>3
  <2> HIDE DEF K
  <2>3. Nat \subseteq K
    BY <2>1, <2>2, SetInduction
  <2>4. ASSUME NEW i \in 1 .. n PROVE h[i] \in S
    <3>1. i - 1 \in K /\ (i - 1) + 1 = i
      BY <2>3
    <3>2. QED
      BY <3>1 DEF K
  <2>5. QED
    BY <2>4
<1>15. h \in [1 .. n -> S]
  BY <1>11, <1>14
<1>16. QED
  <2>1. IsJoin(h, tags, S, n)
    BY <1>12, <1>13, <1>15 DEF Add, h, IsJoin
  <2> HIDE DEF h
  <2>2. QED
    BY <2>1

(* A turn appends a comma and a tag.                                       *)
LEMMA Appended ==
    ASSUME NEW s \in Seq(Nat), NEW t \in Seq(Nat)
    PROVE  LET r == s \o <<Comma>> \o t IN
           /\ r \in Seq(Nat)
           /\ Len(r) = Len(s) + Len(t) + 1
           /\ \A i \in 1 .. Len(s) : r[i] = s[i]
           /\ r[Len(s) + 1] = Comma
           /\ \A i \in 1 .. Len(t) : r[Len(s) + 1 + i] = t[i]
<1> DEFINE q == s \o <<Comma>>
           r == q \o t
<1>1. /\ <<Comma>> \in Seq(Nat) /\ Len(<<Comma>>) = 1 /\ <<Comma>>[1] = Comma
      /\ Len(s) \in Nat /\ Len(t) \in Nat
  BY SMT DEF Comma
<1>2. /\ q \in Seq(Nat) /\ Len(q) = Len(s) + 1
      /\ \A i \in 1 .. Len(s) + 1 :
           q[i] = IF i <= Len(s) THEN s[i] ELSE <<Comma>>[i - Len(s)]
  BY <1>1, Joined
<1> HIDE DEF q
<1>3. /\ r \in Seq(Nat) /\ Len(r) = Len(q) + Len(t)
      /\ \A i \in 1 .. Len(q) + Len(t) :
           r[i] = IF i <= Len(q) THEN q[i] ELSE t[i - Len(q)]
  BY <1>2, Joined
<1> HIDE DEF r
<1>4. Len(r) = Len(s) + Len(t) + 1
  BY <1>1, <1>2, <1>3
<1>5. ASSUME NEW i \in 1 .. Len(s) PROVE r[i] = s[i]
  <2>1. /\ i \in 1 .. Len(q) + Len(t) /\ i \in 1 .. Len(s) + 1
        /\ i <= Len(q) /\ i <= Len(s)
    BY <1>1, <1>2
  <2>2. QED
    BY <1>2, <1>3, <2>1
<1>6. r[Len(s) + 1] = Comma
  <2> DEFINE i == Len(s) + 1
  <2>1. /\ i \in 1 .. Len(q) + Len(t) /\ i \in 1 .. Len(s) + 1
        /\ i <= Len(q) /\ ~(i <= Len(s)) /\ i - Len(s) = 1
    BY <1>1, <1>2
  <2> HIDE DEF i
  <2>2. r[i] = <<Comma>>[1]
    BY <1>2, <1>3, <2>1
  <2>3. QED
    BY <1>1, <2>2 DEF i
<1>7. ASSUME NEW i \in 1 .. Len(t) PROVE r[Len(s) + 1 + i] = t[i]
  <2> DEFINE j == Len(s) + 1 + i
  <2>1. j \in 1 .. Len(q) + Len(t) /\ ~(j <= Len(q)) /\ j - Len(q) = i
    BY <1>1, <1>2
  <2> HIDE DEF j
  <2>2. r[j] = t[i]
    BY <1>3, <2>1
  <2>3. QED
    BY <2>2 DEF j
<1>8. QED
  BY <1>3, <1>4, <1>5, <1>6, <1>7 DEF r, q

(* A text h that grows by a comma and a tag at each of n turns, where a    *)
(* turn ends and how long its tag is.                                      *)
Grows(h, tags, n, end, size) ==
    /\ n \in Nat /\ n >= 1
    /\ end \in [0 .. n -> Nat] /\ size \in [1 .. n -> Nat]
    /\ end[0] = 0
    /\ \A k \in 1 .. n :
          /\ end[k] = end[k - 1] + size[k] + 1
          /\ \A i \in 1 .. size[k] : h[k][end[k - 1] + i] = tags[k][i]
    /\ \A k \in 2 .. n :
          /\ h[k][end[k - 1]] = Comma
          /\ \A i \in 1 .. end[k - 1] - 1 : h[k][i] = h[k - 1][i]

(* What has been written stays where it is.                                *)
LEMMA TagsStay ==
    ASSUME NEW n, NEW h, NEW tags, NEW end, NEW size,
           Grows(h, tags, n, end, size), NEW m \in 1 .. n
    PROVE  /\ \A i \in 1 .. size[m] : h[n][end[m - 1] + i] = tags[m][i]
           /\ m < n => h[n][end[m]] = Comma
<1> DEFINE Stands(k) ==
             /\ end[m] <= end[k] /\ (m < k => end[m] < end[k])
             /\ \A i \in 1 .. size[m] : h[k][end[m - 1] + i] = tags[m][i]
             /\ m < k => h[k][end[m]] = Comma
           K == {k \in Nat : m + k <= n => Stands(m + k)}
<1> n \in Nat /\ n >= 1
  BY DEF Grows
<1>1. /\ \A k \in 0 .. n : end[k] \in Nat
      /\ \A k \in 1 .. n : size[k] \in Nat
      /\ \A k \in 1 .. n : end[k] = end[k - 1] + size[k] + 1
  BY DEF Grows
<1>2. m \in Int /\ n \in Int /\ 1 <= m /\ m <= n
  OBVIOUS
<1>3. Stands(m)
  <2>1. end[m] \in Nat
    BY <1>1
  <2>2. \A i \in 1 .. size[m] : h[m][end[m - 1] + i] = tags[m][i]
    BY DEF Grows
  <2>3. QED
    BY <1>2, <2>1, <2>2
<1>4. ASSUME NEW k \in Nat, m <= k, k + 1 <= n, Stands(k)
      PROVE  Stands(k + 1)
  <2>1. /\ k + 1 \in 2 .. n /\ k + 1 \in 1 .. n /\ k \in 0 .. n
        /\ m - 1 \in 0 .. n /\ m \in 0 .. n /\ (k + 1) - 1 = k
        /\ k + 1 \in 0 .. n
    BY <1>2, <1>4
  <2>2. /\ h[k + 1][end[k]] = Comma
        /\ \A i \in 1 .. end[k] - 1 : h[k + 1][i] = h[k][i]
    <3> DEFINE j == k + 1
    <3>1. j \in 2 .. n /\ j - 1 = k
      BY <2>1
    <3> HIDE DEF j
    <3>2. /\ h[j][end[j - 1]] = Comma
          /\ \A i \in 1 .. end[j - 1] - 1 : h[j][i] = h[j - 1][i]
      BY <3>1 DEF Grows
    <3>3. QED
      BY <3>1, <3>2 DEF j
  <2>3. /\ end[k + 1] = end[k] + size[k + 1] + 1
        /\ end[m] = end[m - 1] + size[m] + 1
        /\ end[k] \in Nat /\ end[m] \in Nat /\ end[m - 1] \in Nat
        /\ size[m] \in Nat /\ size[k + 1] \in Nat
    BY <1>1, <2>1
  <2>4. /\ end[m] <= end[k] /\ (m < k => end[m] < end[k])
        /\ \A i \in 1 .. size[m] : h[k][end[m - 1] + i] = tags[m][i]
        /\ m < k => h[k][end[m]] = Comma
    BY <1>4
  <2>5. \A i \in 1 .. size[m] : end[m - 1] + i \in 1 .. end[k] - 1
    BY <2>3, <2>4
  <2>6. \A i \in 1 .. size[m] : h[k + 1][end[m - 1] + i] = tags[m][i]
    BY <2>2, <2>4, <2>5
  <2>7. end[m] < end[k + 1]
    BY <2>3, <2>4
  <2>8. h[k + 1][end[m]] = Comma
    <3>1. CASE m = k
      BY <2>2, <3>1
    <3>2. CASE m # k
      <4>1. m < k
        BY <1>2, <1>4, <3>2
      <4>2. end[m] \in 1 .. end[k] - 1
        BY <2>3, <2>4, <4>1
      <4>3. QED
        BY <2>2, <2>4, <4>1, <4>2
    <3>3. QED
      BY <3>1, <3>2
  <2>9. QED
    BY <2>3, <2>6, <2>7, <2>8
<1> HIDE DEF Stands
<1>5. 0 \in K
  <2>1. m + 0 = m
    BY <1>2
  <2>2. QED
    BY <1>3, <2>1
<1>6. ASSUME NEW k \in Nat, k \in K PROVE k + 1 \in K
  <2>1. SUFFICES ASSUME m + (k + 1) <= n PROVE Stands(m + (k + 1))
    OBVIOUS
  <2>2. /\ m + k <= n /\ m + k \in Nat /\ m <= m + k
        /\ (m + k) + 1 <= n /\ m + (k + 1) = (m + k) + 1
    BY <1>2, <2>1
  <2>3. Stands(m + k)
    BY <1>6, <2>2
  <2>4. QED
    BY <1>4, <2>2, <2>3
<1>7. n - m \in Nat /\ m + (n - m) = n
  BY <1>2
<1>8. n - m \in K
  <2> HIDE DEF K
  <2>1. QED
    BY <1>5, <1>6, <1>7, SetInduction
<1>9. Stands(n)
  BY <1>7, <1>8
<1>10. QED
  BY <1>9 DEF Stands

(* JoinWithCommas builds such a text.                                      *)
Sizes(tags, n) == [i \in 1 .. n |-> Len(tags[i])]

IsTagList(tags, n) ==
    /\ n \in Nat /\ n >= 1 /\ Len(tags) = n
    /\ \A i \in 1 .. n : tags[i] \in Seq(Nat)

IsGrowth(h, tags, n, end) ==
    /\ Grows(h, tags, n, end, Sizes(tags, n))
    /\ JoinWithCommas(tags) = h[n]
    /\ h[n] \in Seq(Nat) /\ Len(h[n]) = end[n] - 1

LEMMA JoinGrows ==
    ASSUME NEW tags, NEW n, IsTagList(tags, n)
    PROVE  \E h, end : IsGrowth(h, tags, n, end)
<1> DEFINE size == Sizes(tags, n)
<1> USE DEF IsTagList, Sizes
<1>1. \A s \in Seq(Nat), i \in 1 .. n :
        s \o <<Comma>> \o tags[i] \in Seq(Nat)
  BY Appended
<1>2. PICK h : IsJoin(h, tags, Seq(Nat), n)
  <2> DEFINE S == Seq(Nat)
  <2>1. tags[1] \in S
    OBVIOUS
  <2> HIDE DEF S
  <2>2. \A s \in S, i \in 1 .. n : s \o <<Comma>> \o tags[i] \in S
    BY <1>1 DEF S
  <2>3. \E h : IsJoin(h, tags, S, n)
    BY <2>1, <2>2, JoinHasTurns, Zenon
  <2>4. QED
    BY <2>3, Zenon DEF S
<1> USE DEF IsJoin
<1> DEFINE end == [k \in 0 .. n |-> IF k = 0 THEN 0 ELSE Len(h[k]) + 1]
<1>3. /\ \A k \in 1 .. n : h[k] \in Seq(Nat) /\ Len(h[k]) \in Nat
      /\ \A k \in 1 .. n : Len(tags[k]) \in Nat
  BY <1>2, LenProperties
<1>4. /\ end \in [0 .. n -> Nat] /\ size \in [1 .. n -> Nat]
      /\ end[0] = 0
      /\ \A k \in 1 .. n : end[k] = Len(h[k]) + 1 /\ size[k] = Len(tags[k])
  BY <1>3
<1> HIDE DEF end
<1>5. ASSUME NEW k \in 2 .. n
      PROVE  /\ end[k] = end[k - 1] + size[k] + 1
             /\ \A i \in 1 .. size[k] : h[k][end[k - 1] + i] = tags[k][i]
             /\ h[k][end[k - 1]] = Comma
             /\ \A i \in 1 .. end[k - 1] - 1 : h[k][i] = h[k - 1][i]
  <2> DEFINE s == h[k - 1]
             t == tags[k]
             r == h[k]
  <2>1. k \in 1 .. n /\ k - 1 \in 1 .. n
    OBVIOUS
  <2>2. s \in Seq(Nat) /\ t \in Seq(Nat) /\ r = s \o <<Comma>> \o t
    BY <1>2, <2>1
  <2> HIDE DEF s, t, r
  <2>3. /\ Len(r) = Len(s) + Len(t) + 1
        /\ \A i \in 1 .. Len(s) : r[i] = s[i]
        /\ r[Len(s) + 1] = Comma
        /\ \A i \in 1 .. Len(t) : r[Len(s) + 1 + i] = t[i]
    BY <2>2, Appended
  <2>4. /\ end[k - 1] = Len(s) + 1 /\ end[k] = Len(r) + 1
        /\ size[k] = Len(t) /\ Len(s) \in Nat /\ Len(t) \in Nat
    BY <1>3, <1>4, <2>1 DEF s, t, r
  <2> DEFINE c == end[k - 1]
  <2>5. /\ end[k] = c + size[k] + 1 /\ c = Len(s) + 1
        /\ c - 1 = Len(s)
    <3> DEFINE l == Len(s)
               u == Len(t)
    <3>1. /\ c = l + 1 /\ end[k] = (l + u + 1) + 1 /\ size[k] = u
          /\ l \in Nat /\ u \in Nat
      BY <2>3, <2>4, Zenon
    <3> HIDE DEF l, u, c
    <3>2. l \in Nat /\ u \in Nat => /\ (l + u + 1) + 1 = (l + 1) + u + 1
                                    /\ (l + 1) - 1 = l
      OBVIOUS
    <3>3. QED
      BY <3>1, <3>2, Zenon DEF l
  <2>6. \A i \in 1 .. size[k] : r[c + i] = t[i]
    BY <2>3, <2>4, <2>5
  <2>7. r[c] = Comma /\ \A i \in 1 .. c - 1 : r[i] = s[i]
    BY <2>3, <2>5, Zenon
  <2>8. QED
    BY <2>5, <2>6, <2>7, Zenon DEF s, t, r
<1>6. /\ end[1] = end[1 - 1] + size[1] + 1
      /\ \A i \in 1 .. size[1] : h[1][end[1 - 1] + i] = tags[1][i]
  <2>1. 1 \in 1 .. n /\ 1 - 1 = 0
    OBVIOUS
  <2>2. size[1] = Len(tags[1]) /\ end[1] = Len(tags[1]) + 1
    BY <1>2, <1>4, <2>1
  <2>3. \A i \in 1 .. size[1] : 0 + i = i
    BY <1>4, <2>1
  <2>4. QED
    BY <1>2, <1>3, <1>4, <2>1, <2>2, <2>3
<1>7. Grows(h, tags, n, end, size)
  <2>1. ASSUME NEW k \in 1 .. n
        PROVE  /\ end[k] = end[k - 1] + size[k] + 1
               /\ \A i \in 1 .. size[k] : h[k][end[k - 1] + i] = tags[k][i]
    <3>1. CASE k = 1
      BY <1>6, <3>1
    <3>2. CASE k # 1
      <4>1. k \in 2 .. n
        BY <3>2
      <4>2. QED
        BY <1>5, <4>1
    <3>3. QED
      BY <3>1, <3>2
  <2>2. QED
    BY <1>4, <1>5, <2>1, Zenon DEF Grows
<1>8. /\ JoinWithCommas(tags) = h[n] /\ h[n] \in Seq(Nat)
      /\ Len(h[n]) = end[n] - 1
  <2>1. n \in 1 .. n
    OBVIOUS
  <2>2. h[n] \in Seq(Nat) /\ end[n] = Len(h[n]) + 1 /\ Len(h[n]) \in Nat
    BY <1>3, <1>4, <2>1
  <2>3. QED
    BY <1>2, <2>2
<1>9. IsGrowth(h, tags, n, end)
  BY <1>7, <1>8, Zenon DEF IsGrowth
<1>10. QED
  BY <1>9

Increases(end, n) ==
    /\ n \in Nat
    /\ end \in [0 .. n -> Nat]
    /\ \A k \in 1 .. n : end[k - 1] < end[k]

EndsOf(end, n) == {end[k] : k \in 0 .. n}

(* The turns end one after the other, ...                                  *)
LEMMA EndsAreOrdered ==
    ASSUME NEW n, NEW end, Increases(end, n),
           NEW l \in 0 .. n, NEW m \in 0 .. n, l < m
    PROVE  end[l] < end[m]
<1> USE DEF Increases
<1> DEFINE K == {d \in Nat : l + 1 + d <= n => end[l] < end[l + 1 + d]}
<1>1. 0 \in K
  <2>1. l + 1 + 0 = l + 1 /\ l + 1 \in 1 .. n /\ (l + 1) - 1 = l
    OBVIOUS
  <2>2. end[(l + 1) - 1] < end[l + 1]
    BY <2>1
  <2>3. QED
    BY <2>1, <2>2
<1>2. ASSUME NEW d \in Nat, d \in K PROVE d + 1 \in K
  <2>1. SUFFICES ASSUME l + 1 + (d + 1) <= n
                 PROVE  end[l] < end[l + 1 + (d + 1)]
    OBVIOUS
  <2> DEFINE k == l + 1 + (d + 1)
  <2>2. k \in 1 .. n /\ k - 1 = l + 1 + d /\ k - 1 <= n /\ k - 1 \in 0 .. n
    BY <2>1
  <2>3. end[l] < end[k - 1]
    BY <1>2, <2>2
  <2>4. end[k - 1] < end[k] /\ end[k - 1] \in Nat /\ end[k] \in Nat
    BY <2>2
  <2> HIDE DEF k
  <2>5. end[l] < end[k]
    BY <2>3, <2>4
  <2>6. QED
    BY <2>5 DEF k
<1>3. m - l - 1 \in Nat /\ l + 1 + (m - l - 1) = m
  OBVIOUS
<1>4. m - l - 1 \in K
  <2> HIDE DEF K
  <2>1. QED
    BY <1>1, <1>2, <1>3, SetInduction
<1>5. QED
  BY <1>3, <1>4

(* ... and between two of them is nothing but a turn.                      *)
LEMMA EndsLeaveNoGap ==
    ASSUME NEW n \in Nat, NEW end \in [0 .. n -> Nat], end[0] = 0,
           NEW j \in Nat, 0 < j, j <= end[n]
    PROVE  \E m \in 1 .. n : end[m - 1] < j /\ j <= end[m]
<1> SUFFICES ASSUME \A m \in 1 .. n : ~(end[m - 1] < j /\ j <= end[m])
             PROVE  FALSE
  OBVIOUS
<1> DEFINE K == {k \in Nat : k <= n => end[k] < j}
<1>1. 0 \in K
  OBVIOUS
<1>2. ASSUME NEW k \in Nat, k \in K PROVE k + 1 \in K
  <2>1. SUFFICES ASSUME k + 1 <= n PROVE end[k + 1] < j
    OBVIOUS
  <2>2. k + 1 \in 1 .. n /\ (k + 1) - 1 = k /\ k <= n /\ k + 1 \in 0 .. n
    BY <2>1
  <2>3. end[k] < j
    BY <1>2, <2>2
  <2>4. ~(end[k] < j /\ j <= end[k + 1])
    BY <2>2
  <2>5. end[k + 1] \in Nat
    BY <2>2
  <2>6. QED
    BY <2>3, <2>4, <2>5
<1>3. n \in K
  <2> HIDE DEF K
  <2>1. QED
    BY <1>1, <1>2, SetInduction
<1>4. end[n] < j /\ end[n] \in Nat
  BY <1>3
<1>5. QED
  BY <1>4

CutAfter(cuts, i) ==
    CHOOSE j \in cuts : j > i /\ \A k \in cuts : k > i => j <= k

(* An end is followed by the end of the next turn, ...                     *)
LEMMA NextEnd ==
    ASSUME NEW n, NEW end, Increases(end, n), NEW m \in 1 .. n
    PROVE  CutAfter(EndsOf(end, n), end[m - 1]) = end[m]
<1> DEFINE ends == EndsOf(end, n)
<1> USE DEF Increases, EndsOf
<1>1. m - 1 \in 0 .. n /\ m \in 0 .. n /\ end[m - 1] < end[m]
  OBVIOUS
<1> DEFINE before == end[m - 1]
           IsNext(j) == /\ j > before
                        /\ \A k \in ends : k > before => j <= k
<1>2. before \in Nat /\ end[m] \in ends /\ ends \subseteq Nat
  BY <1>1
<1>3. ASSUME NEW k \in ends, k > before PROVE end[m] <= k
  <2>1. PICK l \in 0 .. n : k = end[l]
    BY <1>3
  <2>2. CASE l = m
    BY <1>1, <2>1, <2>2
  <2>3. CASE l > m
    <3>1. end[m] < end[l]
      BY <1>1, <2>3, EndsAreOrdered
    <3>2. QED
      BY <1>1, <2>1, <3>1
  <2>4. CASE l = m - 1
    BY <1>2, <1>3, <2>1, <2>4
  <2>5. CASE l < m - 1
    <3>1. end[l] < before
      BY <1>1, <2>5, EndsAreOrdered
    <3>2. end[l] \in Nat
      OBVIOUS
    <3>3. QED
      BY <1>2, <1>3, <2>1, <3>1, <3>2
  <2>6. QED
    BY <2>2, <2>3, <2>4, <2>5
<1>4. IsNext(end[m])
  BY <1>1, <1>2, <1>3
<1>5. ASSUME NEW j \in ends, IsNext(j) PROVE j = end[m]
  <2>1. j <= end[m] /\ end[m] <= j /\ j \in Nat /\ end[m] \in Nat
    BY <1>1, <1>2, <1>3, <1>5
  <2>2. QED
    BY <2>1
<1> HIDE DEF IsNext
<1>6. end[m] = CHOOSE j \in ends : IsNext(j)
  BY <1>2, <1>4, <1>5
<1>7. QED
  BY <1>6, Zenon DEF IsNext, CutAfter

CutsBefore(cuts, i) == Cardinality({j \in cuts : j < i})

(* ... and there are as many before it as there were turns.                *)
LEMMA EndsBefore ==
    ASSUME NEW n, NEW end, Increases(end, n), NEW m \in 0 .. n
    PROVE  CutsBefore(EndsOf(end, n), end[m]) = m
<1> USE DEF Increases, EndsOf
<1> DEFINE before == {j \in EndsOf(end, n) : j < end[m]}
           f == [i \in 1 .. m |-> end[i - 1]]
<1>1. \A i \in 1 .. m : i - 1 \in 0 .. n /\ i - 1 < m
  OBVIOUS
<1>2. \A l \in 0 .. n, k \in 0 .. n : l < k => end[l] < end[k]
  BY EndsAreOrdered
<1>3. f \in [1 .. m -> before]
  BY <1>1, <1>2
<1>4. ASSUME NEW a \in 1 .. m, NEW b \in 1 .. m, f[a] = f[b] PROVE a = b
  <2>1. end[a - 1] = end[b - 1] /\ a - 1 \in 0 .. n /\ b - 1 \in 0 .. n
    BY <1>1, <1>4
  <2>2. end[a - 1] \in Nat
    BY <2>1
  <2>3. ~(a - 1 < b - 1) /\ ~(b - 1 < a - 1)
    BY <1>2, <2>1, <2>2
  <2>4. QED
    BY <2>3
<1>5. ASSUME NEW j \in before PROVE \E i \in 1 .. m : f[i] = j
  <2>1. PICK l \in 0 .. n : j = end[l]
    OBVIOUS
  <2>2. end[l] < end[m] /\ end[l] \in Nat /\ end[m] \in Nat
    BY <2>1
  <2>3. ~(l = m) /\ ~(m < l)
    BY <1>2, <2>2
  <2>4. l + 1 \in 1 .. m /\ (l + 1) - 1 = l
    BY <2>3
  <2>5. QED
    BY <2>1, <2>4
<1>6. f \in Bijection(1 .. m, before)
  <2> HIDE DEF f, before
  <2>1. QED
    BY <1>3, <1>4, <1>5, Fun_IsBij
<1>7. ExistsBijection(1 .. m, before)
  BY <1>6 DEF ExistsBijection
<1> HIDE DEF before
<1>8. Cardinality(before) = m
  <2>1. m \in Nat
    OBVIOUS
  <2>2. QED
    BY <1>7, <2>1, FS_CountingElements, Zenon
<1>9. QED
  BY <1>8, Zenon DEF before, CutsBefore

LEMMA GrowthIncreases ==
    ASSUME NEW n, NEW h, NEW tags, NEW end, NEW size,
           Grows(h, tags, n, end, size)
    PROVE  Increases(end, n)
<1>1. /\ n \in Nat /\ end \in [0 .. n -> Nat]
      /\ \A k \in 1 .. n : size[k] \in Nat
      /\ \A k \in 1 .. n : end[k] = end[k - 1] + size[k] + 1
  BY DEF Grows
<1>2. ASSUME NEW k \in 1 .. n PROVE end[k - 1] < end[k]
  <2>1. /\ end[k - 1] \in Nat /\ size[k] \in Nat
        /\ end[k] = end[k - 1] + size[k] + 1
    BY <1>1
  <2>2. QED
    BY <2>1
<1>3. QED
  BY <1>1, <1>2, Zenon DEF Increases

HasNoComma(tags, n, size) ==
    \A m \in 1 .. n : \A i \in 1 .. size[m] : tags[m][i] # Comma

Commas(header, end) ==
    {0, end} \cup {i \in 1 .. end - 1 : header[i] = Comma}

(* Where the tags have no comma, the commas are where the turns end.       *)
LEMMA CommasAreEnds ==
    ASSUME NEW n, NEW h, NEW tags, NEW end, NEW size,
           Grows(h, tags, n, end, size), HasNoComma(tags, n, size)
    PROVE  Commas(h[n], end[n]) = EndsOf(end, n)
<1> USE DEF HasNoComma, EndsOf
<1> n \in Nat /\ n >= 1
  BY DEF Grows
<1>1. /\ end \in [0 .. n -> Nat] /\ end[0] = 0
      /\ \A k \in 1 .. n : size[k] \in Nat
      /\ \A k \in 1 .. n : end[k] = end[k - 1] + size[k] + 1
  BY DEF Grows
<1>2. Increases(end, n)
  BY GrowthIncreases
<1>3. ASSUME NEW m \in 0 .. n
      PROVE  \/ end[m] \in {0, end[n]}
             \/ end[m] \in 1 .. end[n] - 1 /\ h[n][end[m]] = Comma
  <2>1. CASE m = 0
    BY <1>1, <2>1
  <2>2. CASE m = n
    BY <2>2
  <2>3. CASE m # 0 /\ m # n
    <3>1. m \in 1 .. n /\ m < n /\ 0 < m /\ n \in 0 .. n /\ 0 \in 0 .. n
      BY <2>3
    <3>2. h[n][end[m]] = Comma
      BY <3>1, TagsStay
    <3>3. end[0] < end[m] /\ end[m] < end[n]
      BY <1>1, <1>2, <3>1, EndsAreOrdered
    <3>4. end[m] \in Nat /\ end[n] \in Nat
      BY <1>1
    <3>5. QED
      BY <1>1, <3>2, <3>3, <3>4
  <2>4. QED
    BY <2>1, <2>2, <2>3
<1>4. ASSUME NEW i \in 1 .. end[n] - 1, h[n][i] = Comma
      PROVE  \E m \in 0 .. n : i = end[m]
  <2>1. end[n] \in Nat
    BY <1>1
  <2>2. i \in Nat /\ 0 < i /\ i <= end[n]
    BY <2>1
  <2>3. PICK m \in 1 .. n : end[m - 1] < i /\ i <= end[m]
    BY <1>1, <2>2, EndsLeaveNoGap
  <2>4. CASE i = end[m]
    BY <2>4
  <2>5. CASE i # end[m]
    <3> DEFINE d == i - end[m - 1]
    <3>1. /\ end[m - 1] \in Nat /\ end[m] \in Nat /\ size[m] \in Nat
          /\ end[m] = end[m - 1] + size[m] + 1
      BY <1>1
    <3>2. d \in 1 .. size[m] /\ end[m - 1] + d = i
      BY <2>2, <2>3, <2>5, <3>1
    <3> HIDE DEF d
    <3>3. h[n][end[m - 1] + d] = tags[m][d]
      BY <3>2, TagsStay
    <3>4. tags[m][d] # Comma
      BY <3>2
    <3>5. QED
      BY <1>4, <3>2, <3>3, <3>4
  <2>6. QED
    BY <2>4, <2>5
<1>5. \A m \in {0, n} : m \in 0 .. n
  OBVIOUS
<1>6. 0 = end[0] /\ 0 \in 0 .. n /\ n \in 0 .. n
  BY <1>1, <1>5
<1>7. QED
  BY <1>3, <1>4, <1>6 DEF Commas
IsSpan(first, last, a, u) ==
    /\ first \in Int /\ last \in Int /\ last - first + 1 = u
    /\ first <= last <=> u # 0
    /\ \A i \in first .. last : i - a \in 1 .. u /\ a + (i - a) = i
    /\ \A i \in 1 .. u : first + i - 1 = a + i

LEMMA SpanAfter ==
    ASSUME NEW a \in Nat, NEW u \in Nat
    PROVE  IsSpan(a + 1, (a + u + 1) - 1, a, u)
  BY DEF IsSpan

(* What is between two ends is the tag of the turn.                        *)
LEMMA BetweenEnds ==
    ASSUME NEW n, NEW h, NEW tags, NEW end, NEW size,
           Grows(h, tags, n, end, size), NEW m \in 1 .. n,
           tags[m] \in Seq(Nat), size[m] = Len(tags[m])
    PROVE  SubSeq(h[n], end[m - 1] + 1, end[m] - 1) = tags[m]
<1> DEFINE header == h[n]
           tag == tags[m]
           first == end[m - 1] + 1
           last == end[m] - 1
           piece == SubSeq(header, first, last)
<1>1. /\ end[m - 1] \in Nat /\ size[m] \in Nat /\ end[m] \in Nat
      /\ end[m] = end[m - 1] + size[m] + 1
  BY DEF Grows
<1>2. \A i \in 1 .. size[m] : header[end[m - 1] + i] = tag[i]
  BY TagsStay
<1>3. \A i \in 1 .. size[m] : tag[i] \in Nat
  BY LenProperties
<1>4. IsSpan(first, last, end[m - 1], size[m])
  <2>1. IsSpan(end[m - 1] + 1, (end[m - 1] + size[m] + 1) - 1,
               end[m - 1], size[m])
    BY <1>1, SpanAfter
  <2>2. QED
    BY <1>1, <2>1
<1> HIDE DEF first, last, header
<1>5. \A i \in first .. last : header[i] \in Nat
  <2> SUFFICES ASSUME NEW i \in first .. last PROVE header[i] \in Nat
    OBVIOUS
  <2> DEFINE j == i - end[m - 1]
  <2>1. j \in 1 .. size[m] /\ end[m - 1] + j = i
    BY <1>4, Zenon DEF IsSpan
  <2> HIDE DEF j
  <2>2. QED
    BY <1>2, <1>3, <2>1, Zenon
<1>6. /\ piece \in Seq(Nat)
      /\ Len(piece) = IF first <= last THEN last - first + 1 ELSE 0
      /\ \A i \in 1 .. last - first + 1 : piece[i] = header[first + i - 1]
  BY <1>4, <1>5, CutOut DEF IsSpan
<1> HIDE DEF piece
<1>7. Len(piece) = size[m]
  BY <1>1, <1>4, <1>6 DEF IsSpan
<1>8. ASSUME NEW i \in 1 .. Len(piece) PROVE piece[i] = tag[i]
  <2>1. i \in 1 .. size[m] /\ i \in 1 .. last - first + 1
    BY <1>4, <1>7 DEF IsSpan
  <2>2. piece[i] = header[end[m - 1] + i]
    BY <1>4, <1>6, <2>1, Zenon DEF IsSpan
  <2>3. QED
    BY <1>2, <2>1, <2>2
<1>9. piece = tag
  BY <1>6, <1>7, <1>8, SeqEqual
<1>10. QED
  BY <1>9 DEF piece, first, last, header

(* If-None-Match: tags without commas are told apart again, each as the    *)
(* client sent it, up to the limit and no further; whatever else they are  *)
(* made of and however many there are.                                     *)
THEOREM CommasSeparateTags ==
    ASSUME NEW tags \in Seq(Seq(Nat)), tags # <<>>,
           \A i \in DOMAIN tags : ~Contains(tags[i], Comma)
    PROVE  Pieces(JoinWithCommas(tags))
             = {tags[i] : i \in {j \in DOMAIN tags : j <= MaxTags}}
<1> DEFINE n == Len(tags)
           header == JoinWithCommas(tags)
           size == Sizes(tags, n)
           cuts == {0, Len(header) + 1}
                     \cup {i \in DOMAIN header : header[i] = Comma}
           taken == {i \in cuts : /\ i <= Len(header)
                                  /\ CutsBefore(cuts, i) < MaxTags}
           piece(i) == SubSeq(header, i + 1, CutAfter(cuts, i) - 1)
<1>1. /\ n \in Nat /\ n >= 1 /\ DOMAIN tags = 1 .. n /\ Len(tags) = n
      /\ \A i \in 1 .. n : tags[i] \in Seq(Nat)
  BY LenProperties, EmptySeq, SMT
<1>2. \A m \in 1 .. n : size[m] = Len(tags[m])
  BY DEF Sizes
<1>3. HasNoComma(tags, n, size)
  BY <1>1, <1>2 DEF Contains, HasNoComma
<1>4. Pieces(header) = {piece(i) : i \in taken}
  BY Zenon DEF Pieces, CutAfter, CutsBefore
<1>5. IsTagList(tags, n)
  BY <1>1, Zenon DEF IsTagList
<1> HIDE DEF n, header, size
<1>6. PICK h, end : IsGrowth(h, tags, n, end)
  BY <1>5, JoinGrows, Zenon
<1>7. /\ Grows(h, tags, n, end, size)
      /\ header = h[n]
      /\ header \in Seq(Nat) /\ Len(header) = end[n] - 1
  BY <1>6, Zenon DEF IsGrowth, header, size
<1>8. /\ Increases(end, n) /\ end[n] \in Nat
      /\ \A m \in 1 .. n : end[m - 1] \in Nat
  <2>1. Increases(end, n)
    BY <1>7, GrowthIncreases, Zenon
  <2>2. QED
    BY <1>1, <2>1 DEF Increases
<1>9. cuts = EndsOf(end, n)
  <2>1. Commas(h[n], end[n]) = EndsOf(end, n)
    BY <1>3, <1>7, CommasAreEnds, Zenon
  <2>2. DOMAIN header = 1 .. end[n] - 1
    BY <1>7, LenProperties
  <2>3. Len(header) + 1 = end[n]
    BY <1>7, <1>8
  <2>4. QED
    BY <1>7, <2>1, <2>2, <2>3, Zenon DEF Commas
<1> HIDE DEF cuts
<1>10. ASSUME NEW m \in 1 .. n
       PROVE  /\ end[m - 1] \in cuts /\ end[m - 1] <= Len(header)
              /\ CutsBefore(cuts, end[m - 1]) = m - 1
              /\ piece(end[m - 1]) = tags[m]
  <2>1. m - 1 \in 0 .. n /\ n \in 0 .. n /\ m - 1 < n
    BY <1>1
  <2>2. end[m - 1] \in cuts
    BY <1>9, <2>1 DEF EndsOf
  <2>3. end[m - 1] <= Len(header)
    <3>1. end[m - 1] < end[n]
      BY <1>8, <2>1, EndsAreOrdered, Zenon
    <3>2. QED
      BY <1>7, <1>8, <3>1
  <2>4. CutsBefore(cuts, end[m - 1]) = m - 1
    BY <1>8, <1>9, <2>1, EndsBefore, Zenon
  <2>5. CutAfter(cuts, end[m - 1]) = end[m]
    BY <1>8, <1>9, NextEnd, Zenon
  <2>6. SubSeq(h[n], end[m - 1] + 1, end[m] - 1) = tags[m]
    <3>1. /\ Grows(h, tags, n, end, size)
          /\ tags[m] \in Seq(Nat) /\ size[m] = Len(tags[m])
      BY <1>1, <1>2, <1>7, Zenon
    <3>2. QED
      BY <3>1, BetweenEnds
  <2>7. QED
    BY <1>7, <2>2, <2>3, <2>4, <2>5, <2>6, Zenon
<1>11. ASSUME NEW i \in taken
       PROVE  \E m \in 1 .. n : m <= MaxTags /\ i = end[m - 1]
  <2>1. PICK l \in 0 .. n : i = end[l]
    BY <1>9 DEF EndsOf
  <2>2. l # n
    BY <1>7, <1>8, <2>1
  <2>3. l + 1 \in 1 .. n /\ (l + 1) - 1 = l
    BY <1>1, <2>2
  <2>4. CutsBefore(cuts, end[(l + 1) - 1]) = (l + 1) - 1
    BY <1>10, <2>3
  <2>5. l < MaxTags
    BY <2>1, <2>3, <2>4
  <2>6. QED
    BY <2>1, <2>3, <2>5, ConstantsAssumption
<1>12. ASSUME NEW m \in 1 .. n, m <= MaxTags PROVE end[m - 1] \in taken
  <2>1. m - 1 < MaxTags
    BY <1>12, ConstantsAssumption
  <2>2. QED
    BY <1>10, <2>1
<1> HIDE DEF piece, taken
<1>13. {piece(i) : i \in taken} = {tags[i] : i \in {j \in 1 .. n : j <= MaxTags}}
  <2>1. ASSUME NEW i \in taken
        PROVE  \E m \in {j \in 1 .. n : j <= MaxTags} : piece(i) = tags[m]
    <3>1. PICK m \in 1 .. n : m <= MaxTags /\ i = end[m - 1]
      BY <1>11, Zenon
    <3>2. piece(end[m - 1]) = tags[m]
      BY <1>10, Zenon
    <3>3. QED
      BY <3>1, <3>2
  <2>2. ASSUME NEW m \in {j \in 1 .. n : j <= MaxTags}
        PROVE  \E i \in taken : piece(i) = tags[m]
    BY <1>10, <1>12, Zenon
  <2>3. QED
    BY <2>1, <2>2, Zenon
<1>14. QED
  BY <1>1, <1>4, <1>13, Zenon DEF header
(* Only a header that is a star is one: no list of tags looks like it.     *)
LEMMA StarIsAlone ==
    ASSUME NEW tags \in Seq(Seq(Nat)), tags # <<>>,
           JoinWithCommas(tags) = <<Star>>
    PROVE  tags = << <<Star>> >>
<1> DEFINE n == Len(tags)
           size == Sizes(tags, n)
<1>1. /\ n \in Nat /\ n >= 1 /\ Len(tags) = n
      /\ \A i \in 1 .. n : tags[i] \in Seq(Nat)
  BY LenProperties, EmptySeq, SMT
<1>2. IsTagList(tags, n)
  BY <1>1, Zenon DEF IsTagList
<1>3. \A m \in 1 .. n : size[m] = Len(tags[m])
  BY DEF Sizes
<1> HIDE DEF n, size
<1>4. PICK h, end : IsGrowth(h, tags, n, end)
  BY <1>2, JoinGrows, Zenon
<1>5. /\ Grows(h, tags, n, end, size)
      /\ h[n] = <<Star>> /\ Len(h[n]) = end[n] - 1
  BY <1>4, Zenon DEF IsGrowth, size
<1>6. Increases(end, n) /\ end[0] = 0 /\ end[1] \in Nat /\ end[n] \in Nat
  <2>1. Increases(end, n)
    BY <1>5, GrowthIncreases, Zenon
  <2>2. QED
    BY <1>1, <1>5, <2>1 DEF Increases, Grows
<1>7. Len(<<Star>>) = 1 /\ <<Star>>[1] = Star /\ <<Star>> \in Seq(Nat)
  BY SMT DEF Star
<1>8. end[n] = 2
  <2>1. end[n] - 1 = 1
    BY <1>5, <1>7, Zenon
  <2>2. QED
    BY <1>6, <2>1
<1>9. CASE n = 1
  <2>1. 1 \in 1 .. n /\ 1 - 1 = 0 /\ 0 + 1 = 1
    BY <1>1
  <2>2. /\ end[1] = end[1 - 1] + size[1] + 1
        /\ \A i \in 1 .. size[1] : h[1][end[1 - 1] + i] = tags[1][i]
    BY <1>5, <2>1, Zenon DEF Grows
  <2>3. size[1] = Len(tags[1]) /\ tags[1] \in Seq(Nat)
    BY <1>1, <1>3, <2>1, Zenon
  <2>4. Len(tags[1]) \in Nat
    BY <2>3, LenProperties
  <2>5. size[1] = 1
    BY <1>6, <1>8, <1>9, <2>1, <2>2, <2>3, <2>4
  <2>6. h[1][1] = tags[1][1]
    <3>1. 1 \in 1 .. size[1]
      BY <2>5
    <3>2. QED
      <4>1. end[1 - 1] + 1 = 1
        BY <1>6
      <4>2. h[1][end[1 - 1] + 1] = tags[1][1]
        BY <2>2, <3>1, Zenon
      <4>3. QED
        BY <4>1, <4>2, Zenon
  <2>7. tags[1][1] = Star
    BY <1>5, <1>7, <1>9, <2>6
  <2>8. tags[1] = <<Star>>
    <3> DEFINE t == tags[1]
    <3>1. t \in Seq(Nat) /\ Len(t) = 1 /\ t[1] = Star
      BY <2>3, <2>5, <2>7
    <3> HIDE DEF t
    <3>2. t = <<Star>>
      BY <1>7, <3>1, SeqEqual
    <3>3. QED
      BY <3>2 DEF t
  <2>9. Len(tags) = 1 /\ tags[1] = <<Star>>
    BY <1>1, <1>9, <2>8
  <2>10. QED
    BY <2>9, SMT
<1>10. CASE n # 1
  <2>1. 1 \in 1 .. n /\ 1 < n /\ 0 < 1 /\ {0, 1, n} \subseteq 0 .. n
    BY <1>1, <1>10
  <2>2. h[n][end[1]] = Comma
    <3>1. Grows(h, tags, n, end, size)
      BY <1>5
    <3>2. \A m \in 1 .. n : m < n => h[n][end[m]] = Comma
      BY <3>1, TagsStay
    <3>3. QED
      BY <2>1, <3>2
  <2>3. end[0] < end[1] /\ end[1] < end[n]
    BY <1>6, <2>1, EndsAreOrdered
  <2>4. end[1] = 1
    BY <1>6, <1>8, <2>3
  <2>5. Star = Comma
    BY <1>5, <1>7, <2>2, <2>4
  <2>6. QED
    BY <2>5 DEF Star, Comma
<1>11. QED
  BY <1>9, <1>10
=============================================================================
