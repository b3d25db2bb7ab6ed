--------------------------- MODULE MetaCodecProofs ----------------------------
(***************************************************************************)
(* Metadata whose strings fit the length field comes out of a manifest as  *)
(* it went in, less the fraction of a second of its ttl, the version and   *)
(* empty strings, for any strings and numbers.                             *)
(***************************************************************************)
EXTENDS MetaCodec, SequenceTheorems, TLAPS

(* None is no string and no number.                                        *)
LEMMA NoneIsApart ==
    /\ Utf8 \subseteq Nat /\ Text \subseteq Seq(Nat)
    /\ \A s \in Text : s \in Seq(Nat) /\ s # None
    /\ \A n \in Nat : n # None
<1>1. Utf8 \subseteq Nat /\ None \notin Nat /\ None \notin Seq(Nat)
  BY CodecAssumption
<1>2. \A s \in Text : s \in Seq(Nat)
  <2> SUFFICES ASSUME NEW s \in Seq(Utf8) PROVE s \in Seq(Nat)
    BY DEF Text
  <2>1. Len(s) \in Nat /\ s \in [1 .. Len(s) -> Utf8]
    BY LenProperties
  <2>2. s \in [1 .. Len(s) -> Nat]
    BY <1>1, <2>1
  <2>3. QED
    BY <2>1, <2>2, SMT
<1>3. QED
  BY <1>1, <1>2

(* The library's facts about sequences, for the buffers of the codec.      *)
LEMMA Joined ==
    ASSUME NEW a \in Seq(Nat), NEW b \in Seq(Nat)
    PROVE  /\ a \o b \in Seq(Nat)
           /\ Len(a \o b) = Len(a) + Len(b)
           /\ \A i \in 1 .. Len(a) + Len(b) :
                (a \o b)[i] = IF i <= Len(a) THEN a[i] ELSE b[i - Len(a)]
  BY ConcatProperties

LEMMA JoinedThrice ==
    ASSUME NEW a \in Seq(Nat), NEW b \in Seq(Nat), NEW c \in Seq(Nat)
    PROVE  a \o (b \o c) = (a \o b) \o c
<1> DEFINE bc == b \o c
           ab == a \o b
           l == a \o bc
           r == ab \o c
<1>1. /\ Len(a) \in Nat /\ Len(b) \in Nat /\ Len(c) \in Nat
      /\ bc \in Seq(Nat) /\ Len(bc) = Len(b) + Len(c)
      /\ ab \in Seq(Nat) /\ Len(ab) = Len(a) + Len(b)
      /\ \A i \in 1 .. Len(b) + Len(c) :
           bc[i] = IF i <= Len(b) THEN b[i] ELSE c[i - Len(b)]
      /\ \A i \in 1 .. Len(a) + Len(b) :
           ab[i] = IF i <= Len(a) THEN a[i] ELSE b[i - Len(a)]
  BY Joined, LenProperties
<1> HIDE DEF ab, bc
<1>2. /\ l \in Seq(Nat) /\ Len(l) = Len(a) + Len(bc)
      /\ r \in Seq(Nat) /\ Len(r) = Len(ab) + Len(c)
      /\ \A i \in 1 .. Len(a) + Len(bc) :
           l[i] = IF i <= Len(a) THEN a[i] ELSE bc[i - Len(a)]
      /\ \A i \in 1 .. Len(ab) + Len(c) :
           r[i] = IF i <= Len(ab) THEN ab[i] ELSE c[i - Len(ab)]
  BY <1>1, Joined
<1> HIDE DEF l, r
<1>3. ASSUME NEW i \in 1 .. Len(l) PROVE l[i] = r[i]
  <2>1. /\ i \in 1 .. Len(a) + Len(bc) /\ i \in 1 .. Len(ab) + Len(c)
        /\ i \in Int
    BY <1>1, <1>2
  <2>2. /\ l[i] = IF i <= Len(a) THEN a[i] ELSE bc[i - Len(a)]
        /\ r[i] = IF i <= Len(ab) THEN ab[i] ELSE c[i - Len(ab)]
    BY <1>2, <2>1
  <2>3. CASE i <= Len(a)
    <3>1. i \in 1 .. Len(a) + Len(b) /\ i <= Len(ab)
      BY <1>1, <2>1, <2>3
    <3>2. QED
      BY <1>1, <2>2, <2>3, <3>1
  <2>4. CASE ~(i <= Len(a)) /\ i <= Len(a) + Len(b)
    <3>1. /\ i \in 1 .. Len(a) + Len(b) /\ i <= Len(ab)
          /\ i - Len(a) \in 1 .. Len(b) + Len(c) /\ i - Len(a) <= Len(b)
      BY <1>1, <2>1, <2>4
    <3>2. QED
      BY <1>1, <2>2, <2>4, <3>1
  <2>5. CASE ~(i <= Len(a) + Len(b))
    <3>1. /\ ~(i <= Len(a)) /\ ~(i <= Len(ab)) /\ ~(i - Len(a) <= Len(b))
          /\ i - Len(a) \in 1 .. Len(b) + Len(c)
          /\ (i - Len(a)) - Len(b) = i - Len(ab)
      BY <1>1, <2>1, <2>5
    <3>2. QED
      BY <1>1, <2>2, <3>1
  <2>6. QED
    BY <2>3, <2>4, <2>5
<1>4. l = r
  <2>1. Len(l) = Len(r)
    BY <1>1, <1>2
  <2>2. QED
    BY <1>2, <1>3, <2>1, SeqEqual
<1>5. QED
  BY <1>4 DEF l, r, ab, bc

LEMMA CutOut ==
    ASSUME NEW s, NEW m \in Int, NEW n \in Int, \A i \in m .. n : s[i] \in Nat
    PROVE  /\ SubSeq(s, m, n) \in Seq(Nat)
           /\ Len(SubSeq(s, m, n)) = IF m <= n THEN n - m + 1 ELSE 0
           /\ \A i \in 1 .. n - m + 1 : SubSeq(s, m, n)[i] = s[m + i - 1]
  BY SubSeqProperties

(* A string as it is written: its length and then its characters.          *)
LEMMA WrittenString ==
    ASSUME NEW s \in OptionalText, s # None => Len(s) < LenMod
    PROVE  LET t == IF s = None THEN <<>> ELSE s IN
           /\ t \in Text
           /\ WriteString(s) = <<Len(t)>> \o t
           /\ WriteString(s) \in Seq(Nat)
           /\ NonEmpty(s) = IF Len(t) = 0 THEN None ELSE t
<1>1. CASE s = None
  <2>1. <<>> \in Text /\ Len(<<>>) = 0 /\ <<0>> \o <<>> = <<0>>
    BY SMT DEF Text
  <2>2. NonEmpty(None) = None
    BY Zenon DEF NonEmpty
  <2>3. WriteString(None) = <<0>>
    BY Zenon DEF WriteString
  <2>4. <<0>> \in Seq(Nat)
    BY SMT
  <2>5. QED
    BY <1>1, <2>1, <2>2, <2>3, <2>4
<1>2. CASE s # None
  <2>1. s \in Text /\ s \in Seq(Nat)
    BY <1>2, NoneIsApart DEF OptionalText
  <2>2. Len(s) \in Nat /\ Len(s) % LenMod = Len(s)
    BY <1>2, <2>1, CodecAssumption, SMT
  <2>3. WriteString(s) = <<Len(s)>> \o s
    BY <1>2, <2>2 DEF WriteString
  <2>4. NonEmpty(s) = IF Len(s) = 0 THEN None ELSE s
    BY <2>1, EmptySeq, SMT DEF NonEmpty
  <2>5. <<Len(s)>> \o s \in Seq(Nat)
    BY <2>1, <2>2, SMT
  <2>6. QED
    BY <1>2, <2>1, <2>3, <2>4, <2>5
<1>3. QED
  BY <1>1, <1>2

(* A string that fits is read back where it was written.                   *)
LEMMA ReadsBack ==
    ASSUME NEW s \in OptionalText, s # None => Len(s) < LenMod,
           NEW before \in Seq(Nat), NEW after \in Seq(Nat)
    PROVE  ReadString((before \o WriteString(s)) \o after, Len(before))
             = [ok |-> TRUE, text |-> NonEmpty(s),
                pos |-> Len(before \o WriteString(s))]
<1> DEFINE t == IF s = None THEN <<>> ELSE s
           w == WriteString(s)
           buf == (before \o w) \o after
           pos == Len(before)
           len == Len(t)
<1>1. /\ t \in Text /\ w = <<len>> \o t /\ w \in Seq(Nat)
      /\ NonEmpty(s) = IF len = 0 THEN None ELSE t
  BY WrittenString
<1>2. t \in Seq(Nat)
  BY <1>1, NoneIsApart
<1> HIDE DEF t, w
<1>3. /\ pos \in Nat /\ len \in Nat /\ Len(w) = 1 + len
      /\ Len(buf) >= pos + 1 + len
      /\ Len(before \o w) = pos + 1 + len
      /\ buf \in Seq(Nat)
  BY <1>1, <1>2, SMT
<1>4. buf[pos + 1] = len
  BY <1>1, <1>2, <1>3, SMT
<1>5. SubSeq(buf, pos + 2, pos + 1 + len) = t
  <2> DEFINE u == SubSeq(buf, pos + 2, pos + 1 + len)
  <2>1. /\ u \in Seq(Nat) /\ Len(u) = len
        /\ \A i \in 1 .. len : u[i] = buf[pos + 1 + i]
    <3> DEFINE first == pos + 2
               last == pos + 1 + len
    <3>1. first \in Int /\ last \in Int /\ last - first + 1 = len
      BY <1>3
    <3>2. \A i \in first .. last : buf[i] \in Nat
      BY <1>3, LenProperties
    <3> HIDE DEF first, last
    <3>3. /\ SubSeq(buf, first, last) \in Seq(Nat)
          /\ Len(SubSeq(buf, first, last))
               = IF first <= last THEN last - first + 1 ELSE 0
          /\ \A i \in 1 .. last - first + 1 :
               SubSeq(buf, first, last)[i] = buf[first + i - 1]
      BY <3>1, <3>2, CutOut
    <3>4. \A i \in 1 .. len : first + i - 1 = pos + 1 + i
      BY <1>3 DEF first
    <3>5. Len(u) = len
      BY <1>3, <3>1, <3>3 DEF first, last
    <3>6. QED
      BY <3>1, <3>3, <3>4, <3>5 DEF first, last
  <2>2. \A i \in 1 .. len : u[i] = t[i]
    <3> SUFFICES ASSUME NEW i \in 1 .. len PROVE u[i] = t[i]
      OBVIOUS
    <3>1. u[i] = buf[pos + 1 + i]
      BY <2>1
    <3>2. buf[pos + 1 + i] = (before \o w)[pos + 1 + i]
      BY <1>1, <1>3, SMT
    <3>3. (before \o w)[pos + 1 + i] = w[1 + i]
      BY <1>1, <1>3, SMT
    <3>4. w[1 + i] = t[i]
      BY <1>1, <1>2, <1>3, SMT
    <3>5. QED
      BY <3>1, <3>2, <3>3, <3>4
  <2>3. QED
    BY <1>2, <2>1, <2>2, SeqEqual
<1> HIDE DEF buf, pos, len
<1>6. ReadString(buf, pos)
        = [ok |-> TRUE, text |-> IF len = 0 THEN None ELSE t,
           pos |-> pos + 1 + len]
  <2>1. ~(Len(buf) < pos + 1) /\ ~(Len(buf) < pos + 1 + len)
    BY <1>3
  <2>2. QED
    BY <1>1, <1>4, <1>5, <2>1, Zenon DEF ReadString
<1>7. QED
  BY <1>1, <1>3, <1>6 DEF buf, pos, w

(* A ttl is cut to whole seconds.                                          *)
LEMMA WholeSeconds ==
    ASSUME NEW t \in Nat
    PROVE  /\ t \div PerSecond \in Nat
           /\ (t \div PerSecond) * PerSecond = t - (t % PerSecond)
           /\ t - (t % PerSecond) \in Nat
<1>1. PICK d \in Nat : d = PerSecond /\ d > 0
  BY CodecAssumption
<1>2. t \div d \in Int /\ t \div d >= 0
  BY <1>1, SMT
<1>3. t - (t % d) = d * (t \div d)
  BY <1>1, SMT
<1>4. PICK q \in Nat : q = t \div d
  BY <1>2
<1>5. q * d = d * q /\ d * q \in Nat
  BY <1>1, SMT
<1>6. QED
  BY <1>1, <1>3, <1>4, <1>5

(* The six cells of fixed size come back through their flags.              *)
LEMMA FixedFieldsRead ==
    ASSUME NEW meta \in CacheMeta, NEW rest \in Seq(Nat)
    PROVE  LET buf == FixedFields(meta) \o rest IN
           /\ FixedFields(meta) \in Seq(Nat)
           /\ Len(FixedFields(meta)) = 6
           /\ Len(buf) >= 6
           /\ buf[1] = 1
           /\ buf[4] = meta.ttl \div PerSecond
           /\ Given(buf[2], 1, buf[3]) = meta.content_length
           /\ Given(buf[2], 2, buf[5]) = meta.created_at
           /\ Given(buf[2], 4, buf[6]) = meta.expires_at
<1> DEFINE fixed == FixedFields(meta)
           buf == fixed \o rest
           cl == meta.content_length
           ca == meta.created_at
           ea == meta.expires_at
<1>1. /\ cl \in OptionalNumber /\ ca \in OptionalNumber
      /\ ea \in OptionalNumber /\ meta.ttl \div PerSecond \in Nat
  <2>1. /\ cl \in OptionalNumber /\ ca \in OptionalNumber
        /\ ea \in OptionalNumber /\ meta.ttl \in Nat
    BY DEF CacheMeta
  <2>2. QED
    BY <2>1, WholeSeconds
<1>2. /\ OrZero(cl) \in Nat /\ OrZero(ca) \in Nat /\ OrZero(ea) \in Nat
      /\ cl # None => OrZero(cl) = cl
      /\ ca # None => OrZero(ca) = ca
      /\ ea # None => OrZero(ea) = ea
  BY <1>1 DEF OrZero, OptionalNumber
<1>3. /\ Flags(meta) \in Nat
      /\ (Flags(meta) \div 1) % 2 = IF cl = None THEN 0 ELSE 1
      /\ (Flags(meta) \div 2) % 2 = IF ca = None THEN 0 ELSE 1
      /\ (Flags(meta) \div 4) % 2 = IF ea = None THEN 0 ELSE 1
  BY SMT DEF Flags, Flag
<1> HIDE DEF cl, ca, ea
<1>4. fixed = <<1, Flags(meta), OrZero(cl), meta.ttl \div PerSecond,
               OrZero(ca), OrZero(ea)>>
  BY DEF FixedFields, cl, ca, ea
<1>5. fixed \in Seq(Nat) /\ Len(fixed) = 6
  BY <1>1, <1>2, <1>3, <1>4, SMT
<1>6. /\ Len(buf) >= 6 /\ buf[1] = 1 /\ buf[2] = Flags(meta)
      /\ buf[3] = OrZero(cl) /\ buf[4] = meta.ttl \div PerSecond
      /\ buf[5] = OrZero(ca) /\ buf[6] = OrZero(ea)
  <2> HIDE DEF fixed
  <2>1. /\ Len(fixed \o rest) = Len(fixed) + Len(rest) /\ Len(rest) \in Nat
        /\ \A i \in 1 .. Len(fixed) + Len(rest) : (fixed \o rest)[i]
             = IF i <= Len(fixed) THEN fixed[i] ELSE rest[i - Len(fixed)]
    BY <1>5, Joined, LenProperties
  <2>2. \A i \in 1 .. 6 : buf[i] = fixed[i]
    BY <1>5, <2>1
  <2>3. QED
    BY <1>4, <1>5, <2>1, <2>2
<1>7. /\ Given(buf[2], 1, buf[3]) = cl
      /\ Given(buf[2], 2, buf[5]) = ca
      /\ Given(buf[2], 4, buf[6]) = ea
  <2> HIDE DEF buf
  <2>1. Given(buf[2], 1, buf[3]) = cl
    <3>1. /\ (buf[2] \div 1) % 2 = IF cl = None THEN 0 ELSE 1
          /\ cl # None => buf[3] = cl
      BY <1>2, <1>3, <1>6
    <3>2. 0 # 1
      OBVIOUS
    <3>3. QED
      BY <3>1, <3>2, Zenon DEF Given
  <2>2. Given(buf[2], 2, buf[5]) = ca
    <3>1. /\ (buf[2] \div 2) % 2 = IF ca = None THEN 0 ELSE 1
          /\ ca # None => buf[5] = ca
      BY <1>2, <1>3, <1>6
    <3>2. 0 # 1
      OBVIOUS
    <3>3. QED
      BY <3>1, <3>2, Zenon DEF Given
  <2>3. Given(buf[2], 4, buf[6]) = ea
    <3>1. /\ (buf[2] \div 4) % 2 = IF ea = None THEN 0 ELSE 1
          /\ ea # None => buf[6] = ea
      BY <1>2, <1>3, <1>6
    <3>2. 0 # 1
      OBVIOUS
    <3>3. QED
      BY <3>1, <3>2, Zenon DEF Given
  <2>4. QED
    BY <2>1, <2>2, <2>3
<1>8. QED
  BY <1>5, <1>6, <1>7 DEF cl, ca, ea

(* The round trip.                                                         *)
THEOREM RoundTrip ==
    ASSUME NEW meta \in CacheMeta, Fits(meta)
    PROVE  DeserializeMeta(SerializeMeta(meta)) = Recovered(meta)
<1> DEFINE fixed == FixedFields(meta)
           w1 == WriteString(meta.content_type)
           w2 == WriteString(meta.etag)
           w3 == WriteString(meta.last_modified)
           w4 == WriteString(meta.cache_control)
           buf == SerializeMeta(meta)
<1>1. /\ meta.content_type \in OptionalText
      /\ meta.content_type # None => Len(meta.content_type) < LenMod
      /\ meta.etag \in OptionalText
      /\ meta.etag # None => Len(meta.etag) < LenMod
      /\ meta.last_modified \in OptionalText
      /\ meta.last_modified # None => Len(meta.last_modified) < LenMod
      /\ meta.cache_control \in OptionalText
      /\ meta.cache_control # None => Len(meta.cache_control) < LenMod
  BY DEF CacheMeta, Fits, Texts
<1>2. /\ w1 \in Seq(Nat) /\ w2 \in Seq(Nat) /\ w3 \in Seq(Nat)
      /\ w4 \in Seq(Nat)
  BY <1>1, WrittenString
<1>3. fixed \in Seq(Nat) /\ Len(fixed) = 6
  <2>1. <<>> \in Seq(Nat)
    BY EmptySeq
  <2>2. QED
    BY <2>1, FixedFieldsRead
<1>4. buf = fixed \o (w1 \o (w2 \o (w3 \o w4)))
  BY DEF SerializeMeta
<1> HIDE DEF fixed, w1, w2, w3, w4, buf
<1>5. PICK p1 \in Seq(Nat), p2 \in Seq(Nat), p3 \in Seq(Nat), p4 \in Seq(Nat) :
        p1 = fixed \o w1 /\ p2 = p1 \o w2 /\ p3 = p2 \o w3 /\ p4 = p3 \o w4
  BY <1>2, <1>3, Joined
<1>6. /\ w3 \o w4 \in Seq(Nat) /\ w2 \o (w3 \o w4) \in Seq(Nat)
      /\ w1 \o (w2 \o (w3 \o w4)) \in Seq(Nat) /\ <<>> \in Seq(Nat)
  BY <1>2, Joined, EmptySeq
<1>7. /\ buf = p1 \o (w2 \o (w3 \o w4))
      /\ buf = p2 \o (w3 \o w4)
      /\ buf = p3 \o w4
      /\ buf = p4 \o <<>>
  <2> DEFINE w34 == w3 \o w4
             w234 == w2 \o w34
  <2> HIDE DEF w34, w234
  <2>1. buf = p1 \o w234
    <3>0. PICK f \in Seq(Nat) : f = fixed
      BY <1>3
    <3>1. f \in Seq(Nat) /\ w1 \in Seq(Nat) /\ w234 \in Seq(Nat)
      BY <1>2, <1>3, <1>5, <1>6 DEF w34, w234
    <3>2. f \o (w1 \o w234) = (f \o w1) \o w234
      BY <3>1, JoinedThrice, Zenon
    <3>3. QED
      BY <1>4, <1>5, <3>0, <3>2 DEF w34, w234
  <2>2. buf = p2 \o w34
    <3>1. p1 \in Seq(Nat) /\ w2 \in Seq(Nat) /\ w34 \in Seq(Nat)
      BY <1>2, <1>3, <1>5, <1>6 DEF w34, w234
    <3>2. p1 \o (w2 \o w34) = (p1 \o w2) \o w34
      BY <3>1, JoinedThrice, Zenon
    <3>3. QED
      BY <2>1, <1>5, <3>2 DEF w34, w234
  <2>3. buf = p3 \o w4
    <3>1. p2 \in Seq(Nat) /\ w3 \in Seq(Nat) /\ w4 \in Seq(Nat)
      BY <1>2, <1>3, <1>5, <1>6 DEF w34
    <3>2. p2 \o (w3 \o w4) = (p2 \o w3) \o w4
      BY <3>1, JoinedThrice, Zenon
    <3>3. QED
      BY <2>2, <1>5, <3>2 DEF w34
  <2>4. QED
    BY <1>5, <2>1, <2>2, <2>3, ConcatEmptySeq DEF w34, w234
<1>8. ReadString(buf, 6) = [ok |-> TRUE, text |-> NonEmpty(meta.content_type),
                            pos |-> Len(p1)]
  <2>1. buf = (fixed \o w1) \o (w2 \o (w3 \o w4))
    BY <1>5, <1>7
  <2>2. QED
    BY <1>1, <1>3, <1>5, <1>6, <2>1, ReadsBack DEF w1
<1>9. ReadString(buf, Len(p1)) = [ok |-> TRUE, text |-> NonEmpty(meta.etag),
                                  pos |-> Len(p2)]
  <2>1. buf = (p1 \o w2) \o (w3 \o w4)
    BY <1>5, <1>7
  <2>2. QED
    BY <1>1, <1>5, <1>6, <2>1, ReadsBack DEF w2
<1>10. ReadString(buf, Len(p2))
        = [ok |-> TRUE, text |-> NonEmpty(meta.last_modified), pos |-> Len(p3)]
  <2>1. w4 \in Seq(Nat) /\ p2 \in Seq(Nat) /\ buf = (p2 \o w3) \o w4
    BY <1>2, <1>5, <1>7
  <2>2. QED
    BY <1>1, <1>5, <2>1, ReadsBack DEF w3
<1>11. ReadString(buf, Len(p3))
        = [ok |-> TRUE, text |-> NonEmpty(meta.cache_control), pos |-> Len(p4)]
  <2>1. buf = (p3 \o w4) \o <<>>
    BY <1>5, <1>7
  <2>2. QED
    BY <1>1, <1>5, <1>6, <2>1, ReadsBack DEF w4
<1>12. /\ Len(buf) >= 6 /\ buf[1] = 1 /\ buf[4] = meta.ttl \div PerSecond
       /\ Given(buf[2], 1, buf[3]) = meta.content_length
       /\ Given(buf[2], 2, buf[5]) = meta.created_at
       /\ Given(buf[2], 4, buf[6]) = meta.expires_at
  BY <1>4, <1>6, FixedFieldsRead DEF fixed
<1> DEFINE r1 == ReadString(buf, 6)
           r2 == ReadString(buf, r1.pos)
           r3 == ReadString(buf, r2.pos)
           r4 == ReadString(buf, r3.pos)
<1>13. /\ r1.ok /\ r2.ok /\ r3.ok /\ r4.ok
       /\ r1.text = NonEmpty(meta.content_type)
       /\ r2.text = NonEmpty(meta.etag)
       /\ r3.text = NonEmpty(meta.last_modified)
       /\ r4.text = NonEmpty(meta.cache_control)
  <2>1. r1.ok /\ r1.text = NonEmpty(meta.content_type) /\ r1.pos = Len(p1)
    BY <1>8
  <2>2. r2.ok /\ r2.text = NonEmpty(meta.etag) /\ r2.pos = Len(p2)
    BY <1>9, <2>1
  <2>3. r3.ok /\ r3.text = NonEmpty(meta.last_modified) /\ r3.pos = Len(p3)
    BY <1>10, <2>2
  <2>4. r4.ok /\ r4.text = NonEmpty(meta.cache_control)
    BY <1>11, <2>3
  <2>5. QED
    BY <2>1, <2>2, <2>3, <2>4
<1>14. DeserializeMeta(buf)
         = [content_length |-> Given(buf[2], 1, buf[3]),
            ttl |-> buf[4] * PerSecond,
            created_at |-> Given(buf[2], 2, buf[5]),
            expires_at |-> Given(buf[2], 4, buf[6]),
            content_type |-> r1.text, etag |-> r2.text,
            last_modified |-> r3.text, cache_control |-> r4.text,
            version |-> None]
  BY <1>12, <1>13, Zenon DEF DeserializeMeta
<1> HIDE DEF r1, r2, r3, r4
<1>15. (meta.ttl \div PerSecond) * PerSecond
         = meta.ttl - (meta.ttl % PerSecond)
  <2>1. meta.ttl \in Nat
    BY DEF CacheMeta
  <2>2. QED
    BY <2>1, WholeSeconds
<1>16. DeserializeMeta(buf) = Recovered(meta)
  BY <1>12, <1>13, <1>14, <1>15, Zenon DEF Recovered
<1>17. QED
  BY <1>16 DEF buf
=============================================================================
