-------------------------- MODULE ExpressionProofs --------------------------
(***************************************************************************)
(* Timelines, and what a voice hears, for all members, slots, values,      *)
(* ranges, lengths of blocks and capacities.                               *)
(***************************************************************************)
EXTENDS Expression, SequenceTheorems, FiniteSetTheorems, WellFoundedInduction, TLAPS

-----------------------------------------------------------------------------
(* Timelines.                                                              *)

Event == [at : Frame, value : Nat]
Rises(line) == \A i, j \in DOMAIN line : i < j => line[i].at < line[j].at
Line == {line \in Seq(Event) : line # <<>> /\ line[1].at = 0 /\ Rises(line)}
Short == {line \in Line : Len(line) <= Capacity}
UpTo(line, d) == \A i \in DOMAIN line : line[i].at <= d

LEMMA LineFacts ==
  ASSUME NEW line \in Line
  PROVE  /\ line \in Seq(Event) /\ Len(line) \in Nat \ {0} /\ DOMAIN line = 1 .. Len(line)
         /\ line[1].at = 0 /\ Rises(line)
         /\ \A i \in DOMAIN line : line[i] \in Event /\ line[i].at \in Nat /\ line[i].value \in Nat
<1>1. line \in Seq(Event) /\ line # <<>> /\ line[1].at = 0 /\ Rises(line)
  BY DEF Line
<1>2. Len(line) \in Nat \ {0} /\ DOMAIN line = 1 .. Len(line)
  BY <1>1
<1>3. \A i \in DOMAIN line : line[i] \in Event
  BY <1>1, <1>2
<1>4. \A e \in Event : e.at \in Nat /\ e.value \in Nat
  BY DEF Event, Frame
<1> QED BY <1>1, <1>2, <1>3, <1>4

LEMMA LeastExists ==
  ASSUME NEW S, S \subseteq Nat, S # {}
  PROVE  \E x \in S : \A y \in S : x <= y
<1>1. PICK x \in S : \A y \in S : ~(<<y, x>> \in OpToRel(<, Nat))
  BY NatLessThanWellFounded, WFMin
<1>2. \A y \in S : ~(y < x)
  BY <1>1 DEF OpToRel
<1>3. x \in Nat /\ \A y \in S : y \in Nat
  BY <1>1
<1> QED BY <1>2, <1>3

(* The events before an offset are the first ones.                         *)
LEMMA EarlierFirst ==
  ASSUME NEW line \in Line, NEW d \in Nat
  PROVE  /\ Earlier(line, d) \in 0 .. Len(line)
         /\ \A i \in DOMAIN line : line[i].at < d <=> i <= Earlier(line, d)
<1> DEFINE S == {i \in DOMAIN line : line[i].at < d}
           rest == {i \in 1 .. Len(line) + 1 : i \notin S}
<1>1. Len(line) + 1 \in rest /\ rest \subseteq Nat
  BY LineFacts
<1>2. PICK m \in rest : \A y \in rest : m <= y
  <2> HIDE DEF rest
  <2> QED BY <1>1, LeastExists
<1>3. m \in 1 .. Len(line) + 1 /\ m \notin S
  BY <1>2
<1>4. ASSUME NEW i \in DOMAIN line PROVE i \in S <=> i <= m - 1
  <2>1. i \in 1 .. Len(line)
    BY LineFacts
  <2>2. CASE i < m
    <3>1. i \notin rest
      BY <1>2, <1>3, <2>1, <2>2
    <3> QED BY <3>1, <2>1, <2>2, <1>3, LineFacts
  <2>3. CASE i = m
    BY <2>3, <2>1, <1>3
  <2>4. CASE m < i
    <3>1. m \in DOMAIN line /\ line[m].at < line[i].at
      BY <2>4, <2>1, <1>3, LineFacts DEF Rises
    <3>2. ~(line[m].at < d)
      BY <3>1, <1>3
    <3>3. line[m].at \in Nat /\ line[i].at \in Nat
      BY <3>1, LineFacts
    <3>4. ~(line[i].at < d)
      BY <3>1, <3>2, <3>3
    <3> QED BY <3>4, <2>1, <2>4, <1>3
  <2> QED BY <2>1, <2>2, <2>3, <2>4, <1>3
<1>5. S = 1 .. m - 1
  <2>1. S \subseteq DOMAIN line /\ DOMAIN line = 1 .. Len(line)
    BY LineFacts
  <2>2. ASSUME NEW i \in 1 .. m - 1 PROVE i \in S
    BY <2>1, <2>2, <1>3, <1>4
  <2>3. ASSUME NEW i \in S PROVE i \in 1 .. m - 1
    <3>1. i \in 1 .. Len(line) /\ i <= m - 1
      BY <2>1, <2>3, <1>4
    <3> QED BY <3>1, <1>3
  <2> HIDE DEF S
  <2> QED BY <2>2, <2>3
<1>6. Cardinality(1 .. m - 1) = m - 1
  <2>1. Cardinality(1 .. m - 1) = IF 1 > m - 1 THEN 0 ELSE m - 1 - 1 + 1
    BY <1>3, FS_Interval
  <2> QED BY <2>1, <1>3
<1>7. Earlier(line, d) = m - 1
  BY <1>5, <1>6 DEF Earlier
<1> QED BY <1>3, <1>4, <1>7

LEMMA SentinelLine ==
  ASSUME NEW x \in Nat
  PROVE  /\ Sentinel(x) \in Short /\ Last(Sentinel(x)) = x /\ UpTo(Sentinel(x), 0)
         /\ Sentinel(x) # <<>>
<1>1. 0 \in Frame /\ Capacity \in Nat /\ Capacity >= 1
  BY ExpressionAssumption DEF Frame
<1>2. [at |-> 0, value |-> x] \in Event
  BY <1>1 DEF Event
<1>3. Sentinel(x) \in Seq(Event) /\ Len(Sentinel(x)) = 1 /\ Sentinel(x)[1] = [at |-> 0, value |-> x]
  BY <1>2 DEF Sentinel
<1>4. \A i \in DOMAIN Sentinel(x) : i = 1
  BY <1>3
<1>5. Rises(Sentinel(x))
  BY <1>4 DEF Rises
<1>6. UpTo(Sentinel(x), 0)
  BY <1>3, <1>4 DEF UpTo
<1>7. Sentinel(x) \in Line
  BY <1>3, <1>5, SMTT(40) DEF Line
<1>8. Sentinel(x) \in Short
  BY <1>1, <1>3, <1>7 DEF Short
<1> QED BY <1>3, <1>6, <1>8 DEF Last

(* In a line of events up to an offset, none is later.                     *)
LEMMA LastIsLatest ==
  ASSUME NEW line \in Line, NEW i \in DOMAIN line
  PROVE  line[i].at <= line[Len(line)].at
<1>1. i \in 1 .. Len(line) /\ Len(line) \in DOMAIN line
  BY LineFacts
<1>2. line[i].at \in Nat /\ line[Len(line)].at \in Nat
  BY <1>1, LineFacts
<1>3. i < Len(line) => line[i].at < line[Len(line)].at
  BY <1>1, LineFacts DEF Rises
<1> QED BY <1>1, <1>2, <1>3

(* An insertion without a place of its own: what was before and after it.  *)
LEMMA Joined ==
  ASSUME NEW a \in Seq(Event), NEW b \in Seq(Event), NEW c, c = a \o b,
         NEW l \in Nat, l = Len(a), NEW m \in Nat, m = Len(b)
  PROVE  /\ c \in Seq(Event) /\ Len(c) = l + m
         /\ \A i \in 1 .. l + m : c[i] = IF i <= l THEN a[i] ELSE b[i - l]
  BY ConcatProperties

LEMMA PartOf ==
  ASSUME NEW line \in Seq(Event), NEW m \in 1 .. Len(line) + 1, NEW n \in 0 .. Len(line), m <= n + 1
  PROVE  /\ SubSeq(line, m, n) \in Seq(Event) /\ Len(SubSeq(line, m, n)) = n + 1 - m
         /\ \A i \in 1 .. n + 1 - m : SubSeq(line, m, n)[i] = line[m - 1 + i]
<1>0. Len(line) \in Nat /\ \A i \in 1 .. Len(line) : line[i] \in Event
  OBVIOUS
<1>1. m \in Int /\ n \in Int /\ \A i \in m .. n : line[i] \in Event
  BY <1>0
<1>2. /\ SubSeq(line, m, n) \in Seq(Event)
      /\ Len(SubSeq(line, m, n)) = (IF m <= n THEN n - m + 1 ELSE 0)
      /\ \A i \in 1 .. n - m + 1 : SubSeq(line, m, n)[i] = line[m + i - 1]
  BY <1>1, SubSeqProperties
<1>3. Len(SubSeq(line, m, n)) = n + 1 - m
  BY <1>0, <1>2
<1>4. ASSUME NEW i \in 1 .. n + 1 - m PROVE SubSeq(line, m, n)[i] = line[m - 1 + i]
  <2>1. i \in 1 .. n - m + 1 /\ m + i - 1 = m - 1 + i
    BY <1>1
  <2> QED BY <2>1, <1>2
<1> QED BY <1>2, <1>3, <1>4

Between(line, n, e) == SubSeq(line, 1, n) \o <<e>> \o SubSeq(line, n + 1, Len(line))
Spliced(r, line, n, e) ==
  /\ r \in Seq(Event) /\ Len(r) = Len(line) + 1
  /\ \A i \in 1 .. Len(line) + 1 :
       r[i] = IF i <= n THEN line[i] ELSE IF i = n + 1 THEN e ELSE line[i - 1]

LEMMA InsertedBetween ==
  ASSUME NEW line \in Seq(Event), NEW n \in 0 .. Len(line), NEW e \in Event,
         NEW r, r = Between(line, n, e)
  PROVE  Spliced(r, line, n, e)
<1>0. Len(line) \in Nat /\ n \in Nat /\ n <= Len(line)
  OBVIOUS
<1>1. PICK pre \in Seq(Event) : /\ pre = SubSeq(line, 1, n) /\ Len(pre) = n
                                /\ \A i \in 1 .. n : pre[i] = line[i]
  <2>1. 1 \in 1 .. Len(line) + 1 /\ 1 <= n + 1
    BY <1>0
  <2>2. /\ SubSeq(line, 1, n) \in Seq(Event) /\ Len(SubSeq(line, 1, n)) = n + 1 - 1
        /\ \A i \in 1 .. n + 1 - 1 : SubSeq(line, 1, n)[i] = line[1 - 1 + i]
    BY <2>1, PartOf
  <2>3. n + 1 - 1 = n /\ \A i \in 1 .. n : 1 - 1 + i = i
    BY <1>0
  <2> QED BY <2>2, <2>3
<1>2. PICK post \in Seq(Event) : /\ post = SubSeq(line, n + 1, Len(line))
                                 /\ Len(post) = Len(line) - n
                                 /\ \A i \in 1 .. Len(line) - n : post[i] = line[n + i]
  <2>1. n + 1 \in 1 .. Len(line) + 1 /\ Len(line) \in 0 .. Len(line) /\ n + 1 <= Len(line) + 1
    BY <1>0
  <2>2. /\ SubSeq(line, n + 1, Len(line)) \in Seq(Event)
        /\ Len(SubSeq(line, n + 1, Len(line))) = Len(line) + 1 - (n + 1)
        /\ \A i \in 1 .. Len(line) + 1 - (n + 1) : SubSeq(line, n + 1, Len(line))[i] = line[n + 1 - 1 + i]
    BY <2>1, PartOf
  <2>3. Len(line) + 1 - (n + 1) = Len(line) - n /\ n + 1 - 1 = n
    BY <1>0
  <2> QED BY <2>2, <2>3
<1>3. PICK one \in Seq(Event) : one = <<e>> /\ Len(one) = 1 /\ one[1] = e
  <2>1. <<e>> \in Seq(Event) /\ Len(<<e>>) = 1 /\ <<e>>[1] = e
    OBVIOUS
  <2> QED BY <2>1
<1>4. PICK q \in Seq(Event) : /\ q = pre \o one /\ Len(q) = n + 1
                              /\ \A i \in 1 .. n + 1 : q[i] = IF i <= n THEN pre[i] ELSE one[i - n]
  <2>1. /\ pre \o one \in Seq(Event) /\ Len(pre \o one) = n + 1
        /\ \A i \in 1 .. n + 1 : (pre \o one)[i] = IF i <= n THEN pre[i] ELSE one[i - n]
    BY <1>0, <1>1, <1>3, Joined
  <2> QED BY <2>1
<1>5. /\ r \in Seq(Event) /\ Len(r) = Len(line) + 1
      /\ \A i \in 1 .. Len(line) + 1 : r[i] = IF i <= n + 1 THEN q[i] ELSE post[i - (n + 1)]
  <2>1. r = q \o post
    BY <1>1, <1>2, <1>3, <1>4 DEF Between
  <2>2. PICK l \in Nat : l = n + 1
    BY <1>0
  <2>31. Len(line) - n \in Nat
    BY <1>0
  <2>3. PICK m \in Nat : m = Len(line) - n
    BY <2>31
  <2>4. l = Len(q) /\ m = Len(post) /\ l + m = Len(line) + 1
    BY <2>2, <2>3, <1>0, <1>2, <1>4
  <2>5. /\ r \in Seq(Event) /\ Len(r) = l + m
        /\ \A i \in 1 .. l + m : r[i] = IF i <= l THEN q[i] ELSE post[i - l]
    BY <2>1, <2>4, Joined
  <2> QED BY <2>2, <2>4, <2>5
<1>6. ASSUME NEW i \in 1 .. Len(line) + 1
      PROVE  r[i] = IF i <= n THEN line[i] ELSE IF i = n + 1 THEN e ELSE line[i - 1]
  <2>1. CASE i <= n
    <3>1. i \in 1 .. n /\ i \in 1 .. n + 1 /\ i <= n + 1
      BY <2>1, <1>0
    <3> QED BY <3>1, <2>1, <1>1, <1>4, <1>5
  <2>2. CASE i = n + 1
    <3>1. i \in 1 .. n + 1 /\ ~(i <= n) /\ i - n = 1
      BY <2>2, <1>0
    <3>2. q[i] = one[i - n]
      BY <3>1, <1>4
    <3>3. r[i] = q[i]
      BY <3>1, <1>0, <2>2, <1>5
    <3> QED BY <3>1, <3>2, <3>3, <2>2, <1>3
  <2>3. CASE n + 1 < i
    <3>1. i - (n + 1) \in 1 .. Len(line) - n /\ n + (i - (n + 1)) = i - 1
      BY <2>3, <1>0
    <3>2. ~(i <= n) /\ ~(i <= n + 1) /\ i # n + 1
      BY <2>3, <1>0
    <3>3. r[i] = post[i - (n + 1)]
      BY <3>2, <1>5
    <3> QED BY <3>1, <3>2, <3>3, <1>2
  <2> QED BY <2>1, <2>2, <2>3, <1>0
<1> QED BY <1>5, <1>6 DEF Spliced

(* An event takes its place in the line, or that of its offset's event.    *)
LEMMA InsertedLine ==
  ASSUME NEW line \in Line, NEW d \in Frame, NEW x \in Nat
  PROVE  /\ Inserted(line, d, x) \in Line
         /\ Len(Inserted(line, d, x)) = IF Taken(line, d) THEN Len(line) ELSE Len(line) + 1
         /\ UpTo(line, d) => Last(Inserted(line, d, x)) = x /\ UpTo(Inserted(line, d, x), d)
<1> DEFINE e == [at |-> d, value |-> x]
           n == Earlier(line, d)
<1>0. PICK r : r = Inserted(line, d, x)
  OBVIOUS
<1>1. d \in Nat /\ e \in Event /\ e.at = d /\ e.value = x
  BY DEF Event, Frame
<1>2. n \in 0 .. Len(line) /\ \A i \in DOMAIN line : line[i].at < d <=> i <= n
  BY <1>1, EarlierFirst
<1>3. /\ line \in Seq(Event) /\ Len(line) \in Nat \ {0} /\ DOMAIN line = 1 .. Len(line)
      /\ line[1].at = 0 /\ Rises(line)
  BY LineFacts
<1>30. \A i \in 1 .. Len(line) : line[i] \in Event /\ line[i].at \in Nat
  BY LineFacts
<1>31. Len(line) \in Nat /\ n \in Nat /\ n <= Len(line)
  BY <1>2, <1>3
<1>4. Taken(line, d) <=> n < Len(line) /\ line[n + 1].at = d
  BY DEF Taken
<1>5. r = IF Taken(line, d) THEN [line EXCEPT ![n + 1] = e]
          ELSE SubSeq(line, 1, n) \o <<e>> \o SubSeq(line, n + 1, Len(line))
  BY <1>0 DEF Inserted
<1> HIDE DEF e, n
<1>6. CASE Taken(line, d)
  <2>1. n + 1 \in 1 .. Len(line) /\ line[n + 1].at = d
    BY <1>2, <1>3, <1>4, <1>6
  <2>2. r \in Seq(Event) /\ Len(r) = Len(line) /\ DOMAIN r = 1 .. Len(line)
        /\ \A i \in 1 .. Len(line) : r[i] = IF i = n + 1 THEN e ELSE line[i]
    BY <2>1, <1>1, <1>3, <1>5, <1>6
  <2>3. \A i \in 1 .. Len(line) : r[i].at = line[i].at
    BY <2>1, <2>2, <1>1
  <2>4. Rises(r) /\ r[1].at = 0
    BY <2>2, <2>3, <1>3 DEF Rises
  <2>5. r \in Line
    BY <2>2, <2>4, <1>3 DEF Line
  <2>6. ASSUME UpTo(line, d) PROVE Last(r) = x /\ UpTo(r, d)
    <3>1. UpTo(r, d)
      BY <2>2, <2>3, <2>6, <1>3 DEF UpTo
    <3>2. n + 1 = Len(line)
      <4>1. CASE n + 1 < Len(line)
        <5>1. line[n + 1].at < line[Len(line)].at
          BY <4>1, <2>1, <1>3 DEF Rises
        <5>2. line[Len(line)].at <= d
          BY <2>6, <1>3 DEF UpTo
        <5> QED BY <5>1, <5>2, <2>1, <1>1, <1>3, <1>30
      <4> QED BY <4>1, <2>1, <1>3
    <3>3. r[Len(r)] = e
      BY <3>2, <2>1, <2>2
    <3> QED BY <3>1, <3>3, <1>1 DEF Last
  <2> QED BY <2>2, <2>5, <2>6, <1>0, <1>6
<1>7. CASE ~Taken(line, d)
  <2>1. /\ r \in Seq(Event) /\ Len(r) = Len(line) + 1
        /\ \A i \in 1 .. Len(line) + 1 :
             r[i] = IF i <= n THEN line[i] ELSE IF i = n + 1 THEN e ELSE line[i - 1]
    <3>1. r = Between(line, n, e)
      BY <1>5, <1>7 DEF Between
    <3>2. line \in Seq(Event) /\ n \in 0 .. Len(line) /\ e \in Event
      BY <1>1, <1>2, <1>3
    <3>3. Spliced(r, line, n, e)
      BY <3>1, <3>2, InsertedBetween
    <3> QED BY <3>3 DEF Spliced
  <2>2. DOMAIN r = 1 .. Len(line) + 1
    BY <2>1, <1>3
  <2>3. \A i \in 1 .. Len(line) : i <= n => line[i].at < d
    BY <1>2, <1>3
  <2>4. \A i \in 1 .. Len(line) : n < i => d < line[i].at
    <3>1. SUFFICES ASSUME NEW i \in 1 .. Len(line), n < i PROVE d < line[i].at
      OBVIOUS
    <3>2. n + 1 \in 1 .. Len(line) /\ ~(line[n + 1].at < d) /\ line[n + 1].at # d
      BY <3>1, <1>2, <1>3, <1>4, <1>7
    <3>3. d < line[n + 1].at
      BY <3>2, <1>1, <1>30
    <3>4. i # n + 1 => line[n + 1].at < line[i].at
      BY <3>1, <3>2, <1>2, <1>3 DEF Rises
    <3> QED BY <3>1, <3>2, <3>3, <3>4, <1>1, <1>30
  <2>5. \A i \in 1 .. n : r[i] = line[i] /\ i \in 1 .. Len(line)
    BY <2>1, <2>2, <1>2, <1>3
  <2>6. r[n + 1] = e
    BY <2>1, <2>2, <1>2, <1>3
  <2>7. \A i \in n + 2 .. Len(line) + 1 : r[i] = line[i - 1] /\ i - 1 \in 1 .. Len(line) /\ n < i - 1
    BY <2>1, <2>2, <1>2, <1>3
  <2>8. Rises(r)
    <3> SUFFICES ASSUME NEW i \in 1 .. Len(line) + 1, NEW j \in 1 .. Len(line) + 1, i < j
                 PROVE  r[i].at < r[j].at
      BY <2>2 DEF Rises
    <3>1. CASE j <= n
      <4>1. i \in 1 .. n /\ j \in 1 .. n
        BY <3>1, <1>2, <1>3
      <4> QED BY <4>1, <2>5, <1>3 DEF Rises
    <3>2. CASE j = n + 1
      <4>1. i \in 1 .. n
        BY <3>2, <1>2, <1>3
      <4> QED BY <4>1, <3>2, <2>3, <2>5, <2>6, <1>1
    <3>3. CASE j > n + 1 /\ i <= n
      <4>1. i \in 1 .. n /\ j \in n + 2 .. Len(line) + 1
        BY <3>3, <1>2, <1>3
      <4>2. r[i].at < d /\ d < r[j].at
        BY <4>1, <2>3, <2>4, <2>5, <2>7
      <4>3. r[i].at \in Nat /\ r[j].at \in Nat
        BY <4>1, <2>5, <2>7, <1>30
      <4> QED BY <4>2, <4>3, <1>1
    <3>4. CASE j > n + 1 /\ i = n + 1
      <4>1. j \in n + 2 .. Len(line) + 1
        BY <3>4, <1>2, <1>3
      <4> QED BY <4>1, <3>4, <2>4, <2>6, <2>7, <1>1
    <3>5. CASE j > n + 1 /\ i > n + 1
      <4>1. i \in n + 2 .. Len(line) + 1 /\ j \in n + 2 .. Len(line) + 1
        BY <3>5, <1>2, <1>3
      <4>2. i - 1 < j - 1
        OBVIOUS
      <4> QED BY <4>1, <4>2, <2>7, <1>3 DEF Rises
    <3> QED BY <3>1, <3>2, <3>3, <3>4, <3>5, <1>2, <1>3
  <2>9. r[1].at = 0
    <3>1. ~(line[1].at > d)
      BY <1>1, <1>3
    <3>2. 1 \in 1 .. n
      BY <3>1, <2>4, <1>1, <1>2, <1>3
    <3> QED BY <3>2, <2>5, <1>3
  <2>10. r \in Line
    BY <2>1, <2>8, <2>9, <1>3 DEF Line
  <2>11. ASSUME UpTo(line, d) PROVE Last(r) = x /\ UpTo(r, d)
    <3>1. n = Len(line)
      <4>1. CASE n < Len(line)
        <5>0. Len(line) \in 1 .. Len(line)
          BY <1>3
        <5>1. d < line[Len(line)].at /\ line[Len(line)].at <= d
          BY <5>0, <4>1, <2>4, <2>11, <1>3 DEF UpTo
        <5> QED BY <5>0, <5>1, <1>1, <1>30
      <4> QED BY <4>1, <1>31
    <3>2. r[Len(r)] = e
      BY <3>1, <2>1, <2>6
    <3>3. ASSUME NEW i \in DOMAIN r PROVE r[i].at <= d
      <4>1. i \in 1 .. n \/ i = n + 1
        BY <3>1, <2>2, <1>3
      <4>2. CASE i \in 1 .. n
        BY <4>2, <2>3, <2>5, <1>1, <1>30
      <4>3. CASE i = n + 1
        BY <4>3, <2>6, <1>1
      <4> QED BY <4>1, <4>2, <4>3
    <3> QED BY <3>2, <3>3, <1>1 DEF Last, UpTo
  <2> QED BY <2>1, <2>10, <2>11, <1>0, <1>7
<1> QED BY <1>6, <1>7

(* What a voice keeps of a line: all of it, if it ends by then.            *)
LEMMA PrefixLine ==
  ASSUME NEW line \in Line, NEW d \in Nat
  PROVE  /\ SubSeq(line, 1, Earlier(line, d + 1)) \in Line
         /\ UpTo(line, d) => SubSeq(line, 1, Earlier(line, d + 1)) = line
<1> DEFINE n == Earlier(line, d + 1)
           r == SubSeq(line, 1, n)
<1>1. n \in 0 .. Len(line) /\ \A i \in DOMAIN line : line[i].at < d + 1 <=> i <= n
  BY EarlierFirst, SMTT(40)
<1>2. /\ line \in Seq(Event) /\ Len(line) \in Nat \ {0} /\ DOMAIN line = 1 .. Len(line)
      /\ line[1].at = 0 /\ Rises(line)
  BY LineFacts
<1>3. \A i \in 1 .. Len(line) : line[i] \in Event /\ line[i].at \in Nat
  BY LineFacts
<1> HIDE DEF n
<1>4. n >= 1
  BY <1>1, <1>2
<1>5. r \in Seq(Event) /\ Len(r) = n /\ \A i \in 1 .. n : r[i] = line[i]
  <2>1. 1 \in Int /\ n \in Int /\ \A i \in 1 .. n : line[i] \in Event
    BY <1>1, <1>2, <1>3
  <2>2. SubSeq(line, 1, n) \in Seq(Event) /\ Len(SubSeq(line, 1, n)) = (IF 1 <= n THEN n - 1 + 1 ELSE 0)
        /\ \A i \in 1 .. n - 1 + 1 : SubSeq(line, 1, n)[i] = line[1 + i - 1]
    BY <2>1, SubSeqProperties
  <2> QED BY <2>2, <1>1, <1>4
<1> HIDE DEF r
<1>6. DOMAIN r = 1 .. n /\ \A i \in 1 .. n : i \in 1 .. Len(line)
  BY <1>1, <1>2, <1>5
<1>7. Rises(r)
  BY <1>2, <1>5, <1>6 DEF Rises
<1>8. r \in Line
  BY <1>1, <1>2, <1>4, <1>5, <1>7 DEF Line
<1>9. ASSUME UpTo(line, d) PROVE r = line
  <2>1. Len(line) <= n
    BY <1>1, <1>2, <1>3, <1>9 DEF UpTo
  <2>2. n = Len(line)
    BY <2>1, <1>1, <1>2
  <2>3. Len(r) = Len(line) /\ \A i \in 1 .. Len(line) : r[i] = line[i]
    BY <2>2, <1>5
  <2> QED BY <2>3, <1>2, <1>5
<1> QED BY <1>8, <1>9 DEF n, r

-----------------------------------------------------------------------------
(* The types, with the order of the timelines.                             *)

Chan == Member \cup {Manager}
Seed == [bend : Nat, pitch : Nat, pressure : Nat]
Plain == [line : [Kind -> Line], has : [Kind -> BOOLEAN], dropped : Nat]
Owned == [generation : Nat, line : [Kind -> Short], has : [Kind -> BOOLEAN], dropped : Nat]
Note == [active : BOOLEAN, generation : Nat, source : Chan]
Voice == [id : [slot : Slot, generation : Nat], source : Chan, zone : BOOLEAN, off : BOOLEAN,
          behind : SUBSET Kind, frozen : [Kind -> Line \cup {<<>>}], own : [Kind -> Nat]]

Types ==
  /\ mpe \in BOOLEAN /\ range \in [manager : Ranges, member : Ranges]
  /\ seed \in [Chan -> Seed] /\ note \in [Slot -> Note] /\ context \in [Slot -> Owned]
  /\ broad \in [zone : Plain, global : Plain] /\ retired \in Nat
  /\ voices \subseteq Voice /\ now \in Frame

LEMMA Constants ==
  /\ Ranges \subseteq Nat /\ Bend \subseteq Nat /\ Press \subseteq Nat /\ Absent \in Nat
  /\ Kind \subseteq {"pitch", "pressure"} /\ 0 \in Frame /\ Frame \subseteq Nat
  /\ Capacity \in Nat /\ Capacity >= 2 /\ Manager \in Chan /\ Member \subseteq Chan
  BY ExpressionAssumption DEF Absent, Frame, Manager, Chan

LEMMA ShortLine ==
  ASSUME NEW line \in Short, NEW d \in Frame, NEW x \in Nat, Fits(line, d, Capacity)
  PROVE  Inserted(line, d, x) \in Short
<1>1. line \in Line /\ Len(line) <= Capacity
  BY DEF Short
<1>2. Inserted(line, d, x) \in Line
      /\ Len(Inserted(line, d, x)) = IF Taken(line, d) THEN Len(line) ELSE Len(line) + 1
  BY <1>1, InsertedLine
<1>3. Len(line) \in Nat /\ Capacity \in Nat
  BY <1>1, LineFacts, Constants
<1>4. Len(Inserted(line, d, x)) <= Capacity
  BY <1>1, <1>2, <1>3 DEF Fits
<1> QED BY <1>2, <1>4 DEF Short

LEMMA InsertPlain ==
  ASSUME NEW c \in Plain, NEW k \in Kind, NEW d \in Frame, NEW x \in Nat, NEW room
  PROVE  Insert(c, k, d, x, room) \in Plain
<1>1. c.line[k] \in Line
  BY DEF Plain
<1>2. Inserted(c.line[k], d, x) \in Line
  BY <1>1, InsertedLine
<1>3. CASE Fits(c.line[k], d, room)
  <2>1. PICK l \in Line : l = Inserted(c.line[k], d, x)
    BY <1>2
  <2>20. PICK e : e = Insert(c, k, d, x, room)
    OBVIOUS
  <2>2. e = [c EXCEPT !.line[k] = l, !.has[k] = TRUE]
    BY <1>3, <2>1, <2>20 DEF Insert
  <2>3. e = [line |-> [c.line EXCEPT ![k] = l], has |-> [c.has EXCEPT ![k] = TRUE], dropped |-> c.dropped]
    BY <2>2 DEF Plain
  <2>4. /\ [c.line EXCEPT ![k] = l] \in [Kind -> Line]
        /\ [c.has EXCEPT ![k] = TRUE] \in [Kind -> BOOLEAN] /\ c.dropped \in Nat
    BY DEF Plain
  <2> QED BY <2>20, <2>3, <2>4 DEF Plain
<1>4. CASE ~Fits(c.line[k], d, room)
  <2>1. Insert(c, k, d, x, room) = [c EXCEPT !.dropped = c.dropped + 1]
    BY <1>4 DEF Insert
  <2>2. c.dropped + 1 \in Nat
    BY DEF Plain
  <2> QED BY <2>1, <2>2 DEF Plain
<1> QED BY <1>3, <1>4

LEMMA InsertOwned ==
  ASSUME NEW c \in Owned, NEW k \in Kind, NEW d \in Frame, NEW x \in Nat,
         NEW e, e = Insert(c, k, d, x, Capacity)
  PROVE  /\ e \in Owned /\ e.generation = c.generation
         /\ \A l \in Kind : l # k => e.line[l] = c.line[l] /\ e.has[l] = c.has[l]
         /\ Fits(c.line[k], d, Capacity) => e.has[k] /\ e.line[k] = Inserted(c.line[k], d, x)
         /\ ~Fits(c.line[k], d, Capacity) => e.line = c.line /\ e.has = c.has
         /\ e.dropped = IF Fits(c.line[k], d, Capacity) THEN c.dropped ELSE c.dropped + 1
<1>1. c.line[k] \in Short
  BY DEF Owned
<1>2. CASE Fits(c.line[k], d, Capacity)
  <2>1. PICK l : l = Inserted(c.line[k], d, x)
    OBVIOUS
  <2>2. l \in Short
    BY <2>1, <1>1, <1>2, ShortLine
  <2>3. e = [c EXCEPT !.line[k] = l, !.has[k] = TRUE]
    BY <1>2, <2>1 DEF Insert
  <2>31. e = [generation |-> c.generation, line |-> [c.line EXCEPT ![k] = l],
             has |-> [c.has EXCEPT ![k] = TRUE], dropped |-> c.dropped]
    BY <2>3 DEF Owned
  <2>32. /\ [c.line EXCEPT ![k] = l] \in [Kind -> Short] /\ c.generation \in Nat
         /\ [c.has EXCEPT ![k] = TRUE] \in [Kind -> BOOLEAN] /\ c.dropped \in Nat
    BY <2>2 DEF Owned
  <2>4. e \in Owned /\ e.generation = c.generation
        /\ e.line = [c.line EXCEPT ![k] = l] /\ e.has = [c.has EXCEPT ![k] = TRUE]
        /\ e.dropped = c.dropped
    BY <2>31, <2>32 DEF Owned
  <2>5. c.line \in [Kind -> Short] /\ c.has \in [Kind -> BOOLEAN]
    BY DEF Owned
  <2>6. e.has[k] /\ e.line[k] = l /\ \A j \in Kind : j # k => e.line[j] = c.line[j] /\ e.has[j] = c.has[j]
    BY <2>4, <2>5
  <2> QED BY <2>1, <2>4, <2>6, <1>2
<1>3. CASE ~Fits(c.line[k], d, Capacity)
  <2>1. e = [c EXCEPT !.dropped = c.dropped + 1] /\ c.dropped + 1 \in Nat
    BY <1>3 DEF Insert, Owned
  <2>2. /\ e \in Owned /\ e.generation = c.generation /\ e.line = c.line /\ e.has = c.has
        /\ e.dropped = c.dropped + 1
    BY <2>1 DEF Owned
  <2> QED BY <2>2, <1>3
<1> QED BY <1>2, <1>3

LEMMA FreshTypes == Fresh \in Plain /\ Fresh.line \in [Kind -> Short] /\ Fresh.has \in [Kind -> BOOLEAN]
<1>1. Sentinel(0) \in Short /\ Sentinel(0) \in Line
  BY SentinelLine DEF Short
<1> QED BY <1>1 DEF Fresh, Plain

LEMMA InitTypes == Init => Types
<1> SUFFICES ASSUME Init PROVE Types
  OBVIOUS
<1>1. range \in [manager : Ranges, member : Ranges] /\ mpe \in BOOLEAN
  BY ExpressionAssumption DEF Init
<1>2. NoSeed \in Seed
  BY Constants DEF NoSeed, Seed
<1>3. seed \in [Chan -> Seed]
  BY <1>2 DEF Init, Chan
<1>4. note \in [Slot -> Note]
  BY Constants DEF Init, Note
<1>5. context \in [Slot -> Owned]
  BY FreshTypes DEF Init, Owned
<1>6. broad \in [zone : Plain, global : Plain]
  BY FreshTypes DEF Init
<1> QED BY <1>1, <1>3, <1>4, <1>5, <1>6, Constants DEF Init, Types

LEMMA TypeFacts ==
  ASSUME Types
  PROVE  /\ mpe \in BOOLEAN /\ range.manager \in Nat /\ range.member \in Nat
         /\ \A c \in Chan : /\ seed[c] \in Seed /\ seed[c].bend \in Nat /\ seed[c].pitch \in Nat
                            /\ seed[c].pressure \in Nat
         /\ \A s \in Slot : /\ note[s] \in Note /\ context[s] \in Owned
                            /\ note[s].generation \in Nat /\ note[s].source \in Chan
         /\ \A v \in voices : v \in Voice /\ v.id.slot \in Slot /\ v.source \in Chan
         /\ broad.zone \in Plain /\ broad.global \in Plain /\ now \in Nat /\ now \in Frame
<1>1. range.manager \in Nat /\ range.member \in Nat
  BY Constants DEF Types
<1>2. \A c \in Chan : seed[c] \in Seed
  BY DEF Types
<1>3. \A e \in Seed : e.bend \in Nat /\ e.pitch \in Nat /\ e.pressure \in Nat
  BY DEF Seed
<1>4. \A s \in Slot : note[s] \in Note /\ context[s] \in Owned
  BY DEF Types
<1>5. \A n \in Note : n.generation \in Nat /\ n.source \in Chan
  BY DEF Note
<1>6. \A v \in voices : v \in Voice
  BY DEF Types
<1>7. \A v \in Voice : v.id.slot \in Slot /\ v.source \in Chan
  BY DEF Voice
<1>8. broad.zone \in Plain /\ broad.global \in Plain /\ now \in Nat /\ now \in Frame /\ mpe \in BOOLEAN
  BY Constants DEF Types
<1> QED BY <1>1, <1>2, <1>3, <1>4, <1>5, <1>6, <1>7, <1>8

LEMMA ResolvedIsNumber ==
  ASSUME Types, NEW c, NEW k, NEW x \in Nat
  PROVE  Resolved(c, k, x) \in Nat
<1>1. RangeOf(c) \in Nat
  BY TypeFacts DEF RangeOf
<1>2. \A r \in Nat : x * r \in Nat
  OBVIOUS
<1> QED BY <1>1, <1>2 DEF Resolved

LEMMA KeptTypes ==
  ASSUME Types, NEW c \in Chan, NEW k, NEW x \in Nat
  PROVE  Kept(c, k, x) \in [Chan -> Seed]
<1>1. PICK y \in Nat : y = Resolved(c, k, x)
  BY ResolvedIsNumber
<1>2. seed \in [Chan -> Seed] /\ seed[c] \in Seed
  BY DEF Types
<1>3. [seed[c] EXCEPT !.bend = x, !.pitch = y] \in Seed /\ [seed[c] EXCEPT !.pressure = x] \in Seed
  BY <1>2 DEF Seed
<1>4. [seed EXCEPT ![c].bend = x, ![c].pitch = y] \in [Chan -> Seed]
  BY <1>2, <1>3 DEF Seed
<1>5. [seed EXCEPT ![c].pressure = x] \in [Chan -> Seed]
  BY <1>2, <1>3 DEF Seed
<1> QED BY <1>1, <1>2, <1>4, <1>5 DEF Kept

LEMMA ToBroadTypes ==
  ASSUME Types, NEW k \in Kind, NEW x \in Nat, NEW d \in Frame
  PROVE  ToBroad(k, d, x) \in [zone : Plain, global : Plain]
<1>1. PICK y \in Nat : y = Resolved(Manager, k, x)
  BY ResolvedIsNumber
<1>2. PICK g : g = Insert(broad.global, k, d, x, LastFrame + 2)
  OBVIOUS
<1>3. PICK z : z = Insert(broad.zone, k, d, y, LastFrame + 2)
  OBVIOUS
<1>4. g \in Plain /\ z \in Plain
  BY <1>2, <1>3, TypeFacts, InsertPlain
<1>5. broad \in [zone : Plain, global : Plain]
  BY DEF Types
<1>6. [broad EXCEPT !.global = g].zone = broad.zone
  BY <1>5
<1>7. ToGlobal(k, d, x) = [broad EXCEPT !.global = g]
  BY <1>2, <1>5 DEF ToGlobal
<1>8. ToBroad(k, d, x) = IF mpe THEN [[broad EXCEPT !.global = g] EXCEPT !.zone = z]
                         ELSE [broad EXCEPT !.global = g]
  BY <1>1, <1>3, <1>5, <1>6, <1>7 DEF ToBroad
<1> QED BY <1>4, <1>5, <1>8

LEMMA VoiceFacts ==
  ASSUME NEW v \in Voice
  PROVE  /\ v.id \in [slot : Slot, generation : Nat] /\ v.id.slot \in Slot /\ v.id.generation \in Nat
         /\ v.source \in Chan /\ v.zone \in BOOLEAN /\ v.off \in BOOLEAN /\ v.behind \in SUBSET Kind
         /\ v.frozen \in [Kind -> Line \cup {<<>>}] /\ v.own \in [Kind -> Nat]
<1>1. v.id \in [slot : Slot, generation : Nat]
  BY DEF Voice
<1>2. v.id.slot \in Slot /\ v.id.generation \in Nat
  BY <1>1
<1>3. /\ v.source \in Chan /\ v.zone \in BOOLEAN /\ v.off \in BOOLEAN /\ v.behind \in SUBSET Kind
      /\ v.frozen \in [Kind -> Line \cup {<<>>}] /\ v.own \in [Kind -> Nat]
  BY DEF Voice
<1> QED BY <1>1, <1>2, <1>3

(* A voice that is told of one value, and is behind in some kinds then.    *)
ToldBut(v, k, x, b) == [v EXCEPT !.own[k] = x, !.behind = b]

LEMMA ToldVoice ==
  ASSUME NEW v \in Voice, NEW k \in Kind, NEW x \in Nat, NEW b \in SUBSET Kind,
         NEW w, w = ToldBut(v, k, x, b)
  PROVE  /\ w \in Voice /\ w.id = v.id /\ w.source = v.source /\ w.zone = v.zone /\ w.off = v.off
         /\ w.behind = b /\ w.frozen = v.frozen /\ w.own[k] = x
         /\ \A l \in Kind : l # k => w.own[l] = v.own[l]
<1>1. w = [id |-> v.id, source |-> v.source, zone |-> v.zone, off |-> v.off, behind |-> b,
           frozen |-> v.frozen, own |-> [v.own EXCEPT ![k] = x]]
  BY DEF Voice, ToldBut
<1>2. v.own \in [Kind -> Nat] /\ [v.own EXCEPT ![k] = x] \in [Kind -> Nat]
  BY DEF Voice
<1>3. /\ w.id = v.id /\ w.source = v.source /\ w.zone = v.zone /\ w.off = v.off
      /\ w.behind = b /\ w.frozen = v.frozen /\ w.own = [v.own EXCEPT ![k] = x]
  BY <1>1
<1>4. w.own[k] = x /\ \A l \in Kind : l # k => w.own[l] = v.own[l]
  BY <1>2, <1>3
<1>5. w \in Voice
  BY <1>1, <1>2, VoiceFacts DEF Voice
<1> QED BY <1>3, <1>4, <1>5

(* What Message and Reapplied do to a slot's context and to a voice.       *)
BroadcastTo(s, c, k, d, x) ==
  IF OfMember(s, c) THEN Insert(context[s], k, d, x, Capacity) ELSE context[s]
Loses(v, k, d) ==
  IF Fits(context[v.id.slot].line[k], d, Capacity) THEN v.behind \ {k} ELSE v.behind \cup {k}

LEMMA SentVoices ==
  ASSUME Types, NEW c, NEW k \in Kind, NEW d \in Frame, NEW x \in Nat, NEW v \in voices,
         NEW w, w = IF v.source = c /\ ~v.off
                    THEN Told(v, k, x, d) ELSE v
  PROVE  w \in Voice
<1>2. v \in Voice
  BY TypeFacts
<1>1. PICK b \in SUBSET Kind : b = Loses(v, k, d)
  BY <1>2, VoiceFacts DEF Loses
<1>3. CASE v.source = c /\ ~v.off
  <2>1. w = ToldBut(v, k, x, b)
    BY <1>1, <1>3 DEF Told, ToldBut, Loses
  <2> QED BY <2>1, <1>2, ToldVoice
<1>4. CASE ~(v.source = c /\ ~v.off)
  BY <1>2, <1>4
<1> QED BY <1>3, <1>4

LEMMA MessageTypes ==
  ASSUME Types, NEW c \in Chan, NEW k \in Kind, NEW x \in Nat, NEW d \in Frame, Message(c, k, x, d)
  PROVE  Types'
<1>1. seed' \in [Chan -> Seed]
  BY KeptTypes DEF Message
<1>2. now' \in Frame /\ UNCHANGED <<mpe, range, note, retired>>
  BY DEF Message, At
<1>3. CASE mpe /\ c # Manager
  <2>1. PICK y \in Nat : y = Resolved(c, k, x)
    BY ResolvedIsNumber
  <2>2. /\ context' = Broadcast(context, c, k, d, y) /\ voices' = {IF v.source = c /\ ~v.off THEN Told(v, k, y, d) ELSE v : v \in voices}
        /\ UNCHANGED broad
    BY <1>3, <2>1 DEF Message
  <2>3. context' \in [Slot -> Owned]
    <3>1. \A s \in Slot : Insert(context[s], k, d, y, Capacity) \in Owned
      BY TypeFacts, InsertOwned
    <3> QED BY <2>2, <3>1, TypeFacts DEF Broadcast
  <2>4. voices' \subseteq Voice
    <3>1. \A v \in voices : (IF v.source = c /\ ~v.off
                             THEN Told(v, k, y, d) ELSE v) \in Voice
      BY SentVoices
    <3> QED BY <2>2, <3>1 
  <2> QED BY <1>1, <1>2, <2>2, <2>3, <2>4 DEF Types
<1>4. CASE ~(mpe /\ c # Manager)
  <2>1. broad' = ToBroad(k, d, x) /\ UNCHANGED <<context, voices>>
    BY <1>4 DEF Message
  <2> QED BY <1>1, <1>2, <2>1, ToBroadTypes DEF Types
<1> QED BY <1>3, <1>4

(* A note's context starts with what its member has sent.                  *)
Seeds(c, k) == mpe /\ c # Manager /\ SeedOf(seed[c], k) # Absent

Opened(c, k, x) == [c EXCEPT !.line[k] = Sentinel(x), !.has[k] = TRUE]

LEMMA InsertFirst ==
  ASSUME NEW c \in Plain, NEW k \in Kind, c.line[k] = Sentinel(0), NEW x \in Nat
  PROVE  Insert(c, k, 0, x, Capacity) = Opened(c, k, x)
<1>1. PICK line : line = Sentinel(0)
  OBVIOUS
<1>2. DOMAIN line = {1} /\ Len(line) = 1 /\ line[1].at = 0
  BY <1>1 DEF Sentinel
<1>3. {i \in DOMAIN line : line[i].at < 0} = {}
  BY <1>2
<1>4. Earlier(line, 0) = 0
  BY <1>3, FS_EmptySet DEF Earlier
<1>5. Taken(line, 0)
  BY <1>2, <1>4 DEF Taken
<1>50. PICK n : n = Earlier(line, 0)
  OBVIOUS
<1>51. n + 1 = 1
  BY <1>4, <1>50
<1>6. Inserted(line, 0, x) = [line EXCEPT ![1] = [at |-> 0, value |-> x]]
  BY <1>5, <1>50, <1>51 DEF Inserted
<1>7. [line EXCEPT ![1] = [at |-> 0, value |-> x]] = Sentinel(x)
  BY <1>1 DEF Sentinel
<1>8. Fits(c.line[k], 0, Capacity) /\ Inserted(c.line[k], 0, x) = Sentinel(x)
  BY <1>1, <1>5, <1>6, <1>7 DEF Fits
<1> QED BY <1>8 DEF Insert, Opened

LEMMA SeedIsNumber ==
  ASSUME NEW e \in Seed, NEW k
  PROVE  SeedOf(e, k) \in Nat
  BY DEF Seed, SeedOf

StartValue(c, k) == IF Seeds(c, k) THEN SeedOf(seed[c], k) ELSE 0
StartLine(c) == [k \in Kind |-> Sentinel(StartValue(c, k))]
StartHas(c) == [k \in Kind |-> Seeds(c, k)]
With(c, x, k) == IF mpe /\ c # Manager /\ SeedOf(seed[c], k) # Absent
                 THEN Insert(x, k, 0, SeedOf(seed[c], k), Capacity) ELSE x
Begins(c, x, y, k) ==
  /\ y \in Plain /\ y.line[k] = Sentinel(StartValue(c, k)) /\ (y.has[k] <=> Seeds(c, k))
  /\ \A l \in Kind : l # k => y.line[l] = x.line[l] /\ y.has[l] = x.has[l]

LEMMA WithOne ==
  ASSUME Types, NEW c \in Chan, NEW x \in Plain, NEW k \in Kind,
         x.line[k] = Sentinel(0), ~x.has[k], NEW y, y = With(c, x, k)
  PROVE  Begins(c, x, y, k)
<1>1. PICK z \in Nat : z = SeedOf(seed[c], k)
  BY TypeFacts, SeedIsNumber
<1>2. x.line \in [Kind -> Line] /\ x.has \in [Kind -> BOOLEAN]
  BY DEF Plain
<1>3. CASE Seeds(c, k)
  <2>1. y = Insert(x, k, 0, z, Capacity)
    BY <1>1, <1>3 DEF Seeds, With
  <2>2. y = Opened(x, k, z)
    BY <2>1, InsertFirst
  <2>3. 0 \in Frame
    BY Constants
  <2>4. y \in Plain
    BY <2>1, <2>3, InsertPlain
  <2>5. y = [line |-> [x.line EXCEPT ![k] = Sentinel(z)], has |-> [x.has EXCEPT ![k] = TRUE],
             dropped |-> x.dropped]
    BY <2>2 DEF Plain, Opened
  <2>6. y.line = [x.line EXCEPT ![k] = Sentinel(z)] /\ y.has = [x.has EXCEPT ![k] = TRUE]
    BY <2>5
  <2>7. y.line[k] = Sentinel(z) /\ y.has[k]
        /\ \A l \in Kind : l # k => y.line[l] = x.line[l] /\ y.has[l] = x.has[l]
    BY <2>6, <1>2
  <2>8. StartValue(c, k) = z
    BY <1>1, <1>3 DEF StartValue
  <2> QED BY <2>4, <2>7, <2>8, <1>3 DEF Begins
<1>4. CASE ~Seeds(c, k)
  <2>1. y = x /\ StartValue(c, k) = 0
    BY <1>4 DEF Seeds, With, StartValue
  <2> QED BY <2>1, <1>4 DEF Begins
<1> QED BY <1>3, <1>4

LEMMA SeededIs ==
  ASSUME Types, NEW c \in Chan
  PROVE  Seeded(c) \in Plain /\ Seeded(c).line = StartLine(c) /\ Seeded(c).has = StartHas(c)
<1>1. PICK first : first = IF "pitch" \in Kind THEN With(c, Fresh, "pitch") ELSE Fresh
  OBVIOUS
<1>2. PICK second : second = IF "pressure" \in Kind THEN With(c, first, "pressure") ELSE first
  OBVIOUS
<1>3. Seeded(c) = second
  BY <1>1, <1>2 DEF Seeded, With
<1>4. Fresh \in Plain
  BY FreshTypes
<1>5. \A k \in Kind : Fresh.line[k] = Sentinel(0) /\ ~Fresh.has[k]
  BY DEF Fresh
<1>6. "pitch" \in Kind => Begins(c, Fresh, first, "pitch")
  <2>1. CASE "pitch" \in Kind
    <3>1. first = With(c, Fresh, "pitch") /\ Fresh.line["pitch"] = Sentinel(0) /\ ~Fresh.has["pitch"]
      BY <2>1, <1>1, <1>5
    <3> QED BY <3>1, <2>1, <1>4, WithOne
  <2> QED BY <2>1
<1>7. first \in Plain /\ ("pressure" \in Kind => first.line["pressure"] = Sentinel(0) /\ ~first.has["pressure"])
  <2>1. CASE "pitch" \in Kind
    BY <2>1, <1>5, <1>6 DEF Begins
  <2>2. CASE "pitch" \notin Kind
    BY <2>2, <1>1, <1>4, <1>5
  <2> QED BY <2>1, <2>2
<1>8. "pressure" \in Kind => Begins(c, first, second, "pressure")
  <2>1. CASE "pressure" \in Kind
    <3>1. second = With(c, first, "pressure") /\ first.line["pressure"] = Sentinel(0)
          /\ ~first.has["pressure"]
      BY <2>1, <1>2, <1>7
    <3> QED BY <3>1, <2>1, <1>7, WithOne
  <2> QED BY <2>1
<1>9. second \in Plain
  <2>1. CASE "pressure" \in Kind
    BY <2>1, <1>8 DEF Begins
  <2>2. CASE "pressure" \notin Kind
    BY <2>2, <1>2, <1>7
  <2> QED BY <2>1, <2>2
<1>10. ASSUME NEW k \in Kind
       PROVE  second.line[k] = Sentinel(StartValue(c, k)) /\ (second.has[k] <=> Seeds(c, k))
  <2>1. k = "pitch" \/ k = "pressure"
    BY Constants
  <2>2. CASE k = "pressure"
    BY <2>2, <1>8 DEF Begins
  <2>3. CASE k = "pitch"
    <3>1. first.line[k] = Sentinel(StartValue(c, k)) /\ (first.has[k] <=> Seeds(c, k))
      BY <2>3, <1>6 DEF Begins
    <3>2. second.line[k] = first.line[k] /\ second.has[k] = first.has[k]
      <4>1. CASE "pressure" \in Kind
        <5>1. "pitch" # "pressure"
          OBVIOUS
        <5> QED BY <5>1, <4>1, <2>3, <1>8 DEF Begins
      <4>2. CASE "pressure" \notin Kind
        BY <4>2, <1>2
      <4> QED BY <4>1, <4>2
    <3> QED BY <3>1, <3>2
  <2> QED BY <2>1, <2>2, <2>3
<1>11. second.line \in [Kind -> Line] /\ second.has \in [Kind -> BOOLEAN]
  BY <1>9 DEF Plain
<1>12. second.line = StartLine(c)
  BY <1>10, <1>11 DEF StartLine
<1>13. second.has = StartHas(c)
  <2>1. \A k \in Kind : second.has[k] \in BOOLEAN /\ StartHas(c)[k] \in BOOLEAN
                        /\ (StartHas(c)[k] <=> Seeds(c, k))
    BY <1>11 DEF StartHas, Seeds
  <2>2. \A k \in Kind : second.has[k] = StartHas(c)[k]
    BY <2>1, <1>10
  <2>3. StartHas(c) = [k \in Kind |-> StartHas(c)[k]] /\ second.has = [k \in Kind |-> second.has[k]]
    BY <1>11 DEF StartHas
  <2> QED BY <2>2, <2>3
<1> QED BY <1>3, <1>9, <1>12, <1>13

LEMMA NoteOnTypes ==
  ASSUME Types, NEW c \in Chan, NEW s \in Slot, NEW d \in Frame, NoteOn(c, s, d)
  PROVE  Types'
<1>1. PICK g \in Nat : g = note[s].generation + 1
  BY TypeFacts
<1>2. PICK x \in Plain : x = Seeded(c) /\ x.line = StartLine(c) /\ x.has = StartHas(c)
  BY SeededIs
<1>3. \A k \in Kind : StartValue(c, k) \in Nat
  BY TypeFacts, SeedIsNumber DEF StartValue
<1>4. x.line \in [Kind -> Short] /\ x.has \in [Kind -> BOOLEAN]
  <2>1. StartLine(c) \in [Kind -> Short]
    BY <1>3, SentinelLine DEF StartLine
  <2> QED BY <2>1, <1>2 DEF Plain
<1>5. /\ note' = [note EXCEPT ![s] = [active |-> TRUE, generation |-> g, source |-> c]]
      /\ context' = [context EXCEPT ![s] = [generation |-> g, line |-> x.line,
                                            has |-> x.has, dropped |-> 0]]
      /\ voices' = voices \cup
           {[id |-> [slot |-> s, generation |-> g], source |-> c, zone |-> mpe,
             off |-> FALSE, behind |-> {}, frozen |-> [k \in Kind |-> <<>>],
             own |-> [k \in Kind |-> IF mpe /\ c # Manager THEN SeedOf(seed[c], k) ELSE Absent]]}
      /\ retired' = retired + context[s].dropped
      /\ UNCHANGED <<mpe, range, seed, broad>> /\ now' \in Frame
  BY <1>1, <1>2 DEF NoteOn, At
<1>6. note' \in [Slot -> Note]
  BY <1>1, <1>5 DEF Types, Note
<1>7. context' \in [Slot -> Owned]
  BY <1>1, <1>4, <1>5 DEF Types, Owned
<1>8. retired' \in Nat
  <2>1. context[s].dropped \in Nat
    BY TypeFacts DEF Owned
  <2> QED BY <2>1, <1>5 DEF Types
<1>9. voices' \subseteq Voice
  <2>1. [k \in Kind |-> IF mpe /\ c # Manager THEN SeedOf(seed[c], k) ELSE Absent] \in [Kind -> Nat]
    BY TypeFacts, SeedIsNumber, Constants
  <2>2. [id |-> [slot |-> s, generation |-> g], source |-> c, zone |-> mpe,
         off |-> FALSE, behind |-> {}, frozen |-> [k \in Kind |-> <<>>],
         own |-> [k \in Kind |-> IF mpe /\ c # Manager THEN SeedOf(seed[c], k) ELSE Absent]] \in Voice
    BY <2>1, <1>1, TypeFacts DEF Voice
  <2> QED BY <2>2, <1>5 DEF Types
<1> QED BY <1>5, <1>6, <1>7, <1>8, <1>9 DEF Types

(* What a voice keeps at the Note Off.                                     *)
Keeps(v, k) == v.frozen[k] = <<>> /\ Attached(v) /\ context[v.id.slot].has[k]
Prefix(v, k, d) == SubSeq(context[v.id.slot].line[k], 1, Earlier(context[v.id.slot].line[k], d + 1))

LEMMA FrozenVoice ==
  ASSUME Types, NEW v \in voices, NEW d \in Frame, NEW w, w = Frozen(v, d)
  PROVE  /\ w \in Voice /\ w.id = v.id /\ w.source = v.source /\ w.zone = v.zone /\ w.off
         /\ w.behind = v.behind /\ w.own = v.own
         /\ \A k \in Kind : w.frozen[k] = IF Keeps(v, k) THEN Prefix(v, k, d) ELSE v.frozen[k]
<1>1. v \in Voice /\ v.id.slot \in Slot
  BY TypeFacts
<1>2. PICK f : f = [k \in Kind |-> IF Keeps(v, k) THEN Prefix(v, k, d) ELSE v.frozen[k]]
  OBVIOUS
<1>3. w = [v EXCEPT !.off = TRUE, !.frozen = f]
  BY <1>2 DEF Frozen, Keeps, Prefix
<1>4. f \in [Kind -> Line \cup {<<>>}]
  <2>1. ASSUME NEW k \in Kind PROVE Prefix(v, k, d) \in Line
    <3>1. context[v.id.slot].line[k] \in Line /\ d \in Nat
      BY <1>1, TypeFacts, Constants DEF Owned, Short
    <3> QED BY <3>1, PrefixLine DEF Prefix
  <2>2. \A k \in Kind : v.frozen[k] \in Line \cup {<<>>}
    BY <1>1, VoiceFacts
  <2> QED BY <2>1, <2>2, <1>2
<1>5. w = [id |-> v.id, source |-> v.source, zone |-> v.zone, off |-> TRUE, behind |-> v.behind,
           frozen |-> f, own |-> v.own]
  BY <1>1, <1>3 DEF Voice
<1>6. w \in Voice
  BY <1>1, <1>4, <1>5, VoiceFacts DEF Voice
<1> QED BY <1>2, <1>5, <1>6

LEMMA NoteOffTypes ==
  ASSUME Types, NEW s \in Slot, NEW d \in Frame, NoteOff(s, d)
  PROVE  Types'
<1>1. voices' \subseteq Voice
  <2>1. \A v \in voices : Frozen(v, d) \in Voice
    BY FrozenVoice
  <2>2. voices' = {IF v.id = Id(s) THEN Frozen(v, d) ELSE v : v \in voices}
    BY DEF NoteOff
  <2> QED BY <2>1, <2>2, TypeFacts
<1>2. note' \in [Slot -> Note]
  <2>1. note' = [note EXCEPT ![s].active = FALSE] /\ note \in [Slot -> Note]
    BY DEF NoteOff, Types
  <2>2. [note[s] EXCEPT !.active = FALSE] \in Note
    BY <2>1 DEF Note
  <2> QED BY <2>1, <2>2 DEF Note
<1> QED BY <1>1, <1>2 DEF NoteOff, At, Types

LEMMA RescaledTypes ==
  ASSUME Types, NEW manager \in Nat, NEW member \in Nat
  PROVE  Rescaled(manager, member) \in [Chan -> Seed]
<1>1. ASSUME NEW c \in Chan, NEW r \in Nat PROVE [seed[c] EXCEPT !.pitch = seed[c].bend * r] \in Seed
  <2>1. seed[c] \in Seed /\ seed[c].bend \in Nat
    BY TypeFacts
  <2>2. PICK y \in Nat : y = seed[c].bend * r
    BY <2>1
  <2>3. [seed[c] EXCEPT !.pitch = y] \in Seed
    BY <2>1 DEF Seed
  <2> QED BY <2>2, <2>3
<1> QED BY <1>1, TypeFacts DEF Rescaled, Chan

LEMMA ReappliedTypes ==
  ASSUME Types, NEW d \in Frame, NEW seeds \in [Chan -> Seed], "pitch" \in Kind, Reapplied(d, seeds)
  PROVE  /\ context' \in [Slot -> Owned] /\ broad' \in [zone : Plain, global : Plain]
         /\ voices' \subseteq Voice
<1>1. \A c \in Chan : seeds[c].pitch \in Nat
  BY DEF Seed
<1>2. context' \in [Slot -> Owned]
  <2>1. \A s \in Slot : Insert(context[s], "pitch", d, seeds[note[s].source].pitch, Capacity) \in Owned
    BY <1>1, TypeFacts, InsertOwned
  <2> QED BY <2>1, TypeFacts DEF Reapplied
<1>3. broad' \in [zone : Plain, global : Plain]
  <2>1. broad \in [zone : Plain, global : Plain]
    BY DEF Types
  <2>2. PICK z \in Plain : z = Insert(broad.zone, "pitch", d, seeds[Manager].pitch, LastFrame + 2)
    BY <1>1, TypeFacts, InsertPlain, Constants
  <2>3. broad' = broad \/ broad' = [broad EXCEPT !.zone = z]
    BY <2>1, <2>2 DEF Reapplied
  <2> QED BY <2>1, <2>3
<1>4. voices' \subseteq Voice
  <2>1. ASSUME NEW v \in voices
        PROVE  Told(v, "pitch", seeds[v.source].pitch, d) \in Voice
    <3>1. PICK b \in SUBSET Kind : b = Loses(v, "pitch", d)
      BY TypeFacts, VoiceFacts DEF Loses
    <3>2. PICK x \in Nat : x = seeds[v.source].pitch
      BY <1>1, TypeFacts
    <3>3. ToldBut(v, "pitch", x, b) \in Voice
      BY TypeFacts, ToldVoice
    <3> QED BY <3>1, <3>2, <3>3 DEF Told, ToldBut, Loses
  <2>2. voices' = {IF mpe /\ v.source # Manager /\ ~v.off /\ seeds[v.source].bend # Absent
                   THEN Told(v, "pitch", seeds[v.source].pitch, d)
                   ELSE v : v \in voices}
    BY DEF Reapplied, Loses
  <2> QED BY <2>1, <2>2, TypeFacts
<1> QED BY <1>2, <1>3, <1>4

LEMMA RpnRangeTypes ==
  ASSUME Types, NEW c \in Chan, NEW r \in Ranges, NEW d \in Frame, RpnRange(c, r, d)
  PROVE  Types'
<1>1. range' \in [manager : Ranges, member : Ranges]
  BY DEF RpnRange, Types
<1>2. PICK seeds : /\ seeds = IF mpe THEN Rescaled(range'.manager, range'.member) ELSE seed
                   /\ seed' = seeds /\ Reapplied(d, seeds)
  BY DEF RpnRange
<1>3. range'.manager \in Nat /\ range'.member \in Nat
  BY <1>1, Constants
<1>4. seeds \in [Chan -> Seed]
  BY <1>2, <1>3, RescaledTypes DEF Types
<1>5. "pitch" \in Kind /\ now' \in Frame /\ UNCHANGED <<mpe, note, retired>>
  BY DEF RpnRange, At
<1>6. /\ context' \in [Slot -> Owned] /\ broad' \in [zone : Plain, global : Plain]
      /\ voices' \subseteq Voice
  BY <1>2, <1>4, <1>5, ReappliedTypes
<1> QED BY <1>1, <1>2, <1>4, <1>5, <1>6 DEF Types

LEMMA SetRangeTypes ==
  ASSUME Types, NEW manager \in Ranges, NEW member \in Ranges, SetRange(manager, member)
  PROVE  Types'
<1>1. range' \in [manager : Ranges, member : Ranges]
  BY DEF SetRange
<1>2. PICK seeds : seeds = Rescaled(manager, member) /\ seed' = seeds
  BY DEF SetRange
<1>3. seeds \in [Chan -> Seed] /\ 0 \in Frame
  BY <1>2, Constants, RescaledTypes
<1>4. Reapplied(0, seeds)
  BY <1>2, ZenonT(60) DEF SetRange, Reapplied
<1>5. "pitch" \in Kind /\ UNCHANGED <<mpe, note, retired, now>>
  BY DEF SetRange
<1>6. /\ context' \in [Slot -> Owned] /\ broad' \in [zone : Plain, global : Plain]
      /\ voices' \subseteq Voice
  BY <1>3, <1>4, <1>5, ReappliedTypes
<1> QED BY <1>1, <1>2, <1>3, <1>5, <1>6 DEF Types

(* A voice after a reset of the controllers.                               *)
Emptied(v) == [v EXCEPT !.own = [k \in Kind |-> Absent], !.behind = {}]

LEMMA EmptiedVoice ==
  ASSUME NEW v \in Voice, NEW w, w = Emptied(v)
  PROVE  /\ w \in Voice /\ w.id = v.id /\ w.source = v.source /\ w.zone = v.zone /\ w.off = v.off
         /\ w.frozen = v.frozen /\ w.behind = {} /\ \A k \in Kind : w.own[k] = Absent
<1>1. w = [id |-> v.id, source |-> v.source, zone |-> v.zone, off |-> v.off, behind |-> {},
           frozen |-> v.frozen, own |-> [k \in Kind |-> Absent]]
  BY DEF Voice, Emptied
<1>2. [k \in Kind |-> Absent] \in [Kind -> Nat]
  BY Constants
<1>3. w \in Voice
  BY <1>1, <1>2, VoiceFacts DEF Voice
<1> QED BY <1>1, <1>3

LEMMA ResetTypes ==
  ASSUME Types, ResetControllers
  PROVE  Types'
<1>1. seed' \in [Chan -> Seed]
  <2>1. NoSeed \in Seed
    BY Constants DEF NoSeed, Seed
  <2> QED BY <2>1 DEF ResetControllers, Chan
<1>2. context' \in [Slot -> Owned]
  <2>1. \A s \in Slot : context[s].generation \in Nat
    BY TypeFacts DEF Owned
  <2> QED BY <2>1, FreshTypes DEF ResetControllers, Owned
<1>3. broad' \in [zone : Plain, global : Plain]
  <2>1. "pitch" \in Kind => Insert(broad.global, "pitch", now, 0, LastFrame + 2) \in Plain
    BY TypeFacts, InsertPlain
  <2> QED BY <2>1, TypeFacts, FreshTypes DEF ResetControllers
<1>4. voices' \subseteq Voice
  <2>1. \A v \in voices : Emptied(v) \in Voice
    BY TypeFacts, EmptiedVoice
  <2>2. voices' = {IF v.off THEN v ELSE Emptied(v) : v \in voices}
    BY DEF ResetControllers, Emptied
  <2> QED BY <2>1, <2>2, TypeFacts
<1> QED BY <1>1, <1>2, <1>3, <1>4 DEF ResetControllers, Types

LEMMA SilencedTypes ==
  ASSUME Types, Silenced
  PROVE  voices' \subseteq Voice /\ note' \in [Slot -> Note]
<1>1. \A s \in Slot : [note[s] EXCEPT !.active = FALSE] \in Note
  <2>1. \A n \in Note : [n EXCEPT !.active = FALSE] \in Note
    BY DEF Note
  <2> QED BY <2>1, TypeFacts
<1> QED BY <1>1 DEF Silenced

LEMMA FlushedLine ==
  ASSUME NEW line \in Line
  PROVE  Last(line) \in Nat /\ Sentinel(Last(line)) \in Short /\ Sentinel(Last(line)) \in Line
<1>1. Last(line) \in Nat
  BY LineFacts DEF Last
<1> QED BY <1>1, SentinelLine DEF Short

(* A voice after a block.                                                  *)
Rested(v) == [v EXCEPT !.frozen = [k \in Kind |->
                IF v.frozen[k] = <<>> THEN <<>> ELSE Sentinel(Last(v.frozen[k]))]]

LEMMA RestedVoice ==
  ASSUME NEW v \in Voice, NEW w, w = Rested(v)
  PROVE  /\ w \in Voice /\ w.id = v.id /\ w.source = v.source /\ w.zone = v.zone /\ w.off = v.off
         /\ w.behind = v.behind /\ w.own = v.own
         /\ \A k \in Kind : w.frozen[k] = IF v.frozen[k] = <<>> THEN <<>> ELSE Sentinel(Last(v.frozen[k]))
<1>1. PICK f : f = [k \in Kind |-> IF v.frozen[k] = <<>> THEN <<>> ELSE Sentinel(Last(v.frozen[k]))]
  OBVIOUS
<1>2. w = [id |-> v.id, source |-> v.source, zone |-> v.zone, off |-> v.off, behind |-> v.behind,
           frozen |-> f, own |-> v.own]
  BY <1>1 DEF Voice, Rested
<1>3. f \in [Kind -> Line \cup {<<>>}]
  BY <1>1, VoiceFacts, FlushedLine
<1>4. w \in Voice
  BY <1>2, <1>3, VoiceFacts DEF Voice
<1> QED BY <1>1, <1>2, <1>4

LEMMA RenderTypes ==
  ASSUME Types, NEW ended \in SUBSET voices, Render(ended)
  PROVE  Types'
<1>1. ASSUME NEW c \in Owned PROVE [c EXCEPT !.line = Flushed(c).line] \in Owned
  <2>1. PICK l : l = [k \in Kind |-> Sentinel(Last(c.line[k]))]
    OBVIOUS
  <2>2. l \in [Kind -> Short]
    BY <2>1, FlushedLine DEF Owned, Short
  <2>3. Flushed(c).line = l
    BY <2>1 DEF Flushed, Owned
  <2>4. [c EXCEPT !.line = l] \in Owned
    BY <2>2 DEF Owned
  <2> QED BY <2>3, <2>4
<1>2. context' \in [Slot -> Owned]
  BY <1>1, TypeFacts DEF Render
<1>3. ASSUME NEW c \in Plain PROVE Flushed(c) \in Plain
  <2>1. PICK l : l = [k \in Kind |-> Sentinel(Last(c.line[k]))]
    OBVIOUS
  <2>2. l \in [Kind -> Line]
    BY <2>1, FlushedLine DEF Plain
  <2>3. [c EXCEPT !.line = l] \in Plain
    BY <2>2 DEF Plain
  <2> QED BY <2>1, <2>3 DEF Flushed
<1>4. broad' \in [zone : Plain, global : Plain]
  <2>1. broad \in [zone : Plain, global : Plain] /\ DOMAIN broad = {"zone", "global"}
    BY DEF Types
  <2>2. broad' = [zone |-> Flushed(broad.zone), global |-> Flushed(broad.global)]
    BY <2>1 DEF Render
  <2> QED BY <2>2, <1>3, TypeFacts
<1>5. voices' \subseteq Voice
  <2>1. voices' = {Rested(v) : v \in voices \ ended}
    BY DEF Render, Rested
  <2> QED BY <2>1, TypeFacts, RestedVoice
<1> QED BY <1>2, <1>4, <1>5, Constants DEF Render, Types

(* The steps of Next, each with what it is given.                          *)
Steps ==
  \/ \E c \in Chan, k \in Kind, x \in Nat, d \in Frame : Message(c, k, x, d)
  \/ \E c \in Chan, s \in Slot, d \in Frame : NoteOn(c, s, d)
  \/ \E c \in Chan, r \in Ranges, d \in Frame : RpnRange(c, r, d)
  \/ \E s \in Slot, d \in Frame : NoteOff(s, d)
  \/ \E manager, member \in Ranges : SetRange(manager, member)
  \/ \E on \in BOOLEAN : RpnMpe(on) \/ SetMpe(on)
  \/ ResetControllers \/ AllSoundOff
  \/ \E ended \in SUBSET voices : Render(ended)

LEMMA StepsOfNext == Next => Steps
<1>1. Bend \subseteq Nat /\ Press \subseteq Nat
  BY Constants
<1>2. ASSUME NEW c \in Member \cup {Manager}, NEW d \in Frame, NEW x \in Bend,
             "pitch" \in Kind, Message(c, "pitch", x, d)
      PROVE  Steps
  BY <1>1, <1>2 DEF Steps, Chan
<1>3. ASSUME NEW c \in Member \cup {Manager}, NEW d \in Frame, NEW x \in Press,
             "pressure" \in Kind, Message(c, "pressure", x, d)
      PROVE  Steps
  BY <1>1, <1>3 DEF Steps, Chan
<1> QED BY <1>2, <1>3 DEF Next, Steps, Chan

LEMMA NextTypes == Types /\ [Next]_vars => Types'
<1> SUFFICES ASSUME Types, [Next]_vars PROVE Types'
  OBVIOUS
<1>1. ASSUME NEW c \in Chan, NEW k \in Kind, NEW x \in Nat, NEW d \in Frame, Message(c, k, x, d)
      PROVE  Types'
  BY <1>1, MessageTypes
<1>2. ASSUME NEW c \in Chan, NEW s \in Slot, NEW d \in Frame, NoteOn(c, s, d) PROVE Types'
  BY <1>2, NoteOnTypes
<1>3. ASSUME NEW c \in Chan, NEW r \in Ranges, NEW d \in Frame, RpnRange(c, r, d) PROVE Types'
  BY <1>3, RpnRangeTypes
<1>4. ASSUME NEW s \in Slot, NEW d \in Frame, NoteOff(s, d) PROVE Types'
  BY <1>4, NoteOffTypes
<1>5. ASSUME NEW manager \in Ranges, NEW member \in Ranges, SetRange(manager, member) PROVE Types'
  BY <1>5, SetRangeTypes
<1>6. ASSUME NEW on \in BOOLEAN, RpnMpe(on) PROVE Types'
  BY <1>6 DEF RpnMpe, Types
<1>7. ASSUME NEW on \in BOOLEAN, SetMpe(on) PROVE Types'
  <2>1. voices' \subseteq Voice /\ note' \in [Slot -> Note]
    BY <1>7, SilencedTypes DEF SetMpe, Types
  <2> QED BY <2>1, <1>7 DEF SetMpe, Types
<1>8. ASSUME ResetControllers PROVE Types'
  BY <1>8, ResetTypes
<1>9. ASSUME AllSoundOff PROVE Types'
  <2>1. voices' \subseteq Voice /\ note' \in [Slot -> Note]
    BY <1>9, SilencedTypes DEF AllSoundOff
  <2> QED BY <2>1, <1>9 DEF AllSoundOff, Types
<1>10. ASSUME NEW ended \in SUBSET voices, Render(ended) PROVE Types'
  BY <1>10, RenderTypes
<1>11. CASE UNCHANGED vars
  BY <1>11 DEF vars, Types
<1>12. CASE Next
  <2>1. Steps
    BY <1>12, StepsOfNext
  <2> QED BY <2>1, <1>1, <1>2, <1>3, <1>4, <1>5, <1>6, <1>7, <1>8, <1>9, <1>10 DEF Steps
<1> QED BY <1>11, <1>12

LEMMA TypesHold == Spec => []Types
<1> QED BY InitTypes, NextTypes, PTL DEF Spec

(* Timelines start at the block's first frame, rise, and stay within their *)
(* capacity: in every context, and in what released voices have kept,      *)
(* whatever order the messages, resets and calls of the host come in.      *)
THEOREM TimelinesAreOrdered == Spec => []TimelinesOrdered
<1>1. Types => TimelinesOrdered
  <2> SUFFICES ASSUME Types PROVE TimelinesOrdered
    OBVIOUS
  <2>1. ASSUME NEW line \in Line PROVE Ordered(line)
    <3>1. line[1].at = 0 /\ Len(line) \in Nat
      BY LineFacts
    <3>2. ASSUME NEW i \in 1 .. Len(line) - 1 PROVE line[i].at < line[i + 1].at
      <4>1. i \in 1 .. Len(line) /\ i + 1 \in 1 .. Len(line) /\ i < i + 1
        BY <3>1
      <4> QED BY <4>1, LineFacts DEF Rises
    <3> QED BY <3>1, <3>2 DEF Ordered
  <2>2. \A s \in Slot, k \in Kind : context[s].line[k] \in Short
    BY TypeFacts DEF Owned
  <2>3. ASSUME NEW x \in Contexts, NEW k \in Kind PROVE x.line[k] \in Line
    <3>1. x \in {context[s] : s \in Slot} \/ x \in Plain
      BY TypeFacts DEF Contexts
    <3>2. CASE x \in {context[s] : s \in Slot}
      BY <3>2, <2>2 DEF Short
    <3>3. CASE x \in Plain
      BY <3>3 DEF Plain
    <3> QED BY <3>1, <3>2, <3>3
  <2>4. \A v \in voices, k \in Kind : v.frozen[k] # <<>> => v.frozen[k] \in Line
    BY TypeFacts, VoiceFacts
  <2> QED BY <2>1, <2>2, <2>3, <2>4 DEF TimelinesOrdered, Short
<1> QED BY <1>1, TypesHold, PTL

-----------------------------------------------------------------------------
(* What a voice hears.  Events of a block are not later than its latest    *)
(* offset; a held note's slot is its own; a voice hears what it was sent,  *)
(* and was sent what its member last sent.                                 *)

Behind == \A s \in Slot, k \in Kind : UpTo(context[s].line[k], now)
Aged == \A s \in Slot : context[s].generation = note[s].generation
InPlace(v) ==
  /\ v.id.generation <= note[v.id.slot].generation
  /\ ~v.off => /\ note[v.id.slot].active /\ note[v.id.slot].generation = v.id.generation
               /\ note[v.id.slot].source = v.source
               /\ \A k \in Kind : v.frozen[k] = <<>>
  /\ v.off => ~(note[v.id.slot].active /\ note[v.id.slot].generation = v.id.generation)
KeepsOwn(v) ==
  /\ \A k \in Kind : k \notin v.behind => Hears(v, k) = v.own[k]
  /\ v.behind # {} /\ ~v.off => context[v.id.slot].dropped > 0
FollowsSeed(v) ==
  v.zone /\ v.source # Manager /\ ~v.off => \A k \in Kind : v.own[k] = SeedOf(seed[v.source], k)

OwnInv ==
  /\ Types /\ Behind /\ Aged
  /\ \A v \in voices : InPlace(v) /\ KeepsOwn(v) /\ FollowsSeed(v)

LEMMA OwnFacts ==
  ASSUME OwnInv, NEW v \in voices
  PROVE  /\ Types /\ v \in Voice /\ v.id.slot \in Slot /\ v.off \in BOOLEAN /\ v.behind \in SUBSET Kind
         /\ InPlace(v) /\ KeepsOwn(v) /\ FollowsSeed(v)
         /\ context[v.id.slot] \in Owned /\ context[v.id.slot].generation = note[v.id.slot].generation
<1>1. Types /\ v \in Voice /\ v.id.slot \in Slot
  BY TypeFacts DEF OwnInv
<1>2. v.off \in BOOLEAN /\ v.behind \in SUBSET Kind
  BY <1>1, VoiceFacts
<1>3. context[v.id.slot] \in Owned
  BY <1>1, TypeFacts
<1>4. InPlace(v) /\ KeepsOwn(v) /\ FollowsSeed(v)
  BY DEF OwnInv
<1> QED BY <1>1, <1>2, <1>3, <1>4 DEF OwnInv, Aged

LEMMA HeldFacts ==
  ASSUME OwnInv, NEW v \in voices, ~v.off
  PROVE  /\ note[v.id.slot].active /\ note[v.id.slot].generation = v.id.generation
         /\ note[v.id.slot].source = v.source
         /\ \A k \in Kind : v.frozen[k] = <<>>
  BY OwnFacts DEF InPlace

(* A voice of which nothing changed but what is no longer its own.         *)
LEMMA HeardOn ==
  ASSUME OwnInv, NEW v \in voices, (note[v.id.slot])' = note[v.id.slot],
         \/ (context[v.id.slot])' = context[v.id.slot]
         \/ v.off /\ (context[v.id.slot])'.generation = context[v.id.slot].generation
  PROVE  InPlace(v)' /\ KeepsOwn(v)'
<1>1. InPlace(v) /\ KeepsOwn(v) /\ context[v.id.slot].generation = note[v.id.slot].generation
  BY OwnFacts
<1>2. InPlace(v)'
  BY <1>1 DEF InPlace
<1>3. ASSUME NEW k \in Kind PROVE Hears(v, k)' = Hears(v, k)
  <2>1. CASE (context[v.id.slot])' = context[v.id.slot]
    BY <2>1 DEF Hears, Attached
  <2>2. CASE v.off /\ (context[v.id.slot])'.generation = context[v.id.slot].generation
    <3>1. ~Attached(v) /\ ~Attached(v)'
      BY <2>2, <1>1 DEF InPlace, Attached
    <3> QED BY <3>1 DEF Hears
  <2> QED BY <2>1, <2>2
<1> QED BY <1>1, <1>2, <1>3 DEF KeepsOwn

(* A held voice that is told of a value.                                   *)
LEMMA HeardNow ==
  ASSUME OwnInv, NEW v \in voices, ~v.off, NEW k \in Kind, NEW d \in Frame, now <= d, NEW x \in Nat,
         note' = note, (context[v.id.slot])' = Insert(context[v.id.slot], k, d, x, Capacity),
         NEW w, w = Told(v, k, x, d)
  PROVE  InPlace(w)' /\ KeepsOwn(w)'
<1>1. PICK b \in SUBSET Kind : b = Loses(v, k, d)
  BY OwnFacts, VoiceFacts DEF Loses
<1>2. v \in Voice /\ w = ToldBut(v, k, x, b)
  BY <1>1, OwnFacts DEF Told, ToldBut, Loses
<1>3. /\ w.id = v.id /\ w.source = v.source /\ w.off = v.off /\ w.behind = b /\ w.frozen = v.frozen
      /\ w.own[k] = x /\ \A l \in Kind : l # k => w.own[l] = v.own[l]
  BY <1>2, ToldVoice
<1>4. PICK s \in Slot : s = v.id.slot
  BY OwnFacts
<1>5. PICK c \in Owned : c = context[s] /\ c.generation = note[s].generation
  BY <1>4, OwnFacts
<1>6. PICK e : e = Insert(c, k, d, x, Capacity) /\ context'[s] = e
  BY <1>4, <1>5
<1>7. /\ e.generation = c.generation
      /\ \A l \in Kind : l # k => e.line[l] = c.line[l] /\ e.has[l] = c.has[l]
      /\ Fits(c.line[k], d, Capacity) => e.has[k] /\ e.line[k] = Inserted(c.line[k], d, x)
      /\ e.dropped = IF Fits(c.line[k], d, Capacity) THEN c.dropped ELSE c.dropped + 1
  BY <1>6, InsertOwned
<1>8. /\ note[s].active /\ note[s].generation = v.id.generation /\ note[s].source = v.source
      /\ \A l \in Kind : v.frozen[l] = <<>>
  BY <1>4, HeldFacts
<1>9. InPlace(w)'
  BY <1>3, <1>4, <1>8, OwnFacts DEF InPlace
<1>10. ASSUME NEW l \in Kind, l \notin w.behind PROVE Hears(w, l)' = w.own[l]
  <2>1. l # k => l \notin v.behind
    BY <1>1, <1>3, <1>10 DEF Loses
  <2>10. l = k => Fits(c.line[k], d, Capacity)
    BY <1>1, <1>3, <1>4, <1>5, <1>10 DEF Loses
  <2>2. Attached(v) /\ Attached(w)'
    BY <1>3, <1>4, <1>5, <1>6, <1>7, <1>8 DEF Attached
  <2>3. Hears(w, l)' = IF e.has[l] THEN Last(e.line[l]) ELSE Absent
    BY <2>2, <1>3, <1>4, <1>6, <1>8 DEF Hears
  <2>4. Hears(v, l) = IF c.has[l] THEN Last(c.line[l]) ELSE Absent
    BY <2>2, <1>4, <1>5, <1>8 DEF Hears
  <2>5. CASE l = k
    <3>1. c.line[k] \in Line
      BY DEF Owned, Short
    <3>2. UpTo(c.line[k], d)
      <4>1. UpTo(c.line[k], now) /\ now \in Nat /\ d \in Nat
        BY <1>5, TypeFacts, Constants DEF OwnInv, Behind
      <4>2. \A i \in DOMAIN c.line[k] : c.line[k][i].at \in Nat
        BY <3>1, LineFacts
      <4> QED BY <4>1, <4>2 DEF UpTo
    <3>3. Last(Inserted(c.line[k], d, x)) = x
      BY <3>1, <3>2, InsertedLine
    <3> QED BY <3>3, <2>3, <2>5, <2>10, <1>3, <1>7
  <2>6. CASE l # k
    <3>1. Hears(v, l) = v.own[l]
      BY <2>1, <2>6, OwnFacts DEF KeepsOwn
    <3> QED BY <3>1, <2>3, <2>4, <2>6, <1>3, <1>7, ZenonT(60)
  <2> QED BY <2>5, <2>6, SMTT(40)
<1>11. w.behind # {} => e.dropped > 0
  <2>1. c.dropped \in Nat
    BY DEF Owned
  <2>2. CASE Fits(c.line[k], d, Capacity)
    <3>1. w.behind # {} => v.behind # {}
      BY <2>2, <1>1, <1>3, <1>4, <1>5 DEF Loses
    <3> QED BY <3>1, <2>2, <1>4, <1>5, <1>7, OwnFacts DEF KeepsOwn
  <2>3. CASE ~Fits(c.line[k], d, Capacity)
    BY <2>1, <2>3, <1>7
  <2> QED BY <2>2, <2>3
<1> QED BY <1>3, <1>4, <1>6, <1>9, <1>10, <1>11 DEF KeepsOwn

(* An insertion at the latest offset leaves no event behind it.            *)
LEMMA InsertBehind ==
  ASSUME OwnInv, NEW s \in Slot, NEW k \in Kind, NEW d \in Frame, now <= d, NEW x \in Nat, NEW l \in Kind
  PROVE  /\ UpTo(context[s].line[l], d)
         /\ UpTo(Insert(context[s], k, d, x, Capacity).line[l], d)
<1>1. PICK c \in Owned : c = context[s]
  BY TypeFacts DEF OwnInv
<1>2. PICK e : e = Insert(c, k, d, x, Capacity)
  OBVIOUS
<1>3. \A j \in Kind : UpTo(c.line[j], d) /\ c.line[j] \in Line
  <2>1. ASSUME NEW j \in Kind PROVE UpTo(c.line[j], d) /\ c.line[j] \in Line
    <3>1. c.line[j] \in Line
      BY DEF Owned, Short
    <3>2. UpTo(c.line[j], now) /\ now \in Nat /\ d \in Nat
      BY <1>1, TypeFacts, Constants DEF OwnInv, Behind
    <3>3. \A i \in DOMAIN c.line[j] : c.line[j][i].at \in Nat
      BY <3>1, LineFacts
    <3> QED BY <3>1, <3>2, <3>3 DEF UpTo
  <2> QED BY <2>1
<1>4. /\ l # k => e.line[l] = c.line[l]
      /\ Fits(c.line[k], d, Capacity) => e.line[k] = Inserted(c.line[k], d, x)
      /\ ~Fits(c.line[k], d, Capacity) => e.line = c.line
  BY <1>2, InsertOwned
<1>5. UpTo(Inserted(c.line[k], d, x), d)
  BY <1>3, InsertedLine
<1> QED BY <1>1, <1>2, <1>3, <1>4, <1>5

(* Later offsets, with no event.                                           *)
LEMMA StaysBehind ==
  ASSUME OwnInv, NEW d \in Frame, now <= d, NEW s \in Slot, NEW l \in Kind
  PROVE  UpTo(context[s].line[l], d)
  BY InsertBehind

LEMMA InsertGeneration ==
  ASSUME Types, NEW s \in Slot, NEW k \in Kind, NEW d \in Frame, NEW x \in Nat
  PROVE  Insert(context[s], k, d, x, Capacity).generation = context[s].generation
  BY TypeFacts, InsertOwned, SMTT(40)

(* What resolvePitch and resolvePressure keep for later notes.             *)
LEMMA KeptIs ==
  ASSUME Types, NEW c \in Chan, NEW k \in Kind, NEW x \in Nat
  PROVE  /\ \A e \in Chan : ~mpe \/ e # c => Kept(c, k, x)[e] = seed[e]
         /\ mpe /\ c # Manager =>
              /\ SeedOf(Kept(c, k, x)[c], k) = Resolved(c, k, x)
              /\ \A l \in Kind : l # k => SeedOf(Kept(c, k, x)[c], l) = SeedOf(seed[c], l)
<1>1. PICK y \in Nat : y = Resolved(c, k, x)
  BY ResolvedIsNumber
<1>2. seed \in [Chan -> Seed] /\ seed[c] \in Seed
  BY DEF Types
<1>3. CASE ~mpe
  BY <1>3 DEF Kept
<1>4. CASE mpe /\ k = "pitch"
  <2>1. Kept(c, k, x) = [seed EXCEPT ![c].bend = x, ![c].pitch = y]
    BY <1>1, <1>4 DEF Kept
  <2>2. \A e \in Chan : e # c => Kept(c, k, x)[e] = seed[e]
    BY <2>1, <1>2
  <2>3. Kept(c, k, x)[c].pitch = y /\ Kept(c, k, x)[c].pressure = seed[c].pressure
    BY <2>1, <1>2 DEF Seed
  <2> QED BY <2>2, <2>3, <1>1, <1>4 DEF SeedOf
<1>5. CASE mpe /\ k # "pitch"
  <2>1. k = "pressure" /\ y = x
    BY <1>1, <1>5, Constants DEF Resolved
  <2>2. CASE c = Manager
    <3>1. Kept(c, k, x) = seed
      BY <1>5, <2>2 DEF Kept
    <3> QED BY <3>1, <2>2
  <2>3. CASE c # Manager
    <3>1. Kept(c, k, x) = [seed EXCEPT ![c].pressure = x]
      BY <1>5, <2>3 DEF Kept
    <3>2. \A e \in Chan : e # c => Kept(c, k, x)[e] = seed[e]
      BY <3>1, <1>2
    <3>3. Kept(c, k, x)[c].pressure = x /\ Kept(c, k, x)[c].pitch = seed[c].pitch
      BY <3>1, <1>2 DEF Seed
    <3>4. \A l \in Kind : l # k => l = "pitch"
      BY <2>1, Constants
    <3>5. SeedOf(Kept(c, k, x)[c], k) = Resolved(c, k, x)
      BY <3>3, <2>1, <1>1 DEF SeedOf
    <3>6. \A l \in Kind : l # k => SeedOf(Kept(c, k, x)[c], l) = SeedOf(seed[c], l)
      BY <3>3, <3>4 DEF SeedOf
    <3> QED BY <3>2, <3>5, <3>6, <1>5
  <2> QED BY <2>2, <2>3
<1> QED BY <1>3, <1>4, <1>5

LEMMA MessageOwn ==
  ASSUME OwnInv, NEW c \in Chan, NEW k \in Kind, NEW x \in Nat, NEW d \in Frame, Message(c, k, x, d)
  PROVE  OwnInv'
<1>0. Types'
  BY MessageTypes DEF OwnInv
<1>1. now <= d /\ now' = d /\ note' = note /\ seed' = Kept(c, k, x)
  <2>1. now \in Nat /\ d \in Nat
    BY TypeFacts, Constants DEF OwnInv
  <2> QED BY <2>1 DEF Message, At
<1>2. CASE mpe /\ c # Manager
  <2>1. PICK y \in Nat : y = Resolved(c, k, x)
    BY ResolvedIsNumber DEF OwnInv
  <2>2. context' = Broadcast(context, c, k, d, y) /\ voices' = {IF v.source = c /\ ~v.off THEN Told(v, k, y, d) ELSE v : v \in voices}
    BY <1>2, <2>1 DEF Message
  <2>3. \A s \in Slot : context'[s] = IF OfMember(s, c) THEN Insert(context[s], k, d, y, Capacity)
                                      ELSE context[s]
    BY <2>2 DEF Broadcast
  <2>4. Behind'
    BY <2>3, <1>1, InsertBehind DEF Behind
  <2>5. \A s \in Slot : context'[s].generation = context[s].generation
    BY <2>3, InsertGeneration DEF OwnInv
  <2>6. Aged'
    BY <2>5, <1>1 DEF OwnInv, Aged
  <2>7. ASSUME NEW w \in voices' PROVE InPlace(w)' /\ KeepsOwn(w)' /\ FollowsSeed(w)'
    <3>1. PICK v \in voices : w = IF v.source = c /\ ~v.off
                                  THEN Told(v, k, y, d) ELSE v
      BY <2>2
    <3>2. v \in Voice /\ v.id.slot \in Slot /\ v.off \in BOOLEAN /\ FollowsSeed(v)
      BY OwnFacts
    <3>3. CASE v.source = c /\ ~v.off
      <4>1. w = Told(v, k, y, d)
        BY <3>1, <3>3
      <4>2. OfMember(v.id.slot, c)
        BY <3>3, HeldFacts DEF OfMember
      <4>3. (context[v.id.slot])' = Insert(context[v.id.slot], k, d, y, Capacity)
        BY <4>2, <3>2, <2>3
      <4>4. InPlace(w)' /\ KeepsOwn(w)'
        BY <4>1, <4>3, <3>3, <1>1, HeardNow
      <4>5. /\ w.source = c /\ w.zone = v.zone /\ w.off = v.off /\ w.own[k] = y
            /\ \A l \in Kind : l # k => w.own[l] = v.own[l]
        <5>1. PICK b \in SUBSET Kind : b = Loses(v, k, d)
          BY <3>2, VoiceFacts DEF Loses
        <5>2. w = ToldBut(v, k, y, b)
          BY <4>1, <5>1 DEF Told, ToldBut, Loses
        <5> QED BY <5>1, <5>2, <3>2, <3>3, ToldVoice
      <4>6. /\ SeedOf(seed'[c], k) = y
            /\ \A l \in Kind : l # k => SeedOf(seed'[c], l) = SeedOf(seed[c], l)
        BY <1>1, <1>2, <2>1, KeptIs DEF OwnInv
      <4>7. FollowsSeed(w)'
        <5>1. ASSUME w.zone, NEW l \in Kind PROVE w.own[l] = SeedOf(seed'[c], l)
          <6>1. v.own[l] = SeedOf(seed[c], l)
            BY <5>1, <4>5, <3>2, <3>3, <1>2 DEF FollowsSeed
          <6> QED BY <6>1, <4>5, <4>6
        <5> QED BY <5>1, <4>5 DEF FollowsSeed
      <4> QED BY <4>4, <4>7
    <3>4. CASE v.source # c \/ v.off
      <4>1. w = v
        BY <3>1, <3>4
      <4>2. \/ (context[v.id.slot])' = context[v.id.slot]
            \/ v.off /\ (context[v.id.slot])'.generation = context[v.id.slot].generation
        <5>1. CASE v.off
          BY <5>1, <3>2, <2>5
        <5>2. CASE ~v.off
          <6>1. ~OfMember(v.id.slot, c)
            BY <5>2, <3>4, HeldFacts DEF OfMember
          <6> QED BY <6>1, <3>2, <2>3
        <5> QED BY <5>1, <5>2
      <4>3. InPlace(v)' /\ KeepsOwn(v)'
        BY <4>2, <1>1, HeardOn
      <4>4. v.source # c => seed'[v.source] = seed[v.source]
        BY <1>1, <3>2, VoiceFacts, KeptIs DEF OwnInv
      <4>5. FollowsSeed(v)'
        BY <4>4, <3>2, <3>4 DEF FollowsSeed
      <4> QED BY <4>1, <4>3, <4>5
    <3> QED BY <3>2, <3>3, <3>4
  <2> QED BY <1>0, <2>4, <2>6, <2>7 DEF OwnInv
<1>3. CASE ~(mpe /\ c # Manager)
  <2>1. UNCHANGED <<context, voices>>
    BY <1>3 DEF Message
  <2>2. Behind'
    BY <2>1, <1>1, StaysBehind DEF Behind
  <2>3. Aged'
    BY <2>1, <1>1 DEF OwnInv, Aged
  <2>4. ASSUME NEW v \in voices PROVE InPlace(v)' /\ KeepsOwn(v)' /\ FollowsSeed(v)'
    <3>1. InPlace(v)' /\ KeepsOwn(v)'
      BY <2>1, <1>1, HeardOn
    <3>2. v.source # Manager => seed'[v.source] = seed[v.source]
      BY <1>1, <1>3, TypeFacts, KeptIs DEF OwnInv
    <3>3. FollowsSeed(v)'
      BY <3>2, OwnFacts DEF FollowsSeed
    <3> QED BY <3>1, <3>3
  <2> QED BY <1>0, <2>1, <2>2, <2>3, <2>4 DEF OwnInv
<1> QED BY <1>2, <1>3

LEMMA FirstBehind ==
  ASSUME NEW x \in Nat, NEW d \in Nat
  PROVE  UpTo(Sentinel(x), d)
<1>1. UpTo(Sentinel(x), 0) /\ \A i \in DOMAIN Sentinel(x) : Sentinel(x)[i].at = 0
  BY SentinelLine DEF Sentinel
<1> QED BY <1>1 DEF UpTo

LEMMA NoteOnOwn ==
  ASSUME OwnInv, NEW c \in Chan, NEW s \in Slot, NEW d \in Frame, NoteOn(c, s, d)
  PROVE  OwnInv'
<1>0. Types'
  BY NoteOnTypes DEF OwnInv
<1>1. PICK g \in Nat : g = note[s].generation + 1
  BY TypeFacts DEF OwnInv
<1>2. PICK x \in Plain : x = Seeded(c) /\ x.line = StartLine(c) /\ x.has = StartHas(c)
  BY SeededIs DEF OwnInv
<1>3. PICK new : new = [id |-> [slot |-> s, generation |-> g], source |-> c, zone |-> mpe,
                        off |-> FALSE, behind |-> {}, frozen |-> [k \in Kind |-> <<>>],
                        own |-> [k \in Kind |-> IF mpe /\ c # Manager THEN SeedOf(seed[c], k) ELSE Absent]]
  OBVIOUS
<1>4. /\ note' = [note EXCEPT ![s] = [active |-> TRUE, generation |-> g, source |-> c]]
      /\ context' = [context EXCEPT ![s] = [generation |-> g, line |-> x.line,
                                            has |-> x.has, dropped |-> 0]]
      /\ voices' = voices \cup {new} /\ ~note[s].active
      /\ now' = d /\ d >= now /\ seed' = seed
  BY <1>1, <1>2, <1>3 DEF NoteOn, At
<1>5. note \in [Slot -> Note] /\ context \in [Slot -> Owned] /\ now \in Nat /\ d \in Nat /\ now <= d
  BY <1>4, TypeFacts, Constants DEF OwnInv, Types
<1>6. /\ note'[s] = [active |-> TRUE, generation |-> g, source |-> c]
      /\ context'[s].generation = g /\ context'[s].line = x.line /\ context'[s].has = x.has
      /\ \A t \in Slot : t # s => note'[t] = note[t] /\ context'[t] = context[t]
  BY <1>4, <1>5
<1>7. \A k \in Kind : StartValue(c, k) \in Nat
  BY TypeFacts, SeedIsNumber DEF StartValue, OwnInv
<1>8. Behind'
  <2>1. ASSUME NEW t \in Slot, NEW k \in Kind PROVE UpTo(context'[t].line[k], d)
    <3>1. CASE t = s
      <4>1. context'[t].line[k] = Sentinel(StartValue(c, k))
        BY <3>1, <1>2, <1>6 DEF StartLine
      <4> QED BY <4>1, <1>5, <1>7, FirstBehind
    <3>2. CASE t # s
      BY <3>2, <1>5, <1>6, StaysBehind
    <3> QED BY <3>1, <3>2
  <2> QED BY <2>1, <1>4 DEF Behind
<1>9. Aged'
  BY <1>6 DEF OwnInv, Aged
<1>10. InPlace(new)' /\ KeepsOwn(new)' /\ FollowsSeed(new)'
  <2>1. /\ new.id.slot = s /\ new.id.generation = g /\ new.source = c /\ new.zone = mpe /\ ~new.off
        /\ new.behind = {}
        /\ \A k \in Kind : new.frozen[k] = <<>>
        /\ \A k \in Kind : new.own[k] = IF mpe /\ c # Manager THEN SeedOf(seed[c], k) ELSE Absent
    BY <1>3
  <2>2. InPlace(new)'
    BY <2>1, <1>1, <1>6 DEF InPlace
  <2>3. ASSUME NEW k \in Kind PROVE Hears(new, k)' = new.own[k]
    <3>1. Attached(new)'
      BY <2>1, <1>6 DEF Attached
    <3>2. context'[s].line[k] = Sentinel(StartValue(c, k)) /\ (context'[s].has[k] <=> Seeds(c, k))
      BY <1>2, <1>6 DEF StartLine, StartHas
    <3>3. Last(context'[s].line[k]) = StartValue(c, k)
      BY <3>2, <1>7, SentinelLine
    <3>4. Hears(new, k)' = IF Seeds(c, k) THEN StartValue(c, k) ELSE Absent
      BY <3>1, <3>2, <3>3, <2>1 DEF Hears
    <3> QED BY <3>4, <2>1 DEF Seeds, StartValue
  <2>4. FollowsSeed(new)'
    BY <2>1, <1>4 DEF FollowsSeed
  <2> QED BY <2>1, <2>2, <2>3, <2>4 DEF KeepsOwn
<1>11. ASSUME NEW v \in voices PROVE InPlace(v)' /\ KeepsOwn(v)' /\ FollowsSeed(v)'
  <2>1. v.id.slot \in Slot /\ v \in Voice /\ v.off \in BOOLEAN /\ InPlace(v) /\ KeepsOwn(v)
    BY OwnFacts
  <2>2. CASE v.id.slot = s
    <3>1. v.off
      BY <2>1, <2>2, <1>4 DEF InPlace
    <3>2. v.id.generation \in Nat /\ note[s].generation \in Nat
      BY <2>1, VoiceFacts, TypeFacts DEF OwnInv
    <3>3. v.id.generation <= g /\ v.id.generation # g
      BY <3>2, <2>1, <2>2, <1>1 DEF InPlace
    <3>4. InPlace(v)'
      BY <3>1, <3>3, <2>2, <1>6 DEF InPlace
    <3>5. ~Attached(v) /\ ~Attached(v)'
      BY <3>3, <2>2, <1>4, <1>6 DEF Attached
    <3>6. \A k \in Kind : Hears(v, k)' = Hears(v, k)
      BY <3>5 DEF Hears
    <3> QED BY <3>1, <3>4, <3>6, <2>1 DEF KeepsOwn, FollowsSeed
  <2>3. CASE v.id.slot # s
    <3>1. (note[v.id.slot])' = note[v.id.slot] /\ (context[v.id.slot])' = context[v.id.slot]
      BY <2>1, <2>3, <1>6
    <3>2. InPlace(v)' /\ KeepsOwn(v)'
      BY <3>1, HeardOn
    <3> QED BY <3>2, <1>4, OwnFacts DEF FollowsSeed
  <2> QED BY <2>2, <2>3
<1> QED BY <1>0, <1>4, <1>8, <1>9, <1>10, <1>11 DEF OwnInv

LEMMA NoteOffOwn ==
  ASSUME OwnInv, NEW s \in Slot, NEW d \in Frame, NoteOff(s, d)
  PROVE  OwnInv'
<1>0. Types'
  BY NoteOffTypes DEF OwnInv
<1>1. /\ note[s].active /\ now' = d /\ d >= now /\ note' = [note EXCEPT ![s].active = FALSE]
      /\ voices' = {IF v.id = Id(s) THEN Frozen(v, d) ELSE v : v \in voices}
      /\ context' = context /\ seed' = seed
  BY DEF NoteOff, At
<1>2. note \in [Slot -> Note] /\ now \in Nat /\ d \in Nat /\ now <= d
  BY <1>1, TypeFacts, Constants DEF OwnInv, Types
<1>3. /\ ~note'[s].active /\ note'[s].generation = note[s].generation
      /\ \A t \in Slot : t # s => note'[t] = note[t]
  BY <1>1, <1>2 DEF Note
<1>4. Behind'
  BY <1>1, <1>2, StaysBehind DEF Behind
<1>5. Aged'
  BY <1>1, <1>3 DEF OwnInv, Aged
<1>6. ASSUME NEW v \in voices, v.id = Id(s), NEW w, w = Frozen(v, d)
      PROVE  InPlace(w)' /\ KeepsOwn(w)' /\ FollowsSeed(w)'
  <2>1. v.id.slot = s /\ v.id.generation = note[s].generation
    BY <1>6 DEF Id
  <2>2. /\ w.id = v.id /\ w.off /\ w.behind = v.behind /\ w.own = v.own
        /\ \A k \in Kind : w.frozen[k] = IF Keeps(v, k) THEN Prefix(v, k, d) ELSE v.frozen[k]
    BY <1>6, FrozenVoice DEF OwnInv
  <2>3. /\ InPlace(v) /\ v.off \in BOOLEAN /\ context[s] \in Owned /\ KeepsOwn(v)
        /\ context[s].generation = note[s].generation
    BY <2>1, OwnFacts
  <2>4. ~v.off /\ \A k \in Kind : v.frozen[k] = <<>>
    BY <2>1, <2>3, <1>1 DEF InPlace
  <2>5. InPlace(w)'
    BY <2>1, <2>2, <2>3, <1>3 DEF InPlace
  <2>6. ASSUME NEW k \in Kind PROVE Hears(w, k)' = Hears(v, k)
    <3>1. Attached(v) /\ ~Attached(w)'
      BY <2>1, <2>2, <2>3, <1>1, <1>3 DEF Attached
    <3>2. CASE context[s].has[k]
      <4>1. context[s].line[k] \in Line
        BY <2>3 DEF Owned, Short
      <4>2. UpTo(context[s].line[k], d)
        BY <1>2, StaysBehind
      <4>3. Prefix(v, k, d) = context[s].line[k]
        BY <4>1, <4>2, <2>1, <1>2, PrefixLine DEF Prefix
      <4>4. w.frozen[k] = context[s].line[k] /\ context[s].line[k] # <<>>
        BY <4>1, <4>3, <3>1, <3>2, <2>1, <2>2, <2>4 DEF Keeps, Line
      <4> QED BY <4>4, <3>1, <3>2, <2>1, <2>4 DEF Hears
    <3>3. CASE ~context[s].has[k]
      <4>1. w.frozen[k] = <<>>
        BY <3>3, <2>1, <2>2, <2>4 DEF Keeps
      <4> QED BY <4>1, <3>1, <3>3, <2>1, <2>4 DEF Hears
    <3> QED BY <3>2, <3>3
  <2>7. KeepsOwn(w)'
    BY <2>2, <2>3, <2>6 DEF KeepsOwn
  <2> QED BY <2>2, <2>5, <2>7 DEF FollowsSeed
<1>7. ASSUME NEW v \in voices, v.id # Id(s)
      PROVE  InPlace(v)' /\ KeepsOwn(v)' /\ FollowsSeed(v)'
  <2>1. v.id.slot \in Slot /\ v \in Voice /\ v.off \in BOOLEAN /\ InPlace(v) /\ KeepsOwn(v)
    BY OwnFacts
  <2>2. CASE v.id.slot = s
    <3>1. v.id = [slot |-> v.id.slot, generation |-> v.id.generation]
      BY <2>1, VoiceFacts
    <3>2. v.id.generation # note[s].generation
      BY <3>1, <2>2, <1>7 DEF Id
    <3>3. v.off
      BY <3>2, <2>1, <2>2 DEF InPlace
    <3>4. InPlace(v)'
      BY <3>3, <2>1, <2>2, <1>3 DEF InPlace
    <3>5. ~Attached(v) /\ ~Attached(v)'
      BY <3>2, <2>2, <1>3, OwnFacts DEF Attached
    <3>6. \A k \in Kind : Hears(v, k)' = Hears(v, k)
      BY <3>5 DEF Hears
    <3> QED BY <3>3, <3>4, <3>6, <2>1 DEF KeepsOwn, FollowsSeed
  <2>3. CASE v.id.slot # s
    <3>1. (note[v.id.slot])' = note[v.id.slot] /\ (context[v.id.slot])' = context[v.id.slot]
      BY <2>1, <2>3, <1>1, <1>3
    <3>2. InPlace(v)' /\ KeepsOwn(v)'
      BY <3>1, HeardOn
    <3> QED BY <3>2, <1>1, OwnFacts DEF FollowsSeed
  <2> QED BY <2>2, <2>3
<1>8. ASSUME NEW w \in voices' PROVE InPlace(w)' /\ KeepsOwn(w)' /\ FollowsSeed(w)'
  <2>1. PICK v \in voices : w = IF v.id = Id(s) THEN Frozen(v, d) ELSE v
    BY <1>1
  <2>2. CASE v.id = Id(s)
    BY <2>1, <2>2, <1>6
  <2>3. CASE v.id # Id(s)
    BY <2>1, <2>3, <1>7
  <2> QED BY <2>2, <2>3
<1> QED BY <1>0, <1>4, <1>5, <1>8 DEF OwnInv

(* A bend that was sent is sent again in the new range, to all who had it. *)
Rescales(seeds) ==
  /\ \A e \in Chan : seeds[e].pressure = seed[e].pressure
  /\ \A e \in Chan : seeds[e].bend = Absent => seeds[e].pitch = seed[e].pitch
  /\ ~mpe => seeds = seed

LEMMA RescaledIs ==
  ASSUME Types, NEW manager \in Nat, NEW member \in Nat, mpe
  PROVE  Rescales(Rescaled(manager, member))
<1>1. ASSUME NEW e \in Chan, NEW q, q = Rescaled(manager, member)[e]
      PROVE  q.pressure = seed[e].pressure /\ (q.bend = Absent => q.pitch = seed[e].pitch)
  <2>1. PICK y : y = seed[e].bend * (IF e = Manager THEN manager ELSE member)
    OBVIOUS
  <2>2. q = IF seed[e].bend = Absent THEN seed[e] ELSE [seed[e] EXCEPT !.pitch = y]
    BY <1>1, <2>1 DEF Rescaled, Chan
  <2>3. seed[e] \in Seed
    BY TypeFacts
  <2> QED BY <2>2, <2>3 DEF Seed
<1> QED BY <1>1 DEF Rescales

LEMMA ReappliedOwn ==
  ASSUME OwnInv, Types', NEW d \in Frame, now <= d, now' = d, note' = note, "pitch" \in Kind,
         NEW seeds \in [Chan -> Seed], Rescales(seeds), seed' = seeds, Reapplied(d, seeds)
  PROVE  OwnInv'
<1> DEFINE Tells(c) == mpe /\ c # Manager /\ seeds[c].bend # Absent
<1>1. \A c \in Chan : seeds[c].pitch \in Nat
  BY DEF Seed
<1>2. \A s \in Slot : context'[s] = IF note[s].active /\ Tells(note[s].source)
                                    THEN Insert(context[s], "pitch", d, seeds[note[s].source].pitch, Capacity)
                                    ELSE context[s]
  BY ZenonT(60) DEF Reapplied
<1>3. voices' = {IF Tells(v.source) /\ ~v.off
                 THEN Told(v, "pitch", seeds[v.source].pitch, d) ELSE v : v \in voices}
  <2>1. \A v \in voices :
          (IF mpe /\ v.source # Manager /\ ~v.off /\ seeds[v.source].bend # Absent
           THEN Told(v, "pitch", seeds[v.source].pitch, d) ELSE v)
          = IF Tells(v.source) /\ ~v.off
            THEN Told(v, "pitch", seeds[v.source].pitch, d) ELSE v
    OBVIOUS
  <2> HIDE DEF Tells
  <2> QED BY <2>1 DEF Reapplied
<1>4. \A s \in Slot : note[s].source \in Chan
  BY TypeFacts DEF OwnInv
<1>5. Behind'
  BY <1>1, <1>2, <1>4, InsertBehind DEF Behind
<1>6. \A s \in Slot : context'[s].generation = context[s].generation
  BY <1>1, <1>2, <1>4, InsertGeneration DEF OwnInv
<1>7. Aged'
  BY <1>6 DEF OwnInv, Aged
<1>8. ASSUME NEW v \in voices, NEW w,
             w = IF Tells(v.source) /\ ~v.off
                 THEN Told(v, "pitch", seeds[v.source].pitch, d) ELSE v
      PROVE  InPlace(w)' /\ KeepsOwn(w)' /\ FollowsSeed(w)'
  <2>1. v \in Voice /\ v.id.slot \in Slot /\ v.off \in BOOLEAN /\ FollowsSeed(v) /\ v.source \in Chan
    BY OwnFacts, VoiceFacts
  <2>2. CASE Tells(v.source) /\ ~v.off
    <3>1. PICK x \in Nat : x = seeds[v.source].pitch
      BY <1>1, <2>1
    <3>2. w = Told(v, "pitch", x, d)
      BY <3>1, <2>2, <1>8
    <3>3. (context[v.id.slot])' = Insert(context[v.id.slot], "pitch", d, x, Capacity)
      BY <3>1, <2>1, <2>2, <1>2, HeldFacts
    <3>4. InPlace(w)' /\ KeepsOwn(w)'
      BY <3>2, <3>3, <2>2, HeardNow
    <3>5. /\ w.source = v.source /\ w.zone = v.zone /\ w.off = v.off /\ w.own["pitch"] = x
          /\ \A l \in Kind : l # "pitch" => w.own[l] = v.own[l]
      <4>1. PICK b \in SUBSET Kind : b = Loses(v, "pitch", d)
        BY <2>1, VoiceFacts DEF Loses
      <4>2. w = ToldBut(v, "pitch", x, b)
        BY <4>1, <3>2 DEF Told, ToldBut, Loses
      <4>3. PICK k \in Kind : k = "pitch"
        OBVIOUS
      <4>4. w = ToldBut(v, k, x, b)
        BY <4>2, <4>3
      <4>5. /\ w.source = v.source /\ w.zone = v.zone /\ w.off = v.off /\ w.own[k] = x
            /\ \A l \in Kind : l # k => w.own[l] = v.own[l]
        BY <4>4, <2>1, ToldVoice
      <4> QED BY <4>3, <4>5
    <3>6. FollowsSeed(w)'
      <4>1. ASSUME w.zone, w.source # Manager, NEW l \in Kind PROVE w.own[l] = SeedOf(seeds[w.source], l)
        <5>1. CASE l = "pitch"
          BY <5>1, <3>1, <3>5 DEF SeedOf
        <5>2. CASE l # "pitch"
          <6>1. v.own[l] = SeedOf(seed[v.source], l)
            BY <4>1, <3>5, <2>1, <2>2 DEF FollowsSeed
          <6> QED BY <6>1, <5>2, <3>5, <2>1 DEF SeedOf, Rescales
        <5> QED BY <5>1, <5>2
      <4> QED BY <4>1 DEF FollowsSeed
    <3> QED BY <3>4, <3>6
  <2>3. CASE ~(Tells(v.source) /\ ~v.off)
    <3>1. w = v
      BY <2>3, <1>8
    <3>2. \/ (context[v.id.slot])' = context[v.id.slot]
          \/ v.off /\ (context[v.id.slot])'.generation = context[v.id.slot].generation
      <4>1. CASE v.off
        BY <4>1, <2>1, <1>6
      <4>2. CASE ~v.off
        BY <4>2, <2>1, <2>3, <1>2, HeldFacts
      <4> QED BY <4>1, <4>2, <2>1
    <3>3. InPlace(v)' /\ KeepsOwn(v)'
      BY <3>2, HeardOn
    <3>4. ASSUME v.zone, v.source # Manager, ~v.off, NEW l \in Kind
          PROVE  v.own[l] = SeedOf(seeds[v.source], l)
      <4>1. v.own[l] = SeedOf(seed[v.source], l)
        BY <3>4, <2>1 DEF FollowsSeed
      <4>2. seeds[v.source].pitch = seed[v.source].pitch
        BY <3>4, <2>1, <2>3 DEF Rescales
      <4>3. seeds[v.source].pressure = seed[v.source].pressure
        BY <2>1 DEF Rescales
      <4> QED BY <4>1, <4>2, <4>3 DEF SeedOf
    <3>5. FollowsSeed(v)'
      BY <3>4 DEF FollowsSeed
    <3> QED BY <3>1, <3>3, <3>5
  <2> QED BY <2>2, <2>3
<1> HIDE DEF Tells
<1>9. ASSUME NEW w \in voices' PROVE InPlace(w)' /\ KeepsOwn(w)' /\ FollowsSeed(w)'
  BY <1>3, <1>8
<1> QED BY <1>5, <1>7, <1>9 DEF OwnInv

LEMMA RpnRangeOwn ==
  ASSUME OwnInv, NEW c \in Chan, NEW r \in Ranges, NEW d \in Frame, RpnRange(c, r, d)
  PROVE  OwnInv'
<1>1. Types /\ Types'
  BY RpnRangeTypes DEF OwnInv
<1>2. PICK seeds : /\ seeds = IF mpe THEN Rescaled(range'.manager, range'.member) ELSE seed
                   /\ seed' = seeds /\ Reapplied(d, seeds)
  BY DEF RpnRange
<1>3. range'.manager \in Nat /\ range'.member \in Nat
  BY <1>1, Constants DEF Types
<1>4. seeds \in [Chan -> Seed]
  BY <1>1, <1>2 DEF Types
<1>5. Rescales(seeds)
  <2>1. CASE mpe
    BY <2>1, <1>1, <1>2, <1>3, RescaledIs
  <2>2. CASE ~mpe
    BY <2>2, <1>2 DEF Rescales
  <2> QED BY <2>1, <2>2
<1>6. "pitch" \in Kind /\ now' = d /\ d >= now /\ note' = note
  BY DEF RpnRange, At
<1>7. now <= d
  BY <1>1, <1>6, TypeFacts, Constants
<1> QED BY <1>1, <1>2, <1>4, <1>5, <1>6, <1>7, ReappliedOwn

LEMMA SetRangeOwn ==
  ASSUME OwnInv, CallsBetween, NEW manager \in Ranges, NEW member \in Ranges, SetRange(manager, member)
  PROVE  OwnInv'
<1>1. Types /\ Types'
  BY SetRangeTypes DEF OwnInv
<1>2. PICK seeds : seeds = Rescaled(manager, member) /\ seed' = seeds
  BY DEF SetRange
<1>3. Reapplied(0, seeds)
  BY <1>2, ZenonT(60) DEF SetRange, Reapplied
<1>4. now = 0 /\ mpe /\ now' = now /\ note' = note /\ "pitch" \in Kind
  BY DEF SetRange
<1>5. seeds \in [Chan -> Seed] /\ Rescales(seeds) /\ 0 \in Frame
  BY <1>1, <1>2, <1>4, RescaledIs, Constants DEF Types
<1>6. now <= 0
  BY <1>4
<1> QED BY <1>1, <1>2, <1>3, <1>4, <1>5, <1>6, ReappliedOwn

LEMMA ResetOwn ==
  ASSUME OwnInv, ResetControllers
  PROVE  OwnInv'
<1>0. Types'
  BY ResetTypes DEF OwnInv
<1>1. /\ seed' = [c \in Chan |-> NoSeed] /\ note' = note /\ now' = now
      /\ voices' = {IF v.off THEN v ELSE Emptied(v) : v \in voices}
      /\ \A s \in Slot : context'[s] = [generation |-> context[s].generation, line |-> Fresh.line,
                                        has |-> Fresh.has, dropped |-> 0]
  BY DEF ResetControllers, Emptied, Chan
<1>2. \A s \in Slot : /\ context'[s].generation = context[s].generation
                      /\ context'[s].line = Fresh.line /\ context'[s].has = Fresh.has
  <2>1. PICK line, has : line = Fresh.line /\ has = Fresh.has
    OBVIOUS
  <2>2. ASSUME NEW s \in Slot, NEW c, c = context'[s]
        PROVE  /\ c.generation = context[s].generation /\ c.line = line /\ c.has = has
    <3>1. PICK g : g = context[s].generation
      OBVIOUS
    <3>2. c = [generation |-> g, line |-> line, has |-> has, dropped |-> 0]
      BY <3>1, <2>1, <2>2, <1>1
    <3> QED BY <3>1, <3>2
  <2> QED BY <2>1, <2>2
<1>3. Behind'
  <2>1. now \in Nat
    BY TypeFacts DEF OwnInv
  <2>2. \A k \in Kind : UpTo(Fresh.line[k], now)
    BY <2>1, FirstBehind DEF Fresh
  <2> QED BY <2>2, <1>1, <1>2 DEF Behind
<1>4. Aged'
  BY <1>1, <1>2 DEF OwnInv, Aged
<1>5. ASSUME NEW v \in voices, NEW w, w = IF v.off THEN v ELSE Emptied(v)
      PROVE  InPlace(w)' /\ KeepsOwn(w)' /\ FollowsSeed(w)'
  <2>1. v \in Voice /\ v.id.slot \in Slot /\ v.source \in Chan /\ InPlace(v)
    BY OwnFacts, VoiceFacts
  <2>2. CASE v.off
    <3>1. (context[v.id.slot])'.generation = context[v.id.slot].generation
      BY <2>1, <1>2
    <3>2. InPlace(v)' /\ KeepsOwn(v)'
      BY <3>1, <2>2, <1>1, HeardOn
    <3> QED BY <3>2, <2>2, <1>5 DEF FollowsSeed
  <2>3. CASE ~v.off
    <3>1. w = Emptied(v)
      BY <2>3, <1>5
    <3>2. /\ w.id = v.id /\ w.source = v.source /\ w.off = v.off /\ w.frozen = v.frozen
          /\ w.behind = {} /\ \A k \in Kind : w.own[k] = Absent
      BY <3>1, <2>1, EmptiedVoice
    <3>3. InPlace(w)'
      BY <3>2, <2>1, <1>1 DEF InPlace
    <3>4. ASSUME NEW k \in Kind PROVE Hears(w, k)' = w.own[k]
      <4>1. w.frozen[k] = <<>> /\ ~(context[w.id.slot].has[k])'
        BY <3>2, <2>1, <2>3, <1>2, HeldFacts DEF Fresh
      <4> QED BY <4>1, <3>2 DEF Hears
    <3>5. FollowsSeed(w)'
      BY <3>2, <2>1, <1>1 DEF FollowsSeed, SeedOf, NoSeed
    <3> QED BY <3>2, <3>3, <3>4, <3>5 DEF KeepsOwn
  <2> QED BY <2>2, <2>3
<1>6. ASSUME NEW w \in voices' PROVE InPlace(w)' /\ KeepsOwn(w)' /\ FollowsSeed(w)'
  BY <1>1, <1>5
<1> QED BY <1>0, <1>3, <1>4, <1>6 DEF OwnInv

LEMMA RenderOwn ==
  ASSUME OwnInv, NEW ended \in SUBSET voices, Render(ended)
  PROVE  OwnInv'
<1>0. Types'
  BY RenderTypes DEF OwnInv
<1>1. /\ voices' = {Rested(v) : v \in voices \ ended}
      /\ \A s \in Slot : context'[s] = [context[s] EXCEPT !.line = Flushed(context[s]).line]
      /\ now' = 0 /\ note' = note /\ seed' = seed
  BY DEF Render, Rested
<1>2. ASSUME NEW s \in Slot
      PROVE  /\ context'[s].generation = context[s].generation /\ context'[s].has = context[s].has
             /\ context'[s].dropped = context[s].dropped
             /\ \A k \in Kind : context'[s].line[k] = Sentinel(Last(context[s].line[k]))
  <2>1. PICK c \in Owned : c = context[s]
    BY TypeFacts DEF OwnInv
  <2>2. PICK l : l = [k \in Kind |-> Sentinel(Last(c.line[k]))]
    OBVIOUS
  <2>3. Flushed(c).line = l
    BY <2>2 DEF Flushed, Owned
  <2>4. context'[s] = [c EXCEPT !.line = l]
    BY <2>1, <2>3, <1>1
  <2> QED BY <2>1, <2>2, <2>4 DEF Owned
<1>3. \A s \in Slot, k \in Kind : context[s].line[k] \in Line
  BY TypeFacts DEF OwnInv, Owned, Short
<1>4. Behind'
  BY <1>1, <1>2, <1>3, FlushedLine, SentinelLine DEF Behind
<1>5. Aged'
  BY <1>1, <1>2 DEF OwnInv, Aged
<1>6. ASSUME NEW v \in voices, NEW w, w = Rested(v)
      PROVE  InPlace(w)' /\ KeepsOwn(w)' /\ FollowsSeed(w)'
  <2>1. v \in Voice /\ v.id.slot \in Slot /\ InPlace(v) /\ KeepsOwn(v) /\ FollowsSeed(v)
    BY OwnFacts
  <2>2. /\ w.id = v.id /\ w.source = v.source /\ w.zone = v.zone /\ w.off = v.off
        /\ w.behind = v.behind /\ w.own = v.own
        /\ \A k \in Kind : w.frozen[k] = IF v.frozen[k] = <<>> THEN <<>> ELSE Sentinel(Last(v.frozen[k]))
    BY <2>1, <1>6, RestedVoice
  <2>3. InPlace(w)'
    BY <2>1, <2>2, <1>1 DEF InPlace
  <2>4. ASSUME NEW k \in Kind PROVE Hears(w, k)' = Hears(v, k)
    <3>1. PICK s \in Slot : s = v.id.slot
      BY <2>1
    <3>2. CASE v.frozen[k] # <<>>
      <4>1. v.frozen[k] \in Line
        BY <3>2, <2>1, VoiceFacts
      <4>2. Last(v.frozen[k]) \in Nat
        BY <4>1, FlushedLine
      <4>3. w.frozen[k] # <<>> /\ Last(w.frozen[k]) = Last(v.frozen[k])
        BY <4>2, <3>2, <2>2, SentinelLine
      <4> QED BY <4>3, <3>2 DEF Hears
    <3>3. CASE v.frozen[k] = <<>>
      <4>1. w.frozen[k] = <<>>
        BY <3>3, <2>2
      <4>2. Attached(w)' <=> Attached(v)
        BY <3>1, <2>2, <1>1, <1>2 DEF Attached
      <4>3. Last(context[s].line[k]) \in Nat
        BY <1>3, FlushedLine
      <4>4. Last(context'[s].line[k]) = Last(context[s].line[k])
        BY <4>3, <1>2, SentinelLine
      <4> QED BY <4>1, <4>2, <4>4, <3>1, <3>3, <2>2, <1>2 DEF Hears
    <3> QED BY <3>2, <3>3
  <2>5. KeepsOwn(w)' /\ FollowsSeed(w)'
    BY <2>1, <2>2, <2>4, <1>1, <1>2 DEF KeepsOwn, FollowsSeed
  <2> QED BY <2>3, <2>5
<1>7. ASSUME NEW w \in voices' PROVE InPlace(w)' /\ KeepsOwn(w)' /\ FollowsSeed(w)'
  BY <1>1, <1>6
<1> QED BY <1>0, <1>4, <1>5, <1>7 DEF OwnInv

(* Steps that leave the contexts, the seeds and the offset alone.          *)
LEMMA OwnStays ==
  ASSUME OwnInv, Types', UNCHANGED <<context, seed, now>>, UNCHANGED <<voices, note>> \/ Silenced
  PROVE  OwnInv'
<1>1. CASE UNCHANGED <<voices, note>>
  <2>1. Behind' /\ Aged'
    BY <1>1 DEF OwnInv, Behind, Aged
  <2>2. ASSUME NEW v \in voices PROVE InPlace(v)' /\ KeepsOwn(v)' /\ FollowsSeed(v)'
    <3>1. InPlace(v)' /\ KeepsOwn(v)'
      BY <1>1, HeardOn
    <3> QED BY <3>1, OwnFacts DEF FollowsSeed
  <2> QED BY <2>1, <2>2, <1>1 DEF OwnInv
<1>2. CASE Silenced
  <2>1. \A s \in Slot : note'[s].generation = note[s].generation
    <3>1. \A n \in Note : [n EXCEPT !.active = FALSE].generation = n.generation
      BY DEF Note
    <3> QED BY <3>1, <1>2, TypeFacts DEF OwnInv, Silenced
  <2>2. Aged' /\ Behind'
    BY <2>1 DEF OwnInv, Aged, Behind
  <2> QED BY <2>2, <1>2 DEF Silenced, OwnInv
<1> QED BY <1>1, <1>2

LEMMA InitOwn == Init => OwnInv
<1> SUFFICES ASSUME Init PROVE OwnInv
  OBVIOUS
<1>1. Types
  BY InitTypes
<1>2. Behind
  <2>1. \A k \in Kind : UpTo(Fresh.line[k], 0)
    BY FirstBehind DEF Fresh
  <2> QED BY <2>1 DEF Init, Behind
<1>3. Aged
  BY DEF Init, Aged
<1> QED BY <1>1, <1>2, <1>3 DEF Init, OwnInv

LEMMA NextOwn ==
  ASSUME CallsBetween, OwnInv, [Next]_vars
  PROVE  OwnInv'
<1>0. Types'
  BY NextTypes DEF OwnInv
<1>1. ASSUME NEW c \in Chan, NEW k \in Kind, NEW x \in Nat, NEW d \in Frame, Message(c, k, x, d)
      PROVE  OwnInv'
  BY <1>1, MessageOwn
<1>2. ASSUME NEW c \in Chan, NEW s \in Slot, NEW d \in Frame, NoteOn(c, s, d) PROVE OwnInv'
  BY <1>2, NoteOnOwn
<1>3. ASSUME NEW c \in Chan, NEW r \in Ranges, NEW d \in Frame, RpnRange(c, r, d) PROVE OwnInv'
  BY <1>3, RpnRangeOwn
<1>4. ASSUME NEW s \in Slot, NEW d \in Frame, NoteOff(s, d) PROVE OwnInv'
  BY <1>4, NoteOffOwn
<1>5. ASSUME NEW manager \in Ranges, NEW member \in Ranges, SetRange(manager, member) PROVE OwnInv'
  BY <1>5, SetRangeOwn
<1>6. ASSUME NEW on \in BOOLEAN, RpnMpe(on) PROVE OwnInv'
  BY <1>0, <1>6, OwnStays DEF RpnMpe
<1>7. ASSUME NEW on \in BOOLEAN, SetMpe(on) PROVE OwnInv'
  <2>1. UNCHANGED <<context, seed, now>> /\ (UNCHANGED <<voices, note>> \/ Silenced)
    BY <1>7 DEF SetMpe
  <2> QED BY <2>1, <1>0, OwnStays
<1>8. ASSUME ResetControllers PROVE OwnInv'
  BY <1>8, ResetOwn
<1>9. ASSUME AllSoundOff PROVE OwnInv'
  BY <1>0, <1>9, OwnStays DEF AllSoundOff
<1>10. ASSUME NEW ended \in SUBSET voices, Render(ended) PROVE OwnInv'
  BY <1>10, RenderOwn
<1>11. CASE UNCHANGED vars
  BY <1>0, <1>11, OwnStays DEF vars
<1>12. CASE Next
  <2>1. Steps
    BY <1>12, StepsOfNext
  <2> QED BY <2>1, <1>1, <1>2, <1>3, <1>4, <1>5, <1>6, <1>7, <1>8, <1>9, <1>10 DEF Steps
<1> QED BY <1>11, <1>12

LEMMA OwnInvHolds ==
  ASSUME CallsBetween
  PROVE  Spec => []OwnInv
<1>1. OwnInv /\ [Next]_vars => OwnInv'
  BY NextOwn
<1> QED BY <1>1, InitOwn, PTL DEF Spec

(* A voice hears what was sent to its own note, while it is held and after *)
(* its release, whatever becomes of its slot and of its channel, if the    *)
(* host sets the bend range between blocks and with the profile on.        *)
THEOREM VoicesKeepTheirOwn ==
  ASSUME CallsBetween
  PROVE  Spec => []VoiceKeepsOwn
<1>1. OwnInv => VoiceKeepsOwn
  BY DEF OwnInv, KeepsOwn, VoiceKeepsOwn
<1> QED BY <1>1, OwnInvHolds, PTL

(* Under the same contract a held note of a member has the last expression *)
(* of its member, in the present range, sent before the note or after it.  *)
THEOREM NotesFollowMembers ==
  ASSUME CallsBetween
  PROVE  Spec => []NoteFollowsMember
<1>1. OwnInv => NoteFollowsMember
  BY DEF OwnInv, KeepsOwn, FollowsSeed, NoteFollowsMember
<1> QED BY <1>1, OwnInvHolds, PTL

=============================================================================
