---------------------------- MODULE VoicesProofs ----------------------------
(***************************************************************************)
(* The rings of sister voices stay closed, the registries agree with the   *)
(* voices, chokes are complete and their recursion is bounded, no owner    *)
(* and no region has more voices playing than its polyphony, a voice is    *)
(* cut only for a limit, and a softer note never stops a louder one, for   *)
(* all instruments, limits and numbers of voices.                          *)
(***************************************************************************)
EXTENDS Voices, TLAPS, FiniteSetTheorems, SequenceTheorems, WellFoundedInduction

-----------------------------------------------------------------------------
(* Rings.                                                                  *)

(* Two pointer functions on a set that mirror each other.                  *)
Mirror(V, n, p) ==
  /\ n \in [V -> V] /\ p \in [V -> V]
  /\ \A v \in V : n[p[v]] = v /\ p[n[v]] = v

LEMMA UnlinkedMirror ==
  ASSUME NEW V, NEW n, NEW p, Mirror(V, n, p), NEW v \in V
  PROVE  /\ Mirror(V, Unlinked(n, p, v), Unlinked(p, n, v))
         /\ Unlinked(n, p, v)[v] = v /\ Unlinked(p, n, v)[v] = v
         /\ \A u \in V : n[u] = u => Unlinked(n, p, v)[u] = u
BY DEF Mirror, Unlinked

(* A lone voice goes between the head of a ring and the voice before it.   *)
LinkedNext(n, p, v, h) == [n EXCEPT ![v] = h, ![p[h]] = v]
LinkedPrev(p, v, h) == [p EXCEPT ![v] = p[h], ![h] = v]

LEMMA LinkedMirror ==
  ASSUME NEW V, NEW n, NEW p, Mirror(V, n, p), NEW v \in V, NEW h \in V, n[v] = v, p[v] = v
  PROVE  /\ Mirror(V, LinkedNext(n, p, v, h), LinkedPrev(p, v, h))
         /\ \A u \in V \ {v, h} : n[u] = u => LinkedNext(n, p, v, h)[u] = u
BY DEF Mirror, LinkedNext, LinkedPrev

-----------------------------------------------------------------------------
(* Registries.                                                             *)

Members(s) == {s[i] : i \in DOMAIN s}
Distinct(s) == \A i, j \in DOMAIN s : s[i] = s[j] => i = j

LEMMA WithoutOne ==
  ASSUME NEW V, NEW s \in Seq(V), Distinct(s), NEW v
  PROVE  /\ Without(s, v) \in Seq(V) /\ Distinct(Without(s, v))
         /\ Members(Without(s, v)) = Members(s) \ {v}
<1>1. CASE \A i \in DOMAIN s : s[i] # v
  BY <1>1 DEF Without, Members
<1>2. CASE \E i \in DOMAIN s : s[i] = v
  <2>1. PICK k \in DOMAIN s : s[k] = v
    BY <1>2
  <2>2. \A j \in 1 .. k - 1 : s[j] # v
    BY <2>1 DEF Distinct
  <2> DEFINE at == CHOOSE i \in DOMAIN s : s[i] = v /\ \A j \in 1 .. i - 1 : s[j] # v
  <2>3. at \in DOMAIN s /\ s[at] = v
    BY <2>1, <2>2
  <2>4. \A i \in DOMAIN s : s[i] = v => i = at
    BY <2>3 DEF Distinct
  <2> DEFINE t == Without(s, v)
  <2>5. t = SubSeq([s EXCEPT ![at] = s[Len(s)]], 1, Len(s) - 1)
    BY <1>2 DEF Without
  <2> HIDE DEF at
  <2>6. Len(s) \in Nat \ {0} /\ DOMAIN s = 1 .. Len(s) /\ \A i \in DOMAIN s : s[i] \in V
    BY <2>3
  <2>7. /\ t \in Seq(V) /\ DOMAIN t = 1 .. Len(s) - 1
        /\ \A i \in DOMAIN t : t[i] = IF i = at THEN s[Len(s)] ELSE s[i]
    BY <2>3, <2>5, <2>6
  <2> HIDE DEF t
  <2>8. Distinct(t)
    BY <2>3, <2>6, <2>7 DEF Distinct
  <2>9. Members(t) \subseteq Members(s) \ {v}
    BY <2>3, <2>4, <2>6, <2>7 DEF Members
  <2>10. ASSUME NEW i \in DOMAIN s, s[i] # v
         PROVE  s[i] \in Members(t)
    <3>1. CASE i = Len(s)
      BY <2>3, <2>4, <2>6, <2>7, <2>10, <3>1 DEF Members
    <3>2. CASE i # Len(s)
      BY <2>3, <2>4, <2>6, <2>7, <2>10, <3>2 DEF Members
    <3> QED BY <3>1, <3>2
  <2> QED BY <2>7, <2>8, <2>9, <2>10 DEF Members, t
<1> QED BY <1>1, <1>2

LEMMA AppendOne ==
  ASSUME NEW V, NEW s \in Seq(V), Distinct(s), NEW v \in V, v \notin Members(s)
  PROVE  /\ Append(s, v) \in Seq(V) /\ Distinct(Append(s, v))
         /\ Members(Append(s, v)) = Members(s) \cup {v}
<1>1. /\ Append(s, v) \in Seq(V) /\ DOMAIN Append(s, v) = 1 .. Len(s) + 1
      /\ \A i \in 1 .. Len(s) : Append(s, v)[i] = s[i]
      /\ Append(s, v)[Len(s) + 1] = v
      /\ DOMAIN s = 1 .. Len(s) /\ Len(s) \in Nat
  OBVIOUS
<1>2. Distinct(Append(s, v))
  BY <1>1 DEF Distinct, Members
<1>3. Members(Append(s, v)) \subseteq Members(s) \cup {v}
  BY <1>1 DEF Members
<1>4. Members(s) \cup {v} \subseteq Members(Append(s, v))
  <2>1. v \in Members(Append(s, v))
    <3>1. Len(s) + 1 \in DOMAIN Append(s, v)
      BY <1>1
    <3> QED BY <1>1, <3>1 DEF Members
  <2>2. \A i \in DOMAIN s : i \in DOMAIN Append(s, v)
    BY <1>1
  <2> QED BY <1>1, <2>1, <2>2 DEF Members
<1> QED BY <1>1, <1>2, <1>3, <1>4

-----------------------------------------------------------------------------
(* The inductive invariant.                                                *)

VoiceFields == {"state", "region", "event", "offed", "waiting", "fresh", "age", "loud"}
IsVoice(x) == x = [f \in VoiceFields |-> x[f]]
FrameFields == {"event", "left", "head", "from"}
IsFrame(f) == f = [i \in FrameFields |-> f[i]]

(* A dispatch keeps the head of its ring while voices start: none becomes  *)
(* idle before it is over.                                                 *)
IsStack(s, V) ==
  \E X : s \in Seq(X) /\ \A f \in X : IsFrame(f) /\ f.head \in V \cup {None}

VoicesOK == voice = [v \in Voice |-> voice[v]] /\ \A v \in Voice : IsVoice(voice[v])
TurnsOK == turns \subseteq Voice /\ (turns # {} => stack = <<>>)
RingsOK == Mirror(Voice, next, prev) /\ \A v \in Voice \ Busy : next[v] = v
ListsOK ==
  /\ list \in [Owner -> Seq(Voice)]
  /\ \A o \in Owner : /\ Distinct(list[o])
                       /\ Members(list[o]) = {v \in Busy : Joins(o, voice[v].region)}

IInv == VoicesOK /\ TurnsOK /\ IsStack(stack, Busy) /\ RingsOK /\ ListsOK

LEMMA VoicesAreNumbers == Voice \subseteq Nat /\ None \notin Voice
BY DEF Voice, None

LEMMA SetupKept ==
  ASSUME UNCHANGED setup
  PROVE  /\ Voice' = Voice
         /\ \A o, v : Joins(o, voice[v].region)' <=> Joins(o, voice'[v].region)
<1>1. Voice' = Voice
  BY DEF Voice, Overflow, NumVoices, Limit
<1>2. \A o, v : Joins(o, voice[v].region)' <=> Joins(o, voice'[v].region)
  BY DEF Joins, InOwners, Owners, Layers
<1> QED BY <1>1, <1>2

LEMMA ReleaseKeeps ==
  ASSUME NEW x, IsVoice(x)
  PROVE  /\ IsVoice(Release(x)) /\ Release(x).region = x.region
         /\ Release(x).state = "idle" <=> x.state = "idle"
BY DEF IsVoice, VoiceFields, Release

LEMMA OffKeeps ==
  ASSUME NEW x, IsVoice(x)
  PROVE  /\ IsVoice(Off(x)) /\ Off(x).region = x.region
         /\ Off(x).state = "idle" <=> x.state = "idle"
<1> DEFINE y == [x EXCEPT !.offed = TRUE]
<1>1. IsVoice(y) /\ y.region = x.region /\ y.state = x.state
  BY DEF IsVoice, VoiceFields
<1> HIDE DEF y
<1>2. Off(x) = Release(y)
  BY DEF Off, y
<1> QED BY <1>1, <1>2, ReleaseKeeps

Heard(x, loud) == [Played(x) EXCEPT !.loud = loud]

LEMMA HeardKeeps ==
  ASSUME NEW x, IsVoice(x), NEW loud
  PROVE  /\ IsVoice(Heard(x, loud)) /\ Heard(x, loud).region = x.region
         /\ Heard(x, loud).state = x.state
BY DEF IsVoice, VoiceFields, Played, Heard

LEMMA IdleIsVoice == IsVoice(Idle)
BY DEF IsVoice, VoiceFields, Idle

LEMMA NewFrame ==
  ASSUME NEW e PROVE IsFrame(Frame(e)) /\ Frame(e).head = None
BY DEF IsFrame, FrameFields, Frame

(* Frames come, change and go.                                             *)
LEMMA StackPushed ==
  ASSUME NEW s, NEW V, IsStack(s, V), NEW f, IsFrame(f), f.head \in V \cup {None}
  PROVE  IsStack(<<f>> \o s, V)
<1>1. PICK X : s \in Seq(X) /\ \A g \in X : IsFrame(g) /\ g.head \in V \cup {None}
  BY DEF IsStack
<1>2. <<f>> \o s \in Seq(X \cup {f})
  BY <1>1
<1> QED BY <1>1, <1>2 DEF IsStack

LEMMA StackPopped ==
  ASSUME NEW s, NEW V, IsStack(s, V), s # <<>>
  PROVE  IsStack(Tail(s), V) /\ IsFrame(s[1]) /\ s[1].head \in V \cup {None}
<1>1. PICK X : s \in Seq(X) /\ \A g \in X : IsFrame(g) /\ g.head \in V \cup {None}
  BY DEF IsStack
<1>2. Tail(s) \in Seq(X) /\ s[1] \in X
  BY <1>1
<1> QED BY <1>1, <1>2 DEF IsStack

LEMMA StackChanged ==
  ASSUME NEW s, NEW V, IsStack(s, V), s # <<>>, NEW f, IsFrame(f), f.head \in V \cup {None}
  PROVE  IsStack([s EXCEPT ![1] = f], V)
<1>1. PICK X : s \in Seq(X) /\ \A g \in X : IsFrame(g) /\ g.head \in V \cup {None}
  BY DEF IsStack
<1>2. [s EXCEPT ![1] = f] \in Seq(X \cup {f})
  BY <1>1
<1> QED BY <1>1, <1>2 DEF IsStack

LEMMA StackWider ==
  ASSUME NEW s, NEW V, NEW W, IsStack(s, V), V \subseteq W
  PROVE  IsStack(s, W)
BY DEF IsStack

LEMMA StackEmpty == ASSUME NEW V PROVE IsStack(<<>>, V)
<1> DEFINE X == {Frame(NoEvent)}
<1>1. <<>> \in Seq(X)
  OBVIOUS
<1>2. \A f \in X : IsFrame(f) /\ f.head \in V \cup {None}
  BY NewFrame
<1> HIDE DEF X
<1> QED BY <1>1, <1>2 DEF IsStack

(* Nothing starts and nothing becomes idle.                                *)
LEMMA SameVoices ==
  ASSUME IInv, UNCHANGED <<setup, next, prev, list>>,
         voice' = [v \in Voice |-> voice'[v]],
         \A v \in Voice : /\ IsVoice(voice'[v]) /\ voice'[v].region = voice[v].region
                          /\ voice'[v].state = "idle" <=> voice[v].state = "idle"
  PROVE  VoicesOK' /\ Busy' = Busy /\ RingsOK' /\ ListsOK'
<1>1. Voice' = Voice
  BY SetupKept
<1>2. VoicesOK'
  BY <1>1 DEF VoicesOK
<1>3. Busy' = Busy
  BY <1>1 DEF Busy
<1>4. RingsOK'
  BY <1>1, <1>3 DEF IInv, RingsOK
<1>5. ListsOK'
  <2>1. ASSUME NEW o \in Owner
        PROVE  {v \in Busy : Joins(o, voice[v].region)}'
                 = {v \in Busy : Joins(o, voice[v].region)}
    BY <1>3, SetupKept DEF Busy
  <2> QED BY <1>1, <2>1 DEF IInv, ListsOK
<1> QED BY <1>2, <1>3, <1>4, <1>5

-----------------------------------------------------------------------------
(* The voices that start, and those that are reset.                        *)

LEMMA FreeVoicesAreVoices == ASSUME NEW vs PROVE FreeVoices(vs) \subseteq Voice
BY DEF FreeVoices

LEMMA LeastOf ==
  ASSUME NEW S, S \subseteq Nat, S # {}
  PROVE  \E x \in S : \A y \in S : x <= y
<1>1. PICK x \in S : \A y \in S : ~(<<y, x>> \in OpToRel(<, Nat))
  BY NatLessThanWellFounded, WFMin
<1>2. \A y \in S : ~(y < x)
  BY <1>1 DEF OpToRel
<1>3. x \in Nat /\ \A y \in S : y \in Nat
  BY <1>1
<1>4. \A y \in S : x <= y
  BY <1>2, <1>3
<1> QED BY <1>4

LEMMA TurnIsNext ==
  ASSUME IInv, turns # {}
  PROVE  Turn \in turns /\ Turn \in Voice
<1>1. turns \subseteq Voice /\ turns \subseteq Nat
  BY VoicesAreNumbers DEF IInv, TurnsOK
<1>2. \E x \in turns : \A y \in turns : x <= y
  BY <1>1, LeastOf
<1> QED BY <1>1, <1>2 DEF Turn

LEMMA ListsWithout ==
  ASSUME IInv, NEW v \in Busy, NEW ls, ls = Unregistered(list, v, voice[v].region)
  PROVE  /\ ls \in [Owner -> Seq(Voice)]
         /\ \A o \in Owner :
              /\ Distinct(ls[o])
              /\ Members(ls[o]) = {u \in Busy \ {v} : Joins(o, voice[u].region)}
<1>1. \A o \in Owner :
        /\ list[o] \in Seq(Voice) /\ Distinct(list[o])
        /\ Members(list[o]) = {u \in Busy : Joins(o, voice[u].region)}
        /\ Without(list[o], v) \in Seq(Voice) /\ Distinct(Without(list[o], v))
        /\ Members(Without(list[o], v)) = Members(list[o]) \ {v}
  BY WithoutOne DEF IInv, ListsOK
<1> QED BY <1>1 DEF Unregistered

LEMMA ResetKeeps ==
  ASSUME IInv, UNCHANGED setup, NEW v \in Voice, Reset(v)
  PROVE  VoicesOK' /\ RingsOK' /\ ListsOK'
<1>1. Voice' = Voice
  BY SetupKept
<1>2. /\ voice' = [u \in Voice |-> IF u = v THEN Idle ELSE voice[u]]
      /\ Busy' = Busy \ {v}
  <2>1. voice' = [u \in Voice |-> IF u = v THEN Idle ELSE voice[u]]
    BY DEF IInv, VoicesOK, Reset
  <2> QED BY <1>1, <2>1 DEF Busy, Idle
<1>3. VoicesOK'
  BY <1>1, <1>2, IdleIsVoice DEF IInv, VoicesOK
<1>4. RingsOK'
  BY <1>1, <1>2, UnlinkedMirror DEF IInv, RingsOK, Reset
<1>5. ListsOK'
  <2>1. ASSUME NEW o \in Owner
        PROVE  {u \in Busy : Joins(o, voice[u].region)}'
                 = {u \in Busy \ {v} : Joins(o, voice[u].region)}
    BY <1>2, SetupKept DEF Busy
  <2>2. CASE v \in Busy
    BY <1>1, <2>1, <2>2, ListsWithout DEF Reset, ListsOK
  <2>3. CASE v \notin Busy
    BY <1>1, <2>1, <2>3 DEF Reset, ListsOK, IInv
  <2> QED BY <2>2, <2>3
<1> QED BY <1>3, <1>4, <1>5

LEMMA StartKeeps ==
  ASSUME IInv, Start, UNCHANGED setup
  PROVE  IInv'
<1>1. Voice' = Voice
  BY SetupKept
<1>2. stack # <<>> /\ turns = {} /\ turns' = turns
  BY DEF Start, Starting, Considered, IInv, TurnsOK, callback
<1>3. TurnsOK'
  BY <1>2 DEF TurnsOK
<1>4. PICK stopped : StartVoice(Layer, Top.event, stopped)
  BY DEF Start
<1> DEFINE r == Layer
           e == Top.event
           checked == [v \in Voice |-> IF v \in stopped THEN Off(voice[v]) ELSE voice[v]]
           done == [Top EXCEPT !.left = @ \ {Layer}, !.from = 1]
<1>5. \A v \in Voice : /\ IsVoice(checked[v]) /\ checked[v].region = voice[v].region
                       /\ checked[v].state = "idle" <=> voice[v].state = "idle"
  BY OffKeeps DEF IInv, VoicesOK
<1>6. IsFrame(done) /\ done.head = Top.head /\ Top.head \in Busy \cup {None}
  <2>1. IsFrame(Top) /\ Top.head \in Busy \cup {None}
    BY <1>2, StackPopped DEF Top, IInv
  <2> QED BY <2>1 DEF IsFrame, FrameFields
<1>7. IsStack(Tail(stack), Busy)
  BY <1>2, StackPopped DEF IInv
<1> HIDE DEF checked, done
<1>8. CASE voice' = checked /\ stack' = <<done>> \o Tail(stack) /\ UNCHANGED <<next, prev, list>>
  <2>1. VoicesOK' /\ Busy' = Busy /\ RingsOK' /\ ListsOK'
    BY <1>5, <1>8, SameVoices DEF checked
  <2>2. IsStack(stack', Busy')
    BY <1>6, <1>7, <1>8, <2>1, StackPushed
  <2> QED BY <1>3, <2>1, <2>2 DEF IInv
<1>9. ASSUME NEW v \in FreeVoices(checked), NEW plays \in Outcomes(r),
             LET head == IF Top.head = None THEN v ELSE Top.head
                 lone == Unlinked(next, prev, v)
                 back == Unlinked(prev, next, v)
                 last == back[head]
                 freed == IF v \in Busy THEN Unregistered(list, v, voice[v].region) ELSE list
             IN /\ voice' = [checked EXCEPT ![v] = Started(r, e, plays)]
                /\ list' = Registered(freed, v, r)
                /\ \/ /\ plays
                      /\ next' = [lone EXCEPT ![v] = head, ![last] = v]
                      /\ prev' = [back EXCEPT ![v] = last, ![head] = v]
                      /\ stack' = <<[done EXCEPT !.head = head]>> \o Tail(stack)
                   \/ ~plays /\ next' = lone /\ prev' = back /\ stack' = <<done>> \o Tail(stack)
      PROVE  IInv'
  <2> DEFINE head == IF Top.head = None THEN v ELSE Top.head
             lone == Unlinked(next, prev, v)
             back == Unlinked(prev, next, v)
             freed == IF v \in Busy THEN Unregistered(list, v, voice[v].region) ELSE list
  <2>1. v \in Voice /\ head \in Voice /\ head \in Busy \cup {v}
    BY <1>6, <1>9, FreeVoicesAreVoices DEF Busy
  <2>2. /\ voice'[v].state # "idle" /\ voice'[v].region = r /\ IsVoice(voice'[v])
        /\ voice' = [u \in Voice |-> voice'[u]]
        /\ \A u \in Voice \ {v} : voice'[u] = checked[u]
    <3>1. /\ IsVoice(Started(r, e, plays)) /\ Started(r, e, plays).region = r
          /\ Started(r, e, plays).state # "idle"
      BY DEF Started, Idle, IsVoice, VoiceFields
    <3> QED BY <1>9, <2>1, <3>1 DEF checked
  <2>3. VoicesOK'
    BY <1>1, <1>5, <2>2 DEF VoicesOK
  <2>4. Busy' = Busy \cup {v}
    BY <1>1, <1>5, <2>1, <2>2 DEF Busy
  <2>5. RingsOK'
    <3>1. /\ Mirror(Voice, lone, back) /\ lone[v] = v /\ back[v] = v
          /\ \A u \in Voice : next[u] = u => lone[u] = u
      BY <1>9, <2>1, UnlinkedMirror DEF IInv, RingsOK
    <3>2. \/ next' = LinkedNext(lone, back, v, head) /\ prev' = LinkedPrev(back, v, head)
          \/ next' = lone /\ prev' = back
      BY <1>9 DEF LinkedNext, LinkedPrev
    <3> HIDE DEF lone, back, head
    <3>3. /\ Mirror(Voice, next', prev')
          /\ \A u \in Voice \ {v, head} : lone[u] = u => next'[u] = u
      BY <2>1, <3>1, <3>2, LinkedMirror
    <3> QED BY <1>1, <2>1, <2>4, <3>1, <3>2, <3>3 DEF RingsOK, IInv
  <2>6. ListsOK'
    <3>1. /\ freed \in [Owner -> Seq(Voice)]
          /\ \A o \in Owner :
               /\ Distinct(freed[o])
               /\ Members(freed[o]) = {u \in Busy \ {v} : Joins(o, voice[u].region)}
      <4>1. CASE v \in Busy
        BY <1>9, <4>1, ListsWithout
      <4>2. CASE v \notin Busy
        BY <1>9, <4>2 DEF IInv, ListsOK
      <4> QED BY <4>1, <4>2
    <3>2. \A o \in Owner :
            /\ list'[o] = IF Joins(o, r) THEN Append(freed[o], v) ELSE freed[o]
            /\ v \notin Members(freed[o]) /\ freed[o] \in Seq(Voice)
            /\ Append(freed[o], v) \in Seq(Voice) /\ Distinct(Append(freed[o], v))
            /\ Members(Append(freed[o], v)) = Members(freed[o]) \cup {v}
      BY <1>9, <2>1, <3>1, AppendOne DEF Registered
    <3>3. ASSUME NEW o \in Owner
          PROVE  {u \in Busy : Joins(o, voice[u].region)}'
                   = {u \in Busy \ {v} : Joins(o, voice[u].region)}
                     \cup (IF Joins(o, r) THEN {v} ELSE {})
      <4>1. \A u \in Busy \ {v} : voice'[u].region = voice[u].region
        BY <1>5, <2>2 DEF Busy
      <4> QED BY <2>2, <2>4, <4>1, SetupKept
    <3>4. DOMAIN list' = Owner /\ list' = [o \in Owner |-> list'[o]]
      BY <1>9 DEF Registered
    <3>5. \A o \in Owner :
            /\ list'[o] \in Seq(Voice) /\ Distinct(list'[o])
            /\ Members(list'[o]) = Members(freed[o]) \cup (IF Joins(o, r) THEN {v} ELSE {})
      BY <3>1, <3>2
    <3> QED BY <1>1, <3>1, <3>3, <3>4, <3>5 DEF ListsOK
  <2>7. IsStack(stack', Busy')
    <3>1. IsFrame([done EXCEPT !.head = head]) /\ [done EXCEPT !.head = head].head = head
      BY <1>6 DEF IsFrame, FrameFields
    <3>2. IsStack(Tail(stack), Busy')
      BY <1>7, <2>4, StackWider
    <3>3. \/ stack' = <<[done EXCEPT !.head = head]>> \o Tail(stack)
          \/ stack' = <<done>> \o Tail(stack)
      BY <1>9
    <3>4. head \in Busy' \cup {None} /\ done.head \in Busy' \cup {None}
      BY <1>6, <2>1, <2>4
    <3> DEFINE f == [done EXCEPT !.head = head]
    <3> HIDE DEF head, f
    <3>5. /\ IsFrame(f) /\ f.head \in Busy' \cup {None}
          /\ stack' = <<f>> \o Tail(stack) \/ stack' = <<done>> \o Tail(stack)
      BY <3>1, <3>3, <3>4 DEF f
    <3> QED BY <1>6, <3>2, <3>4, <3>5, StackPushed
  <2> QED BY <1>3, <2>3, <2>5, <2>6, <2>7 DEF IInv
<1> QED BY <1>4, <1>8, <1>9 DEF StartVoice, checked, done
-----------------------------------------------------------------------------
(* The other steps.                                                        *)

(* A step that leaves rings, registries and voices alone.                  *)
LEMMA QuietStep ==
  ASSUME IInv, UNCHANGED <<setup, voice, next, prev, list>>
  PROVE  VoicesOK' /\ Busy' = Busy /\ RingsOK' /\ ListsOK'
<1>1. voice' = [v \in Voice |-> voice'[v]]
  BY DEF IInv, VoicesOK
<1>2. \A v \in Voice : /\ IsVoice(voice'[v]) /\ voice'[v].region = voice[v].region
                       /\ voice'[v].state = "idle" <=> voice[v].state = "idle"
  BY DEF IInv, VoicesOK
<1> QED BY <1>1, <1>2, SameVoices

LEMMA MessageKeeps ==
  ASSUME IInv, UNCHANGED <<setup, next, prev, list, turns>>, Quiescent,
         voice' = [v \in Voice |-> voice'[v]],
         \A v \in Voice : /\ IsVoice(voice'[v]) /\ voice'[v].region = voice[v].region
                          /\ voice'[v].state = "idle" <=> voice[v].state = "idle",
         NEW e, stack' = <<Frame(e)>>
  PROVE  IInv'
<1>1. VoicesOK' /\ Busy' = Busy /\ RingsOK' /\ ListsOK'
  BY SameVoices
<1>2. TurnsOK'
  BY DEF Quiescent, TurnsOK
<1>3. IsStack(stack', Busy')
  <2>1. IsStack(<<>>, Busy') /\ IsFrame(Frame(e)) /\ Frame(e).head \in Busy' \cup {None}
    BY StackEmpty, NewFrame
  <2>2. IsStack(<<Frame(e)>> \o <<>>, Busy')
    BY <2>1, StackPushed
  <2>3. <<Frame(e)>> \o <<>> = <<Frame(e)>>
    OBVIOUS
  <2> QED BY <2>2, <2>3
<1> QED BY <1>1, <1>2, <1>3 DEF IInv

LEMMA NoteOffKeeps ==
  ASSUME IInv, UNCHANGED setup, NEW i, NoteOff(i)
  PROVE  IInv'
<1>1. /\ voice' = [v \in Voice |-> voice'[v]]
      /\ \A v \in Voice : voice'[v] \in {voice[v], Release(voice[v])}
  BY DEF NoteOff
<1>2. \A v \in Voice : /\ IsVoice(voice'[v]) /\ voice'[v].region = voice[v].region
                       /\ voice'[v].state = "idle" <=> voice[v].state = "idle"
  BY <1>1, ReleaseKeeps DEF IInv, VoicesOK
<1>3. Quiescent /\ UNCHANGED <<next, prev, list, turns>> /\ \E e : stack' = <<Frame(e)>>
  BY DEF NoteOff, callback
<1>4. PICK e : stack' = <<Frame(e)>>
  BY <1>3
<1> QED BY <1>1, <1>2, <1>3, <1>4, MessageKeeps

(* The top of the stack moves on within its dispatch.                      *)
LEMMA TopKeeps ==
  ASSUME IInv, stack # <<>>, NEW from, NEW left
  PROVE  /\ IsStack([stack EXCEPT ![1].left = left], Busy)
         /\ IsStack([stack EXCEPT ![1].from = from], Busy)
<1>1. IsFrame(stack[1]) /\ stack[1].head \in Busy \cup {None} /\ IsStack(stack, Busy)
  BY StackPopped DEF IInv
<1> DEFINE f == [stack[1] EXCEPT !.left = left]
           g == [stack[1] EXCEPT !.from = from]
<1>2. IsFrame(f) /\ f.head \in Busy \cup {None} /\ IsFrame(g) /\ g.head \in Busy \cup {None}
  BY <1>1 DEF IsFrame, FrameFields
<1> HIDE DEF f, g
<1>3. IsStack([stack EXCEPT ![1] = f], Busy) /\ IsStack([stack EXCEPT ![1] = g], Busy)
  BY <1>1, <1>2, StackChanged
<1> QED BY <1>3 DEF f, g

LEMMA SkipKeeps ==
  ASSUME IInv, UNCHANGED setup, Skip
  PROVE  IInv'
<1>1. VoicesOK' /\ Busy' = Busy /\ RingsOK' /\ ListsOK'
  BY QuietStep DEF Skip
<1>2. stack # <<>> /\ turns' = turns /\ stack' = [stack EXCEPT ![1].left = stack[1].left \ {Layer}]
  BY DEF Skip, Considered, callback
<1>3. IsStack(stack', Busy')
  BY <1>1, <1>2, TopKeeps
<1>4. TurnsOK'
  BY <1>1, <1>2, SetupKept DEF IInv, TurnsOK
<1> QED BY <1>1, <1>3, <1>4 DEF IInv

LEMMA ChokeKeeps ==
  ASSUME IInv, UNCHANGED setup, Choke
  PROVE  IInv'
<1>1. stack # <<>> /\ UNCHANGED <<turns, next, prev, list>>
  BY SMTT(40) DEF Choke, Considered, callback
<1>2. PICK v : /\ voice' = [voice EXCEPT ![v] = Off(@)]
               /\ \/ stack' = <<>> \o [stack EXCEPT ![1].from = v + 1]
                  \/ \E e : stack' = <<Frame(e)>> \o [stack EXCEPT ![1].from = v + 1]
  BY DEF Choke
<1>3. /\ voice' = [u \in Voice |-> voice'[u]]
      /\ \A u \in Voice : voice'[u] \in {voice[u], Off(voice[u])}
  BY <1>2 DEF IInv, VoicesOK
<1>4. \A u \in Voice : /\ IsVoice(voice'[u]) /\ voice'[u].region = voice[u].region
                       /\ voice'[u].state = "idle" <=> voice[u].state = "idle"
  BY <1>3, OffKeeps DEF IInv, VoicesOK
<1>5. VoicesOK' /\ Busy' = Busy /\ RingsOK' /\ ListsOK'
  BY <1>1, <1>3, <1>4, SameVoices
<1>6. IsStack(stack', Busy')
  <2> DEFINE s == [stack EXCEPT ![1].from = v + 1]
  <2>1. IsStack(s, Busy')
    BY <1>1, <1>5, TopKeeps
  <2>2. <<>> \o s = s
    <3>1. PICK X : s \in Seq(X)
      BY <2>1 DEF IsStack
    <3> HIDE DEF s
    <3> QED BY <3>1
  <2> HIDE DEF s
  <2>3. stack' = <<>> \o s \/ \E e : stack' = <<Frame(e)>> \o s
    BY <1>2 DEF s
  <2>4. ASSUME NEW e PROVE IsStack(<<Frame(e)>> \o s, Busy')
    BY <2>1, NewFrame, StackPushed
  <2> QED BY <2>1, <2>2, <2>3, <2>4
<1>7. TurnsOK'
  BY <1>1, SetupKept DEF IInv, TurnsOK
<1> QED BY <1>5, <1>6, <1>7 DEF IInv

LEMMA ReturnKeeps ==
  ASSUME IInv, UNCHANGED setup, Return
  PROVE  IInv'
<1>1. VoicesOK' /\ Busy' = Busy /\ RingsOK' /\ ListsOK'
  BY QuietStep DEF Return
<1>2. stack # <<>> /\ turns' = turns /\ stack' = Tail(stack)
  BY DEF Return, callback
<1>3. IsStack(stack', Busy')
  BY <1>1, <1>2, StackPopped DEF IInv
<1>4. TurnsOK'
  BY <1>2, SetupKept DEF IInv, TurnsOK
<1> QED BY <1>1, <1>3, <1>4 DEF IInv

LEMMA BlockKeeps ==
  ASSUME IInv, UNCHANGED setup, BeginBlock \/ AllSoundOff \/ \E r, c : Switch(r, c)
  PROVE  IInv'
<1>1. VoicesOK' /\ Busy' = Busy /\ RingsOK' /\ ListsOK'
  BY QuietStep DEF BeginBlock, AllSoundOff, Switch
<1>2. stack' = stack /\ stack = <<>> /\ (turns' \subseteq Voice \/ turns' = turns)
  BY DEF BeginBlock, AllSoundOff, Switch, Quiescent, Busy, callback
<1> QED BY <1>1, <1>2, SetupKept DEF IInv, TurnsOK

(* A voice that is reset leaves no dispatch behind: there is none.         *)
LEMMA ResetInTurn ==
  ASSUME IInv, UNCHANGED <<setup, stack>>, turns # {}, Reset(Turn), turns' = turns \ {Turn}
  PROVE  IInv'
<1>1. Turn \in Voice /\ stack = <<>>
  BY TurnIsNext DEF IInv, TurnsOK
<1>2. VoicesOK' /\ RingsOK' /\ ListsOK'
  BY <1>1, ResetKeeps
<1>3. TurnsOK'
  BY <1>1, SetupKept DEF IInv, TurnsOK
<1>4. IsStack(stack', Busy')
  BY <1>1, StackEmpty
<1> QED BY <1>2, <1>3, <1>4 DEF IInv

LEMMA RenderKeeps ==
  ASSUME IInv, UNCHANGED setup, RenderVoice
  PROVE  IInv'
<1>1. turns # {} /\ UNCHANGED stack /\ turns' = turns \ {Turn} /\ stack = <<>>
  BY DEF RenderVoice, IInv, TurnsOK
<1>2. CASE Reset(Turn)
  BY <1>1, <1>2, ResetInTurn
<1>3. ASSUME NEW loud, voice' = [voice EXCEPT ![Turn] = [Played(@) EXCEPT !.loud = loud]],
             UNCHANGED <<next, prev, list>>
      PROVE  IInv'
  <2>1. /\ voice' = [u \in Voice |-> voice'[u]]
        /\ \A u \in Voice : voice'[u] \in {voice[u], Heard(voice[u], loud)}
    BY <1>3 DEF IInv, VoicesOK, Heard
  <2>2. \A u \in Voice : /\ IsVoice(voice'[u]) /\ voice'[u].region = voice[u].region
                         /\ voice'[u].state = "idle" <=> voice[u].state = "idle"
    BY <2>1, HeardKeeps DEF IInv, VoicesOK
  <2>3. VoicesOK' /\ Busy' = Busy /\ RingsOK' /\ ListsOK'
    BY <1>3, <2>1, <2>2, SameVoices
  <2>4. IsStack(stack', Busy')
    BY <1>1, StackEmpty
  <2>5. TurnsOK'
    BY <1>1, SetupKept DEF IInv, TurnsOK
  <2> QED BY <2>3, <2>4, <2>5 DEF IInv
<1> QED BY <1>2, <1>3 DEF RenderVoice

-----------------------------------------------------------------------------
(* The theorems.                                                           *)

LEMMA InitInvariant == Init => IInv
<1> SUFFICES ASSUME Init PROVE IInv
  OBVIOUS
<1>1. VoicesOK
  BY IdleIsVoice DEF Init, VoicesOK
<1>2. TurnsOK
  BY DEF Init, TurnsOK
<1>3. IsStack(stack, Busy)
  BY StackEmpty DEF Init
<1>4. Busy = {}
  BY DEF Init, Busy, Idle
<1>5. RingsOK
  BY DEF Init, RingsOK, Mirror
<1>6. ListsOK
  BY <1>4 DEF Init, ListsOK, Distinct, Members
<1> QED BY <1>1, <1>2, <1>3, <1>5, <1>6 DEF IInv

LEMMA NextInvariant == IInv /\ [Next]_vars => IInv'
<1> SUFFICES ASSUME IInv, [Next]_vars PROVE IInv'
  OBVIOUS
<1>1. ASSUME NEW c, NEW k, NEW x, UNCHANGED setup, NoteOn(c, k, x) \/ Controller(c, k, x)
      PROVE  IInv'
  <2>1. UNCHANGED voice /\ Quiescent /\ UNCHANGED <<next, prev, list, turns>>
    BY <1>1 DEF NoteOn, Controller, callback
  <2>2. PICK e : stack' = <<Frame(e)>>
    BY <1>1 DEF NoteOn, Controller
  <2>3. /\ voice' = [v \in Voice |-> voice'[v]]
        /\ \A v \in Voice : IsVoice(voice'[v])
    BY <2>1 DEF IInv, VoicesOK
  <2> QED BY <1>1, <2>1, <2>2, <2>3, MessageKeeps
<1>2. ASSUME UNCHANGED setup, SilenceVoice PROVE IInv'
  BY <1>2, ResetInTurn DEF SilenceVoice
<1>3. CASE UNCHANGED vars
  <2>1. VoicesOK' /\ Busy' = Busy /\ RingsOK' /\ ListsOK'
    BY <1>3, QuietStep DEF vars
  <2>2. stack' = stack /\ turns' = turns /\ UNCHANGED setup
    BY <1>3 DEF vars, callback
  <2>3. TurnsOK'
    BY <2>2, SetupKept DEF IInv, TurnsOK
  <2> QED BY <2>1, <2>2, <2>3 DEF IInv
<1> QED BY <1>1, <1>2, <1>3, NoteOffKeeps, SkipKeeps, ChokeKeeps, StartKeeps, ReturnKeeps,
           BlockKeeps, RenderKeeps DEF Next

THEOREM Invariance == Spec => []IInv
BY InitInvariant, NextInvariant, PTL DEF Spec

(* However notes choke, steal and release one another and voices are       *)
(* reset one by one, the sister pointers of SisterVoiceRing mirror each    *)
(* other and an idle voice is alone.                                       *)
THEOREM RingsAreClosed == Spec => []RingsClosed
<1>1. IInv => RingsClosed
  BY DEF IInv, RingsOK, Mirror, RingsClosed, Busy
<1> QED BY <1>1, Invariance, PTL

(* A voice stands once with the group, the headers and the engine it plays *)
(* for, exactly while it is not idle (VoiceManager::onVoiceStateChanging); *)
(* a voice of a disabled region stands with none.                          *)
THEOREM RegistriesAreRight == Spec => []RegistriesAgree
<1>1. IInv => RegistriesAgree
  <2> SUFFICES ASSUME IInv, NEW o \in Owner, NEW v \in Voice
      PROVE Cardinality({i \in DOMAIN list[o] : list[o][i] = v})
              = IF voice[v].state # "idle" /\ Joins(o, voice[v].region) THEN 1 ELSE 0
    BY DEF RegistriesAgree
  <2>1. Distinct(list[o]) /\ Members(list[o]) = {u \in Busy : Joins(o, voice[u].region)}
    BY DEF IInv, ListsOK
  <2>2. CASE voice[v].state # "idle" /\ Joins(o, voice[v].region)
    <3>1. v \in Members(list[o])
      BY <2>1, <2>2 DEF Busy
    <3>2. PICK i \in DOMAIN list[o] : list[o][i] = v
      BY <3>1 DEF Members
    <3>3. {j \in DOMAIN list[o] : list[o][j] = v} = {i}
      BY <2>1, <3>2 DEF Distinct
    <3> QED BY <2>2, <3>3, FS_Singleton
  <2>3. CASE ~(voice[v].state # "idle" /\ Joins(o, voice[v].region))
    <3>1. v \notin Members(list[o])
      BY <2>1, <2>3 DEF Busy
    <3>2. {j \in DOMAIN list[o] : list[o][j] = v} = {}
      BY <3>1 DEF Members
    <3> QED BY <2>3, <3>2, FS_EmptySet
  <2> QED BY <2>2, <2>3
<1> QED BY <1>1, Invariance, PTL

-----------------------------------------------------------------------------
(* Chokes.                                                                 *)

(* The voices a choke can still stop.  Every dispatch but the outermost    *)
(* one is of a Note Off, and the voices it starts are not among them.      *)
Sounding == {v \in Voice : ~voice[v].offed /\ voice[v].event.type \in {"on", "cc"}}

(* checkOffGroups left nothing to stop behind it.                          *)
Looked(f) ==
  /\ f.from \in Nat
  /\ \A v \in Voice : v < f.from => ~Chokable(voice[v], FirstLayer(f), f.event)

EventFields == {"type", "key", "value", "source", "channel", "id"}
IsEvent(e) == e = [f \in EventFields |-> e[f]]
Proper(f) == IsFrame(f) /\ IsEvent(f.event)

EventsOK == \A v \in Voice : IsEvent(voice[v].event)
FramesLooked == \E X : stack \in Seq(X) /\ \A f \in X : Proper(f) /\ Looked(f)
InnerOffs == \A i \in 1 .. Len(stack) - 1 : stack[i].event.type = "off"
StackBound == Len(stack) + Cardinality(Sounding) <= Cardinality(Voice) + 1

ChokeInv == setup \in Setups /\ EventsOK /\ FramesLooked /\ InnerOffs /\ StackBound

-----------------------------------------------------------------------------
(* Counting voices.                                                        *)

LEMMA VoicesFinite ==
  ASSUME setup \in Setups
  PROVE  IsFiniteSet(Voice) /\ Cardinality(Voice) \in Nat
<1>1. setup.maxVoices \in Nat /\ MinOverflow \in Nat
  BY VoicesAssumption
<1>2. NumVoices \in Nat
  BY VoicesAssumption DEF NumVoices, Limit, Owner
<1>3. (NumVoices * 3) \div 2 \in Nat
  BY <1>2
<1>4. Overflow \in Nat
  BY <1>1, <1>3 DEF Overflow
<1>5. Least(setup.maxVoices, NumVoices + Overflow) \in Nat
  BY <1>1, <1>2, <1>4 DEF Least
<1>6. IsFiniteSet(Voice)
  BY <1>5, FS_Interval DEF Voice
<1> QED BY <1>6, FS_CardinalityType

LEMMA FewSound ==
  ASSUME setup \in Setups, NEW S, S \subseteq Voice
  PROVE  IsFiniteSet(S) /\ Cardinality(S) \in Nat /\ Cardinality(S) <= Cardinality(Voice)
BY VoicesFinite, FS_Subset, FS_CardinalityType

LEMMA FewerSound ==
  ASSUME setup \in Setups, NEW S, NEW T, S \subseteq Voice, T \subseteq S
  PROVE  Cardinality(T) <= Cardinality(S)
BY FewSound, FS_Subset

-----------------------------------------------------------------------------
(* What a step may do to a voice: leave it alone, or nothing that a choke  *)
(* could still have to stop.                                               *)
Settled(v) ==
  \/ /\ voice'[v].offed = voice[v].offed /\ voice'[v].event = voice[v].event
     /\ voice'[v].region = voice[v].region
     /\ voice'[v].state = "idle" <=> voice[v].state = "idle"
  \/ voice'[v].offed \/ voice'[v].event.type \notin {"on", "cc"}

LEMMA SettledKeeps ==
  ASSUME UNCHANGED <<setup, unmet>>, \A v \in Voice : Settled(v)
  PROVE  /\ Sounding' \subseteq Sounding
         /\ \A f : Looked(f) => Looked(f)'
<1>1. Voice' = Voice
  BY SetupKept
<1>2. Sounding' \subseteq Sounding
  BY <1>1 DEF Sounding, Settled
<1>3. ASSUME NEW f, Looked(f) PROVE Looked(f)'
  <2>1. ASSUME NEW v \in Voice, v < f.from
        PROVE  ~Chokable(voice[v], FirstLayer(f), f.event)'
    <3>1. ~Chokable(voice[v], FirstLayer(f), f.event)
      BY <1>3, <2>1 DEF Looked
    <3> QED BY <2>1, <3>1 DEF Chokable, SwitchedOn, Condition, Layers, Settled
  <2> QED BY <1>1, <1>3, <2>1 DEF Looked
<1> QED BY <1>2, <1>3

LEMMA OffSettles ==
  ASSUME IInv, NEW v \in Voice, voice'[v] \in {voice[v], Release(voice[v]), Off(voice[v])}
  PROVE  Settled(v)
<1>1. IsVoice(voice[v])
  BY DEF IInv, VoicesOK
<1>2. /\ Release(voice[v]).event = voice[v].event /\ Release(voice[v]).offed = voice[v].offed
      /\ Off(voice[v]).offed = TRUE
  BY <1>1 DEF IsVoice, VoiceFields, Release, Off
<1>3. CASE voice'[v] = voice[v]
  BY <1>3 DEF Settled
<1>4. CASE voice'[v] = Release(voice[v])
  BY <1>1, <1>2, <1>4, ReleaseKeeps DEF Settled
<1>5. CASE voice'[v] = Off(voice[v])
  BY <1>2, <1>5 DEF Settled
<1> QED BY <1>3, <1>4, <1>5

-----------------------------------------------------------------------------
(* The steps.                                                              *)

(* Outside a dispatch, or at the beginning of one.                         *)
LEMMA OneDispatch ==
  ASSUME UNCHANGED setup, setup \in Setups, EventsOK',
         stack' = <<>> \/ \E f : Proper(f) /\ f.from = 1 /\ stack' = <<f>>
  PROVE  ChokeInv'
<1>1. Voice' = Voice
  BY SetupKept
<1>2. Len(stack') \in Nat /\ Len(stack') <= 1
  <2>1. ASSUME stack' = <<>> PROVE Len(stack') = 0
    <3>1. Len(<<>>) = 0
      OBVIOUS
    <3> QED BY <2>1, <3>1
  <2>2. CASE \E f : stack' = <<f>>
    <3>1. PICK f : stack' = <<f>>
      BY <2>2
    <3>2. Len(<<f>>) = 1
      OBVIOUS
    <3> QED BY <3>1, <3>2
  <2> QED BY <2>1, <2>2
<1>3. /\ Cardinality(Sounding') \in Nat /\ Cardinality(Sounding') <= Cardinality(Voice)
      /\ Cardinality(Voice) \in Nat
  BY <1>1, FewSound, VoicesFinite DEF Sounding
<1>4. StackBound'
  BY <1>1, <1>2, <1>3 DEF StackBound
<1>5. FramesLooked'
  <2>1. CASE stack' = <<>>
    <3>1. stack' \in Seq({})
      BY <2>1
    <3> QED BY <3>1 DEF FramesLooked
  <2>2. ASSUME NEW f, Proper(f), f.from = 1, stack' = <<f>> PROVE FramesLooked'
    <3>1. Looked(f)'
      BY <2>2, <1>1 DEF Looked, Voice
    <3> DEFINE X == {f}
    <3>2. stack' \in Seq(X) /\ \A g \in X : Proper(g) /\ Looked(g)'
      BY <2>2, <3>1
    <3> HIDE DEF X
    <3> QED BY <3>2 DEF FramesLooked
  <2> QED BY <2>1, <2>2
<1>6. InnerOffs'
  <2>1. \A i : i \notin 1 .. Len(stack') - 1
    BY <1>2
  <2> QED BY <2>1 DEF InnerOffs
<1> QED BY <1>4, <1>5, <1>6 DEF ChokeInv

(* Voices are released or sound on; the stack stays or loses its top.      *)
LEMMA StackStays ==
  ASSUME ChokeInv, UNCHANGED <<setup, unmet>>, EventsOK', \A v \in Voice : Settled(v),
         stack' = stack \/ (stack # <<>> /\ stack' = Tail(stack))
  PROVE  ChokeInv'
<1>1. PICK X : stack \in Seq(X) /\ \A f \in X : Proper(f) /\ Looked(f)
  BY DEF ChokeInv, FramesLooked
<1>2. stack' \in Seq(X) /\ \A f \in X : Proper(f) /\ Looked(f)'
  BY <1>1, SettledKeeps
<1>3. /\ Len(stack) \in Nat /\ Len(stack') \in Nat /\ Len(stack') <= Len(stack)
      /\ \A i \in 1 .. Len(stack') - 1 : \E j \in 1 .. Len(stack) - 1 : stack'[i] = stack[j]
  <2>1. CASE stack' = stack
    BY <1>1, <2>1
  <2>2. CASE stack # <<>> /\ stack' = Tail(stack)
    <3>1. /\ Len(stack') = Len(stack) - 1 /\ Len(stack) \in Nat \ {0}
          /\ \A i \in 1 .. Len(stack') : stack'[i] = stack[i + 1]
      BY <1>1, <2>2
    <3> QED BY <3>1
  <2> QED BY <2>1, <2>2
<1>4. Cardinality(Sounding) \in Nat /\ Cardinality(Sounding') \in Nat
      /\ Cardinality(Sounding') <= Cardinality(Sounding)
  BY SettledKeeps, FewSound, FewerSound DEF ChokeInv, Sounding
<1>5. StackBound'
  BY <1>3, <1>4, SetupKept, VoicesFinite DEF ChokeInv, StackBound
<1>6. InnerOffs'
  BY <1>3 DEF ChokeInv, InnerOffs
<1> QED BY <1>2, <1>5, <1>6 DEF ChokeInv, FramesLooked

(* Releasing a voice or telling it to stop leaves it its event.            *)
LEMMA EventsKept ==
  ASSUME IInv, UNCHANGED setup, EventsOK,
         \A v \in Voice : voice'[v] \in {voice[v], Release(voice[v]), Off(voice[v])}
  PROVE  EventsOK'
<1>1. ASSUME NEW v \in Voice
      PROVE  Release(voice[v]).event = voice[v].event /\ Off(voice[v]).event = voice[v].event
  <2>1. IsVoice(voice[v])
    BY DEF IInv, VoicesOK
  <2> QED BY <2>1 DEF IsVoice, VoiceFields, Release, Off
<1> QED BY <1>1, SetupKept DEF EventsOK

LEMMA NewEvent ==
  ASSUME NEW type, NEW k, NEW x, NEW c, NEW id
  PROVE  IsEvent(Event(type, k, x, c, id)) /\ Event(type, k, x, c, id).type = type
BY DEF IsEvent, EventFields, Event

LEMMA ChangedEvent ==
  ASSUME NEW e, IsEvent(e), NEW x
  PROVE  /\ IsEvent([e EXCEPT !.type = x]) /\ [e EXCEPT !.type = x].type = x
         /\ IsEvent([e EXCEPT !.key = x]) /\ [e EXCEPT !.key = x].type = e.type
BY DEF IsEvent, EventFields

LEMMA MessageChokes ==
  ASSUME IInv, ChokeInv, UNCHANGED setup,
         \/ \E c, k, x : NoteOn(c, k, x) \/ Controller(c, k, x)
         \/ \E i : NoteOff(i)
  PROVE  ChokeInv'
<1>1. PICK e : stack' = <<Frame(e)>> /\ IsEvent(e)
  BY NewEvent DEF NoteOn, Controller, NoteOff
<1>2. Proper(Frame(e)) /\ Frame(e).from = 1
  BY <1>1, NewFrame DEF Frame, Proper
<1>3. \A v \in Voice : voice'[v] \in {voice[v], Release(voice[v]), Off(voice[v])}
  BY DEF NoteOn, Controller, NoteOff
<1>4. EventsOK'
  BY <1>3, EventsKept DEF ChokeInv
<1> QED BY <1>1, <1>2, <1>4, OneDispatch DEF ChokeInv

(* A layer that is skipped had nothing looked at.                          *)
LEMMA SkipChokes ==
  ASSUME ChokeInv, UNCHANGED setup, Skip
  PROVE  ChokeInv'
<1>1. PICK X : stack \in Seq(X) /\ \A f \in X : Proper(f) /\ Looked(f)
  BY DEF ChokeInv, FramesLooked
<1>0. PICK g : g = [stack[1] EXCEPT !.left = stack[1].left \ {Layer}]
  OBVIOUS
<1>2. /\ stack # <<>> /\ UNCHANGED <<voice, unmet>> /\ stack' = [stack EXCEPT ![1] = g]
      /\ ~(stack[1].from > 1)
  BY <1>0 DEF Skip, Considered, Admitted, Top
<1>3. stack[1] \in X /\ Proper(stack[1]) /\ stack[1].from \in Nat
  BY <1>1, <1>2 DEF Looked
<1>4. Proper(g) /\ g.event = stack[1].event /\ g.from = stack[1].from
  BY <1>0, <1>3 DEF Proper, IsFrame, FrameFields
<1>5. /\ Voice' = Voice /\ \A v \in Voice : v \in Nat /\ v # 0 /\ Settled(v)
  BY <1>2, SetupKept DEF Settled, Voice
<1>6. \A v \in Voice : ~(v < g.from)
  BY <1>2, <1>3, <1>4, <1>5
<1>7. Looked(g)'
  <2>1. g.from \in Nat
    BY <1>3, <1>4
  <2> QED BY <1>5, <1>6, <2>1 DEF Looked
<1>8. \A f \in X : Proper(f) /\ Looked(f)'
  BY <1>1, <1>2, <1>5, SettledKeeps
<1> DEFINE Y == X \cup {g}
<1>9. stack' \in Seq(Y)
  BY <1>1, <1>2
<1>10. \A f \in Y : Proper(f) /\ Looked(f)'
  <2>1. \A f \in Y : f \in X \/ f = g
    OBVIOUS
  <2> QED BY <1>4, <1>7, <1>8, <2>1
<1> HIDE DEF Y
<1>11. FramesLooked'
  BY <1>9, <1>10 DEF FramesLooked
<1>12. Len(stack') = Len(stack) /\ \A i \in 1 .. Len(stack) - 1 : stack'[i].event = stack[i].event
  BY <1>1, <1>2, <1>4
<1>13. StackBound'
  <2>1. Sounding' = Sounding
    BY <1>2, <1>5 DEF Sounding
  <2> QED BY <1>5, <1>12, <2>1 DEF ChokeInv, StackBound
<1>14. EventsOK'
  BY <1>2, <1>5 DEF ChokeInv, EventsOK
<1> QED BY <1>11, <1>12, <1>13, <1>14 DEF ChokeInv, InnerOffs

(* A voice that is stopped pays for the dispatch it causes.                *)
LEMMA ChokeChokes ==
  ASSUME IInv, ChokeInv, UNCHANGED setup, Choke
  PROVE  ChokeInv'
<1>1. PICK X : stack \in Seq(X) /\ \A f \in X : Proper(f) /\ Looked(f)
  BY SMTT(40) DEF ChokeInv, FramesLooked
<1>2. /\ stack # <<>> /\ ToChoke # {} /\ ToChoke \subseteq Voice /\ Voice' = Voice
      /\ unmet' = unmet
  BY SetupKept DEF Choke, Considered, ToChoke
<1>3. \E x \in ToChoke : \A y \in ToChoke : x <= y
  BY <1>2, LeastOf, VoicesAreNumbers
<1>4. PICK v : v = CHOOSE u \in ToChoke : \A w \in ToChoke : u <= w
  OBVIOUS
<1>5. v \in ToChoke /\ v \in Voice /\ \A w \in ToChoke : v <= w
  BY <1>2, <1>3, <1>4
<1>6. PICK g : g = [stack[1] EXCEPT !.from = v + 1]
  OBVIOUS
<1>7. PICK s : s = [stack EXCEPT ![1] = g]
  OBVIOUS
<1>8. PICK off : off = [voice[v].event EXCEPT !.type = "off"]
  OBVIOUS
<1>9. /\ voice' = [voice EXCEPT ![v] = Off(@)]
      /\ stack' = s \/ stack' = <<Frame(off)>> \o s
  <2>1. /\ voice' = [voice EXCEPT ![v] = Off(@)]
        /\ stack' = <<>> \o s \/ stack' = <<Frame(off)>> \o s
    BY <1>4, <1>6, <1>7, <1>8 DEF Choke
  <2>2. <<>> \o s = s
    BY <1>1, <1>7
  <2> QED BY <2>1, <2>2
<1>10. stack[1] \in X /\ Proper(stack[1]) /\ Looked(stack[1])
  BY <1>1, <1>2
<1>11. Proper(g) /\ g.event = stack[1].event /\ g.left = stack[1].left /\ g.from = v + 1
  BY <1>6, <1>10 DEF Proper, IsFrame, FrameFields
<1>12. \A u \in Voice : /\ voice'[u] \in {voice[u], Release(voice[u]), Off(voice[u])}
                       /\ u \in Nat /\ Settled(u)
  BY <1>9, OffSettles, VoicesAreNumbers DEF IInv, VoicesOK
<1>13. voice'[v].offed
  BY <1>5, <1>9 DEF IInv, VoicesOK, IsVoice, VoiceFields, Release, Off
<1>14. Looked(g)'
  <2>1. ASSUME NEW u \in Voice, u < v + 1 PROVE ~Chokable(voice[u], FirstLayer(g), g.event)'
    <3>1. CASE u = v
      BY <1>13, <3>1 DEF Chokable
    <3>2. CASE u < v
      <4>1. ~Chokable(voice[u], FirstLayer(g), g.event)
        <5>1. FirstLayer(g) = FirstLayer(stack[1]) /\ Layer = FirstLayer(stack[1])
          BY <1>11 DEF FirstLayer, Layer, Top
        <5>2. CASE u < stack[1].from
          BY <1>10, <1>11, <5>1, <5>2 DEF Looked
        <5>3. CASE ~(u < stack[1].from)
          <6>1. u >= stack[1].from /\ u \notin ToChoke
            BY <1>5, <1>10, <1>12, <3>2, <5>3 DEF Looked
          <6> QED BY <1>11, <5>1, <6>1 DEF ToChoke, Top
        <5> QED BY <5>2, <5>3
      <4> QED BY <1>2, <1>12, <4>1 DEF Chokable, SwitchedOn, Condition, Layers, Settled
    <3> QED BY <1>5, <1>12, <2>1, <3>1, <3>2
  <2> QED BY <1>2, <1>5, <1>11, <1>12, <2>1 DEF Looked
<1>15. EventsOK' /\ IsEvent(voice[v].event)
  BY <1>5, <1>12, EventsKept DEF ChokeInv, EventsOK
<1>16. \A f \in X \cup {g} : Proper(f) /\ Looked(f)'
  <2>1. \A f \in X : Proper(f) /\ Looked(f)'
    BY <1>1, <1>2, <1>12, SettledKeeps
  <2> QED BY <1>11, <1>14, <2>1
<1>17. /\ s \in Seq(X \cup {g}) /\ Len(s) = Len(stack) /\ Len(stack) \in Nat \ {0}
       /\ \A i \in 1 .. Len(s) : s[i].event = stack[i].event
  BY <1>1, <1>2, <1>7, <1>11
<1>18. /\ v \in Sounding /\ v \notin Sounding' /\ Sounding' \subseteq Sounding
       /\ Sounding \subseteq Voice
  BY <1>2, <1>5, <1>12, <1>13, SettledKeeps DEF Sounding, ToChoke, Chokable
<1>19. /\ Cardinality(Sounding) \in Nat /\ Cardinality(Voice) \in Nat
       /\ Cardinality(Sounding') \in Nat /\ Cardinality(Sounding') + 1 <= Cardinality(Sounding)
  <2>1. Sounding' \subseteq Sounding \ {v} /\ Sounding \ {v} \subseteq Voice
    BY <1>18
  <2>2. /\ IsFiniteSet(Sounding) /\ Cardinality(Sounding) \in Nat
        /\ Cardinality(Sounding') \in Nat /\ Cardinality(Sounding \ {v}) \in Nat
        /\ Cardinality(Sounding') <= Cardinality(Sounding \ {v})
    BY <1>18, <2>1, FewSound, FewerSound DEF ChokeInv
  <2>3. Cardinality(Sounding \ {v}) = Cardinality(Sounding) - 1
    BY <1>18, <2>2, FS_RemoveElement
  <2> QED BY <2>2, <2>3, VoicesFinite DEF ChokeInv
<1>20. CASE stack' = s
  <2>1. FramesLooked'
    BY <1>16, <1>17, <1>20 DEF FramesLooked
  <2>2. InnerOffs'
    BY <1>17, <1>20 DEF ChokeInv, InnerOffs
  <2>3. StackBound'
    BY <1>2, <1>17, <1>19, <1>20 DEF ChokeInv, StackBound
  <2> QED BY <1>15, <2>1, <2>2, <2>3 DEF ChokeInv
<1>21. CASE stack' = <<Frame(off)>> \o s
  <2>1. PICK f : f = Frame(off)
    OBVIOUS
  <2>2. Proper(f) /\ f.from = 1 /\ f.event.type = "off"
    <3>1. IsEvent(off) /\ off.type = "off"
      BY <1>8, <1>15, ChangedEvent
    <3>2. f.event = off /\ f.from = 1
      BY <2>1 DEF Frame
    <3>3. IsFrame(f)
      BY <2>1, NewFrame
    <3> QED BY <3>1, <3>2, <3>3 DEF Proper
  <2>3. Looked(f)'
    BY <1>2, <2>2 DEF Looked, Voice
  <2>4. /\ stack' \in Seq(X \cup {g, f}) /\ Len(stack') = Len(s) + 1 /\ stack'[1] = f
        /\ \A i \in 2 .. Len(s) + 1 : stack'[i] = s[i - 1]
    BY <1>17, <1>21, <2>1
  <2>5. FramesLooked'
    <3> DEFINE Y == X \cup {g, f}
    <3>1. \A h \in Y : Proper(h) /\ Looked(h)'
      BY <1>16, <2>2, <2>3
    <3>2. stack' \in Seq(Y)
      BY <2>4
    <3> HIDE DEF Y
    <3> QED BY <3>1, <3>2 DEF FramesLooked
  <2>6. InnerOffs'
    <3>1. ASSUME NEW i \in 2 .. Len(s) PROVE stack'[i].event.type = "off"
      <4>1. i - 1 \in 1 .. Len(stack) - 1 /\ i - 1 \in 1 .. Len(s) /\ i \in 2 .. Len(s) + 1
        BY <1>17
      <4>2. stack'[i] = s[i - 1] /\ s[i - 1].event = stack[i - 1].event
        BY <1>17, <2>4, <4>1
      <4> QED BY <4>1, <4>2 DEF ChokeInv, InnerOffs
    <3> QED BY <1>17, <2>2, <2>4, <3>1 DEF InnerOffs
  <2>7. StackBound'
    BY <1>2, <1>17, <1>19, <2>4 DEF ChokeInv, StackBound
  <2> QED BY <1>15, <2>5, <2>6, <2>7 DEF ChokeInv
<1> QED BY <1>9, <1>20, <1>21

(* Only the outermost dispatch starts voices that can be choked.           *)
LEMMA StartChokes ==
  ASSUME IInv, ChokeInv, UNCHANGED setup, Start
  PROVE  ChokeInv'
<1>1. PICK X : stack \in Seq(X) /\ \A f \in X : Proper(f) /\ Looked(f)
  BY SMTT(40) DEF ChokeInv, FramesLooked
<1>2. stack # <<>> /\ Voice' = Voice /\ unmet' = unmet /\ Proper(Top)
  BY <1>1, SetupKept DEF Start, Starting, Considered, Top
<1>3. PICK stopped : StartVoice(Layer, Top.event, stopped)
  BY DEF Start
<1> DEFINE New == IF Top.event.type = "cc" THEN [Top.event EXCEPT !.key = Layers[Layer].keycenter]
                  ELSE Top.event
<1>4. \A u \in Voice : \/ voice'[u] \in {voice[u], Release(voice[u]), Off(voice[u])}
                      \/ voice'[u].event = New
  <2> DEFINE checked == [u \in Voice |-> IF u \in stopped THEN Off(voice[u]) ELSE voice[u]]
  <2>1. ASSUME NEW v \in FreeVoices(checked), NEW plays,
               voice' = [checked EXCEPT ![v] = Started(Layer, Top.event, plays)]
        PROVE  \A u \in Voice : \/ voice'[u] \in {voice[u], Off(voice[u])}
                                \/ voice'[u].event = New
    <3>1. voice'[v].event = New
      BY <2>1, FreeVoicesAreVoices DEF Started, Idle
    <3>2. \A u \in Voice \ {v} : voice'[u] = checked[u]
      BY <2>1
    <3> QED BY <3>1, <3>2
  <2>2. CASE voice' = checked
    BY <2>2
  <2>3. \/ voice' = checked
        \/ \E v \in FreeVoices(checked), plays \in Outcomes(Layer) :
             voice' = [checked EXCEPT ![v] = Started(Layer, Top.event, plays)]
    BY <1>3 DEF StartVoice
  <2> HIDE DEF New, checked
  <2> QED BY <2>1, <2>2, <2>3
<1>5. PICK f : /\ stack' = <<f>> \o Tail(stack)
               /\ Proper(f) /\ f.from = 1 /\ f.event = Top.event
  <2>1. PICK done : done = [Top EXCEPT !.left = @ \ {Layer}, !.from = 1]
    OBVIOUS
  <2>2. Proper(done) /\ done.from = 1 /\ done.event = Top.event
    BY <1>2, <2>1 DEF Proper, IsFrame, FrameFields
  <2>3. \A h : LET g == [done EXCEPT !.head = h]
               IN Proper(g) /\ g.from = 1 /\ g.event = Top.event
    BY <2>2 DEF Proper, IsFrame, FrameFields
  <2>4. \/ stack' = <<done>> \o Tail(stack)
        \/ \E h : stack' = <<[done EXCEPT !.head = h]>> \o Tail(stack)
    BY <1>3, <2>1 DEF StartVoice
  <2> QED BY <2>2, <2>3, <2>4
<1>6. IsEvent(New) /\ (Top.event.type = "off" => New.type = "off")
  BY <1>2, ChangedEvent DEF Proper
<1> HIDE DEF New
<1>7. EventsOK'
  <2>1. \A u \in Voice : IsVoice(voice[u]) /\ IsEvent(voice[u].event)
    BY DEF IInv, VoicesOK, ChokeInv, EventsOK
  <2>2. ASSUME NEW u \in Voice
        PROVE  Release(voice[u]).event = voice[u].event /\ Off(voice[u]).event = voice[u].event
    BY <2>1 DEF IsVoice, VoiceFields, Release, Off
  <2> QED BY <1>2, <1>4, <1>6, <2>1, <2>2 DEF EventsOK
<1>8. CASE Len(stack) = 1
  <2>1. Tail(stack) = <<>>
    <3>1. Tail(stack) \in Seq(X) /\ Len(Tail(stack)) = 0
      BY <1>1, <1>2, <1>8
    <3> QED BY <3>1, EmptySeq
  <2>2. <<f>> \o <<>> = <<f>>
    OBVIOUS
  <2> QED BY <1>5, <1>7, <2>1, <2>2, OneDispatch DEF ChokeInv
<1>9. CASE Len(stack) # 1
  <2>1. Len(stack) \in Nat /\ Len(stack) > 1 /\ Top.event.type = "off"
    <3>1. Len(stack) \in Nat /\ Len(stack) # 0
      BY <1>1, <1>2, EmptySeq
    <3>2. \A n \in Nat : n # 0 /\ n # 1 => n > 1 /\ 1 \in 1 .. n - 1
      OBVIOUS
    <3>3. Len(stack) > 1 /\ 1 \in 1 .. Len(stack) - 1
      BY <1>9, <3>1, <3>2
    <3> QED BY <3>1, <3>3 DEF ChokeInv, InnerOffs, Top
  <2>2. \A u \in Voice : Settled(u)
    BY <1>4, <1>6, <2>1, OffSettles DEF Settled
  <2>3. /\ stack' \in Seq(X \cup {f}) /\ Len(stack') = Len(stack) /\ stack'[1] = f
        /\ \A i \in 2 .. Len(stack) : stack'[i] = stack[i]
    BY <1>1, <1>5, <2>1
  <2>4. FramesLooked'
    <3>1. Looked(f)'
      BY <1>2, <1>5 DEF Looked, Voice
    <3>2. \A g \in X : Proper(g) /\ Looked(g)'
      BY <1>1, <1>2, <2>2, SettledKeeps
    <3> DEFINE Y == X \cup {f}
    <3>3. \A g \in Y : Proper(g) /\ Looked(g)'
      BY <1>5, <3>1, <3>2
    <3>4. stack' \in Seq(Y)
      BY <2>3
    <3> HIDE DEF Y
    <3> QED BY <3>3, <3>4 DEF FramesLooked
  <2>5. InnerOffs'
    BY <1>5, <2>1, <2>3 DEF ChokeInv, InnerOffs
  <2>6. StackBound'
    <3>1. Cardinality(Sounding) \in Nat /\ Cardinality(Sounding') \in Nat
          /\ Cardinality(Sounding') <= Cardinality(Sounding)
      BY <1>2, <2>2, SettledKeeps, FewSound, FewerSound DEF ChokeInv, Sounding
    <3> QED BY <1>2, <2>1, <2>3, <3>1, VoicesFinite DEF ChokeInv, StackBound
  <2> QED BY <1>7, <2>4, <2>5, <2>6 DEF ChokeInv
<1> QED BY <1>8, <1>9

(* Voices play on or are reset while no dispatch is under way.             *)
LEMMA BlockChokes ==
  ASSUME IInv, ChokeInv, UNCHANGED setup, RenderVoice \/ SilenceVoice
  PROVE  ChokeInv'
<1>1. turns # {} /\ stack' = stack /\ stack = <<>> /\ Voice' = Voice
  BY SetupKept DEF RenderVoice, SilenceVoice, IInv, TurnsOK
<1>2. \A u \in Voice : voice'[u].event \in {voice[u].event, NoEvent}
  <2>1. ASSUME Reset(Turn) PROVE \A u \in Voice : voice'[u].event \in {voice[u].event, NoEvent}
    BY <2>1 DEF Reset, Idle, IInv, VoicesOK
  <2>2. ASSUME NEW loud, voice' = [voice EXCEPT ![Turn] = [Played(@) EXCEPT !.loud = loud]]
        PROVE  \A u \in Voice : voice'[u].event \in {voice[u].event, NoEvent}
    <3>1. \A u \in Voice : IsVoice(voice[u]) => Heard(voice[u], loud).event = voice[u].event
      BY DEF IsVoice, VoiceFields, Played, Heard
    <3>2. \A u \in Voice : voice'[u] \in {voice[u], Heard(voice[u], loud)}
      BY <2>2 DEF IInv, VoicesOK, Heard
    <3> QED BY <3>1, <3>2 DEF IInv, VoicesOK
  <2> QED BY <2>1, <2>2 DEF RenderVoice, SilenceVoice
<1>3. IsEvent(NoEvent)
  BY DEF IsEvent, EventFields, NoEvent
<1>4. EventsOK'
  BY <1>1, <1>2, <1>3 DEF EventsOK, ChokeInv
<1> QED BY <1>1, <1>4, OneDispatch DEF ChokeInv

(* Between messages.                                                       *)
LEMMA SwitchChokes ==
  ASSUME ChokeInv, UNCHANGED setup, NEW r, NEW c, Switch(r, c)
  PROVE  ChokeInv'
<1>1. voice' = voice /\ stack' = <<>>
  BY DEF Switch, Quiescent
<1>2. EventsOK'
  BY <1>1, SetupKept DEF ChokeInv, EventsOK
<1> QED BY <1>1, <1>2, OneDispatch DEF ChokeInv

(* Everything else leaves the voices alone.                                *)
LEMMA QuietChokes ==
  ASSUME ChokeInv, UNCHANGED setup, Return \/ BeginBlock \/ AllSoundOff \/ UNCHANGED vars
  PROVE  ChokeInv'
<1>1. /\ UNCHANGED <<voice, unmet>>
      /\ stack' = stack \/ (stack # <<>> /\ stack' = Tail(stack))
  BY DEF Return, BeginBlock, AllSoundOff, vars
<1>2. EventsOK' /\ \A v \in Voice : Settled(v)
  BY <1>1, SetupKept DEF ChokeInv, EventsOK, Settled
<1> QED BY <1>1, <1>2, StackStays

-----------------------------------------------------------------------------
(* The theorems.                                                           *)

LEMMA InitChokes == Init => ChokeInv
<1> SUFFICES ASSUME Init PROVE ChokeInv
  OBVIOUS
<1>1. setup \in Setups /\ stack = <<>>
  BY DEF Init
<1>2. EventsOK
  BY DEF Init, EventsOK, Idle, NoEvent, IsEvent, EventFields
<1>3. FramesLooked
  <2>1. stack \in Seq({})
    BY <1>1
  <2> QED BY <2>1 DEF FramesLooked
<1>4. Len(stack) = 0
  BY <1>1
<1>5. InnerOffs
  BY <1>4 DEF InnerOffs
<1>6. StackBound
  <2>1. /\ Cardinality(Sounding) \in Nat /\ Cardinality(Sounding) <= Cardinality(Voice)
        /\ Cardinality(Voice) \in Nat
    BY <1>1, FewSound, VoicesFinite DEF Sounding
  <2> QED BY <1>4, <2>1 DEF StackBound
<1> QED BY <1>1, <1>2, <1>3, <1>5, <1>6 DEF ChokeInv

LEMMA NextChokes == IInv /\ ChokeInv /\ [Next]_vars => ChokeInv'
<1> SUFFICES ASSUME IInv, ChokeInv, [Next]_vars PROVE ChokeInv'
  OBVIOUS
<1>1. CASE UNCHANGED vars
  <2>1. UNCHANGED setup
    BY <1>1 DEF vars
  <2> QED BY <1>1, <2>1, QuietChokes
<1> QED BY <1>1, MessageChokes, SwitchChokes, SkipChokes, ChokeChokes, StartChokes, BlockChokes,
           QuietChokes DEF Next

THEOREM ChokesInvariant == Spec => []ChokeInv
BY Invariance, InitChokes, NextChokes, PTL DEF Spec

(* A choke dispatches a release that may choke again: however the          *)
(* instrument is laid out, there are no more levels than voices, and one.  *)
THEOREM RecursionIsBounded == Spec => []RecursionBounded
<1>1. ChokeInv => RecursionBounded
  <2> SUFFICES ASSUME ChokeInv PROVE RecursionBounded
    OBVIOUS
  <2>1. Cardinality(Sounding) \in Nat /\ Cardinality(Voice) \in Nat
    BY FewSound, VoicesFinite DEF ChokeInv, Sounding
  <2>2. Len(stack) \in Nat
    BY DEF ChokeInv, FramesLooked
  <2> QED BY <2>1, <2>2 DEF ChokeInv, StackBound, RecursionBounded
<1> QED BY <1>1, ChokesInvariant, PTL

(* When Synth::Impl::startVoice is reached, checkOffGroups has left no     *)
(* voice sounding that the new one chokes, in any order of chokes and of   *)
(* the releases they start.                                                *)
THEOREM ChokesAreComplete == Spec => ChokesComplete
<1>1. ASSUME ChokeInv, [Next]_vars,
             Considered, Admitted, Len(stack') = Len(stack), stack'[1].left # Top.left,
             NEW v \in Voice
      PROVE  ~Chokable(voice[v], Layer, Top.event)
  <2>1. PICK X : stack \in Seq(X) /\ \A f \in X : Proper(f) /\ Looked(f)
    BY <1>1 DEF ChokeInv, FramesLooked
  <2>2. stack # <<>> /\ Proper(Top) /\ Looked(Top) /\ Len(stack) \in Nat
    BY <1>1, <2>1 DEF Considered, Top
  <2>3. stack' # stack
    BY <1>1 DEF Top
  <2>4. ~Choke
    <3>1. SUFFICES ASSUME Choke PROVE FALSE
      BY SMTT(40)
    <3>2. PICK u : \/ stack' = <<>> \o [stack EXCEPT ![1].from = u + 1]
                   \/ \E e : stack' = <<Frame(e)>> \o [stack EXCEPT ![1].from = u + 1]
      BY <3>1 DEF Choke
    <3>3. PICK f : f = [Top EXCEPT !.from = u + 1]
      OBVIOUS
    <3>4. f.left = Top.left
      BY <2>2, <3>3 DEF Proper, IsFrame, FrameFields
    <3>5. PICK s : s = [stack EXCEPT ![1] = f]
      OBVIOUS
    <3>6. s \in Seq(X \cup {f}) /\ Len(s) = Len(stack) /\ s[1] = f
      BY <2>1, <2>2, <3>5
    <3>7. stack' = <<>> \o s \/ \E e : stack' = <<Frame(e)>> \o s
      BY <3>2, <3>3, <3>5 DEF Top
    <3>8. CASE stack' = <<>> \o s
      BY <1>1, <3>4, <3>6, <3>8
    <3>9. CASE \E e : stack' = <<Frame(e)>> \o s
      <4>1. PICK e : stack' = <<Frame(e)>> \o s
        BY <3>9
      <4>2. Len(stack') = Len(s) + 1
        BY <3>6, <4>1
      <4> QED BY <1>1, <2>2, <3>6, <4>2
    <3> QED BY <3>7, <3>8, <3>9
  <2>5. Start
    BY <1>1, <2>2, <2>3, <2>4
       DEF Next, vars, NoteOn, Controller, Switch, NoteOff, Quiescent, Skip, Return, Considered, Top,
           BeginBlock, RenderVoice, AllSoundOff, SilenceVoice
  <2> QED BY <1>1, <2>2, <2>5, VoicesAreNumbers
          DEF Start, Starting, ToChoke, Looked, Layer
<1>2. ChokeInv /\ [Next]_vars =>
        [Considered /\ Admitted /\ Len(stack') = Len(stack) /\ stack'[1].left # Top.left =>
           \A v \in Voice : ~Chokable(voice[v], Layer, Top.event)]_vars
  BY <1>1
<1> QED BY <1>2, ChokesInvariant, PTL DEF Spec, ChokesComplete

-----------------------------------------------------------------------------
(* Polyphony: types.                                                       *)

Events == [type : {"on", "off", "cc"}, key : Key, value : Nat, source : Channel,
           channel : Nat, id : Nat]

GoodFrame(f) == IsFrame(f) /\ f.event \in Events /\ f.left \subseteq DOMAIN Layers
GoodVoice(x) ==
  /\ x.age \in Nat /\ (x.state # "idle" => x.region \in DOMAIN Layers /\ x.event \in Events)
  /\ x.state = "playing" => ~Layers[x.region].disabled

FramesOK == \E X : stack \in Seq(X) /\ \A f \in X : GoodFrame(f)
NotesOK == held \in Seq(Events) /\ latest \in [Key -> Nat] /\ begun \in Nat
TypesOK == FramesOK /\ NotesOK /\ \A v \in Voice : GoodVoice(voice[v])

LEMMA SetupTypes ==
  ASSUME setup \in Setups
  PROVE  /\ Layers \in Seq(Region) /\ Mapped \subseteq Key /\ setup.values \subseteq Nat
         /\ setup.channels \subseteq Channel /\ Key \subseteq Nat /\ Channel \subseteq Nat
         /\ Mpe \in BOOLEAN /\ Stealing \in {"first", "oldest", "envelope_and_age"}
         /\ Limit \in [Owner -> Nat]
         /\ \A r \in DOMAIN Layers : Layers[r] \in Region /\ Layers[r].keycenter \in Key
<1>1. /\ Layers \in Seq(Region) /\ setup.values \subseteq Nat /\ setup.channels \subseteq Channel
      /\ Key \subseteq Nat /\ Channel \subseteq Nat /\ Mpe \in BOOLEAN
      /\ Stealing \in {"first", "oldest", "envelope_and_age"} /\ Limit \in [Owner -> Nat]
  BY VoicesAssumption DEF Layers, Mpe, Stealing, Limit
<1>2. \A r \in DOMAIN Layers : Layers[r] \in Region
  BY <1>1
<1>3. \A R \in Region : R.keys \subseteq Key /\ R.keycenter \in Key
  BY DEF Region
<1>4. Mapped \subseteq Key
  BY <1>2, <1>3 DEF Mapped
<1> QED BY <1>1, <1>2, <1>3, <1>4

LEMMA EventTyped ==
  ASSUME NEW type \in {"on", "off", "cc"}, NEW k \in Key, NEW x \in Nat, NEW c \in Channel,
         NEW id \in Nat, Channel \subseteq Nat
  PROVE  Event(type, k, x, c, id) \in Events
BY DEF Event, Events

LEMMA EventChanged ==
  ASSUME NEW e \in Events, NEW type \in {"on", "off", "cc"}, NEW k \in Key
  PROVE  [e EXCEPT !.type = type] \in Events /\ [e EXCEPT !.key = k] \in Events
BY DEF Events

LEMMA FrameGood ==
  ASSUME NEW e \in Events
  PROVE  GoodFrame(Frame(e))
<1>1. IsFrame(Frame(e))
  BY NewFrame
<1>2. Frame(e).event = e /\ Frame(e).left = Visited(e)
  BY DEF Frame
<1>3. Visited(e) \subseteq DOMAIN Layers
  BY DEF Visited
<1> QED BY <1>1, <1>2, <1>3 DEF GoodFrame

LEMMA FramesChange ==
  ASSUME UNCHANGED setup, FramesOK,
         \/ stack' = stack \/ stack' = <<>>
         \/ stack # <<>> /\ stack' = Tail(stack)
         \/ \E f : GoodFrame(f) /\ stack' = <<f>>
         \/ \E f : GoodFrame(f) /\ stack # <<>> /\ stack' = [stack EXCEPT ![1] = f]
         \/ \E f, g : GoodFrame(f) /\ GoodFrame(g) /\ stack # <<>>
                      /\ stack' = <<f>> \o [stack EXCEPT ![1] = g]
         \/ \E f : GoodFrame(f) /\ stack # <<>> /\ stack' = <<f>> \o Tail(stack)
  PROVE  FramesOK'
<1>1. PICK X : stack \in Seq(X) /\ \A f \in X : GoodFrame(f)
  BY DEF FramesOK
<1>2. \A f : GoodFrame(f)' <=> GoodFrame(f)
  BY DEF GoodFrame, Layers
<1>3. ASSUME NEW f, NEW g, GoodFrame(f), GoodFrame(g), stack' \in Seq(X \cup {f, g})
      PROVE  FramesOK'
  <2> DEFINE Y == X \cup {f, g}
  <2>1. \A h \in Y : GoodFrame(h)'
    BY <1>1, <1>2, <1>3
  <2>2. stack' \in Seq(Y)
    BY <1>3
  <2> HIDE DEF Y
  <2> QED BY <2>1, <2>2 DEF FramesOK
<1>4. CASE stack' \in Seq(X)
  BY <1>1, <1>2, <1>4 DEF FramesOK
<1>5. CASE stack' = stack \/ stack' = <<>> \/ (stack # <<>> /\ stack' = Tail(stack))
  <2>1. stack' \in Seq(X)
    <3>1. CASE stack # <<>> /\ stack' = Tail(stack)
      BY <1>1, <3>1
    <3>2. CASE stack' = <<>>
      BY <3>2
    <3> QED BY <1>1, <1>5, <3>1, <3>2
  <2> QED BY <1>4, <2>1
<1>6. ASSUME NEW f, GoodFrame(f), stack' = <<f>>
      PROVE  FramesOK'
  <2>1. stack' \in Seq(X \cup {f, f})
    BY <1>6
  <2> QED BY <1>3, <1>6, <2>1
<1>7. ASSUME NEW f, GoodFrame(f), stack # <<>>, stack' = [stack EXCEPT ![1] = f]
      PROVE  FramesOK'
  <2>1. stack' \in Seq(X \cup {f, f})
    BY <1>1, <1>7
  <2> QED BY <1>3, <1>7, <2>1
<1>8. ASSUME NEW f, NEW g, GoodFrame(f), GoodFrame(g), stack # <<>>,
             stack' = <<f>> \o [stack EXCEPT ![1] = g]
      PROVE  FramesOK'
  <2>1. stack' \in Seq(X \cup {f, g})
    BY <1>1, <1>8
  <2> QED BY <1>3, <1>8, <2>1
<1>9. ASSUME NEW f, GoodFrame(f), stack # <<>>, stack' = <<f>> \o Tail(stack)
      PROVE  FramesOK'
  <2>1. stack' \in Seq(X \cup {f, f})
    BY <1>1, <1>9
  <2> QED BY <1>3, <1>9, <2>1
<1> QED BY <1>5, <1>6, <1>7, <1>8, <1>9

(* A voice is released, told to stop or left alone.                        *)
LEMMA VoicesTyped ==
  ASSUME IInv, UNCHANGED setup, \A v \in Voice : GoodVoice(voice[v]),
         \A v \in Voice : voice'[v] \in {voice[v], Release(voice[v]), Off(voice[v])}
  PROVE  (\A v \in Voice : GoodVoice(voice[v]))'
<1>1. ASSUME NEW v \in Voice PROVE GoodVoice(voice'[v])
  <2>1. IsVoice(voice[v]) /\ GoodVoice(voice[v])
    BY DEF IInv, VoicesOK
  <2>2. /\ Release(voice[v]).age = voice[v].age /\ Off(voice[v]).age = voice[v].age
        /\ Release(voice[v]).event = voice[v].event /\ Off(voice[v]).event = voice[v].event
    BY <2>1 DEF IsVoice, VoiceFields, Release, Off
  <2>3. /\ voice'[v].age = voice[v].age /\ voice'[v].event = voice[v].event
        /\ voice'[v].region = voice[v].region
        /\ voice'[v].state = "idle" <=> voice[v].state = "idle"
    BY <2>1, <2>2, ReleaseKeeps, OffKeeps
  <2>4. voice'[v].state = "playing" => voice[v].state = "playing"
    BY <2>1 DEF IsVoice, VoiceFields, Release, Off
  <2> QED BY <2>1, <2>3, <2>4 DEF GoodVoice
<1> QED BY <1>1, SetupKept DEF GoodVoice, Layers

LEMMA MessageTyped ==
  ASSUME IInv, TypesOK, setup \in Setups, UNCHANGED setup,
         NEW c \in setup.channels, NEW k \in Mapped, NEW x \in setup.values,
         NoteOn(c, k, x) \/ Controller(c, k, x)
  PROVE  TypesOK'
<1>1. c \in Channel /\ k \in Key /\ x \in Nat /\ Channel \subseteq Nat /\ begun \in Nat
      /\ begun + 1 \in Nat /\ 0 \in Nat
  BY SetupTypes DEF TypesOK, NotesOK
<1>2. (\A v \in Voice : GoodVoice(voice[v]))'
  <2>1. UNCHANGED voice
    BY DEF NoteOn, Controller
  <2> QED BY <2>1, VoicesTyped DEF TypesOK
<1>3. CASE NoteOn(c, k, x)
  <2>1. PICK e : e = Event("on", k, x, c, begun + 1)
    OBVIOUS
  <2>2. e \in Events
    BY <1>1, <2>1, EventTyped
  <2>3. /\ stack' = <<Frame(e)>> /\ held' = Append(held, e) /\ begun' = begun + 1
        /\ latest' = [latest EXCEPT ![k] = x]
    BY <1>3, <2>1 DEF NoteOn
  <2>4. NotesOK'
    BY <1>1, <2>2, <2>3 DEF TypesOK, NotesOK
  <2>5. FramesOK'
    BY <2>2, <2>3, FrameGood, FramesChange DEF TypesOK
  <2> QED BY <1>2, <2>4, <2>5 DEF TypesOK
<1>4. CASE Controller(c, k, x)
  <2>1. PICK e : e = Event("cc", k, x, c, 0)
    OBVIOUS
  <2>2. e \in Events
    BY <1>1, <2>1, EventTyped
  <2>3. stack' = <<Frame(e)>> /\ begun' = begun + 1 /\ UNCHANGED <<held, latest>>
    BY <1>4, <2>1 DEF Controller
  <2>4. NotesOK'
    BY <1>1, <2>3 DEF TypesOK, NotesOK
  <2>5. FramesOK'
    BY <2>2, <2>3, FrameGood, FramesChange DEF TypesOK
  <2> QED BY <1>2, <2>4, <2>5 DEF TypesOK
<1> QED BY <1>3, <1>4

LEMMA NoteOffTyped ==
  ASSUME IInv, TypesOK, setup \in Setups, UNCHANGED setup, NEW i \in DOMAIN held, NoteOff(i)
  PROVE  TypesOK'
<1>1. PICK n : n = held[i]
  OBVIOUS
<1>2. n \in Events /\ latest[n.key] \in Nat /\ Channel \subseteq Nat
  <2>1. n \in Events
    BY <1>1 DEF TypesOK, NotesOK
  <2>2. n.key \in Key
    BY <2>1 DEF Events
  <2> QED BY <2>1, <2>2, SetupTypes DEF TypesOK, NotesOK
<1>3. PICK e : e = Event("off", n.key, latest[n.key], n.source, n.id)
  OBVIOUS
<1>4. e \in Events
  <2>1. n.key \in Key /\ n.source \in Channel /\ n.id \in Nat
    BY <1>2 DEF Events
  <2> QED BY <1>2, <1>3, <2>1, EventTyped
<1>5. /\ stack' = <<Frame(e)>> /\ UNCHANGED <<latest, begun>>
      /\ held' = SubSeq(held, 1, i - 1) \o SubSeq(held, i + 1, Len(held))
      /\ \A v \in Voice : voice'[v] \in {voice[v], Release(voice[v]), Off(voice[v])}
  BY <1>1, <1>3 DEF NoteOff
<1>6. held' \in Seq(Events)
  <2>1. held \in Seq(Events) /\ i \in 1 .. Len(held)
    BY DEF TypesOK, NotesOK
  <2>2. SubSeq(held, 1, i - 1) \in Seq(Events) /\ SubSeq(held, i + 1, Len(held)) \in Seq(Events)
    BY <2>1
  <2> QED BY <1>5, <2>2
<1>7. FramesOK'
  BY <1>4, <1>5, FrameGood, FramesChange DEF TypesOK
<1>8. (\A v \in Voice : GoodVoice(voice[v]))'
  BY <1>5, VoicesTyped DEF TypesOK
<1> QED BY <1>5, <1>6, <1>7, <1>8 DEF TypesOK, NotesOK

LEMMA TopTyped ==
  ASSUME TypesOK, setup \in Setups, stack # <<>>
  PROVE  /\ GoodFrame(Top) /\ GoodFrame(stack[1])
         /\ Top.left # {} => Layer \in Top.left /\ Layer \in DOMAIN Layers
<1>1. PICK X : stack \in Seq(X) /\ \A f \in X : GoodFrame(f)
  BY DEF TypesOK, FramesOK
<1>2. stack[1] \in X
  BY <1>1
<1>3. GoodFrame(Top)
  BY <1>1, <1>2 DEF Top
<1>4. ASSUME Top.left # {} PROVE Layer \in Top.left
  <2>1. Top.left \subseteq DOMAIN Layers /\ DOMAIN Layers \subseteq Nat
    BY <1>3, SetupTypes DEF GoodFrame
  <2>2. \E r \in Top.left : \A q \in Top.left : r <= q
    BY <1>4, <2>1, LeastOf
  <2> QED BY <2>2 DEF Layer, FirstLayer
<1> QED BY <1>1, <1>2, <1>3, <1>4 DEF GoodFrame

LEMMA SkipTyped ==
  ASSUME TypesOK, setup \in Setups, UNCHANGED setup, Skip
  PROVE  TypesOK'
<1>1. stack # <<>> /\ UNCHANGED <<voice, held, latest, begun>> /\ GoodFrame(stack[1])
  BY TopTyped DEF Skip, Considered
<1>2. PICK g : g = [stack[1] EXCEPT !.left = stack[1].left \ {Layer}]
  OBVIOUS
<1>3. stack' = [stack EXCEPT ![1] = g]
  BY <1>2 DEF Skip
<1>4. IsFrame(g) /\ g.event = stack[1].event /\ g.left = stack[1].left \ {Layer}
  BY <1>1, <1>2 DEF GoodFrame, IsFrame, FrameFields
<1>5. GoodFrame(g)
  BY <1>1, <1>4 DEF GoodFrame
<1>6. FramesOK'
  BY <1>1, <1>3, <1>5, FramesChange DEF TypesOK
<1> QED BY <1>1, <1>6, SetupKept DEF TypesOK, NotesOK, GoodVoice, Layers

LEMMA ChokeTyped ==
  ASSUME IInv, TypesOK, setup \in Setups, UNCHANGED setup, Choke
  PROVE  TypesOK'
<1>1. stack # <<>> /\ UNCHANGED <<held, latest, begun>> /\ GoodFrame(stack[1])
  BY TopTyped DEF Choke, Considered
<1>2. PICK v : v = CHOOSE u \in ToChoke : \A w \in ToChoke : u <= w
  BY SMTT(40)
<1>3. v \in ToChoke /\ v \in Voice /\ voice[v].state # "idle"
  <2>1. ToChoke # {} /\ ToChoke \subseteq Voice /\ ToChoke \subseteq Nat
    BY VoicesAreNumbers DEF Choke, ToChoke
  <2>2. \E x \in ToChoke : \A y \in ToChoke : x <= y
    BY <2>1, LeastOf
  <2> QED BY <1>2, <2>2, ZenonT(60) DEF ToChoke, Chokable
<1>4. PICK off : off = [voice[v].event EXCEPT !.type = "off"]
  OBVIOUS
<1>5. PICK g : g = [stack[1] EXCEPT !.from = v + 1]
  OBVIOUS
<1>6. /\ voice' = [voice EXCEPT ![v] = Off(@)]
      /\ \/ stack' = <<>> \o [stack EXCEPT ![1] = g]
         \/ stack' = <<Frame(off)>> \o [stack EXCEPT ![1] = g]
  BY <1>2, <1>4, <1>5 DEF Choke
<1>7. GoodFrame(g)
  BY <1>1, <1>5 DEF GoodFrame, IsFrame, FrameFields
<1>8. GoodFrame(Frame(off))
  <2>1. voice[v].event \in Events
    BY <1>3 DEF TypesOK, GoodVoice
  <2>2. off \in Events
    BY <1>4, <2>1 DEF Events
  <2> QED BY <2>2, FrameGood
<1>9. <<>> \o [stack EXCEPT ![1] = g] = [stack EXCEPT ![1] = g]
  <2>1. PICK X : stack \in Seq(X)
    BY DEF TypesOK, FramesOK
  <2>2. [stack EXCEPT ![1] = g] \in Seq(X \cup {g})
    BY <1>1, <2>1
  <2> QED BY <2>2
<1>10. FramesOK'
  BY <1>1, <1>6, <1>7, <1>8, <1>9, FramesChange DEF TypesOK
<1>11. \A u \in Voice : voice'[u] \in {voice[u], Release(voice[u]), Off(voice[u])}
  BY <1>6 DEF IInv, VoicesOK
<1>12. (\A u \in Voice : GoodVoice(voice[u]))'
  BY <1>11, VoicesTyped DEF TypesOK
<1> QED BY <1>1, <1>10, <1>12 DEF TypesOK, NotesOK

(* What the starting voice is given.                                       *)
LEMMA StartedIs ==
  ASSUME NEW r, NEW e, NEW plays
  PROVE  /\ Started(r, e, plays).region = r /\ Started(r, e, plays).age \in Nat
         /\ Started(r, e, plays).event = IF e.type = "cc" THEN [e EXCEPT !.key = Layers[r].keycenter]
                                         ELSE e
BY DEF Started, Idle

LEMMA EnabledPlays ==
  ASSUME NEW r, NEW e, NEW plays \in Outcomes(r), Started(r, e, plays).state = "playing"
  PROVE  ~Layers[r].disabled
<1>1. plays
  BY DEF Started, Idle
<1> QED BY <1>1 DEF Outcomes

(* The outcomes of Start, for the voices that its checks have stopped.     *)
Stopped == CheckPolyphony(Layer, Top.event)
Checked == [v \in Voice |-> IF v \in Stopped THEN Off(voice[v]) ELSE voice[v]]

LEMMA StartOutcomes ==
  ASSUME Start
  PROVE  /\ Starting /\ UNCHANGED <<held, latest, begun, block, callback>>
         /\ \/ /\ FreeVoices(Checked) = {}
               /\ voice' = Checked /\ UNCHANGED <<next, prev, list>>
               /\ stack' = <<[Top EXCEPT !.left = @ \ {Layer}, !.from = 1]>> \o Tail(stack)
            \/ \E v \in FreeVoices(Checked), plays \in Outcomes(Layer) :
                 /\ voice' = [Checked EXCEPT ![v] = Started(Layer, Top.event, plays)]
                 /\ list' = Registered(IF v \in Busy THEN Unregistered(list, v, voice[v].region)
                                       ELSE list, v, Layer)
                 /\ \/ stack' = <<[Top EXCEPT !.left = @ \ {Layer}, !.from = 1]>> \o Tail(stack)
                    \/ \E h : stack' = <<[[Top EXCEPT !.left = @ \ {Layer}, !.from = 1]
                                            EXCEPT !.head = h]>> \o Tail(stack)
<1>1. StartVoice(Layer, Top.event, Stopped) /\ Starting
      /\ UNCHANGED <<held, latest, begun, block, callback>>
  BY DEF Start, Stopped
<1> QED BY <1>1 DEF StartVoice, Checked

LEMMA StartTyped ==
  ASSUME IInv, TypesOK, setup \in Setups, UNCHANGED setup, Start
  PROVE  TypesOK'
<1>1. /\ stack # <<>> /\ UNCHANGED <<held, latest, begun>> /\ GoodFrame(Top)
      /\ Layer \in DOMAIN Layers
  BY StartOutcomes, TopTyped DEF Starting, Considered
<1>2. PICK f : GoodFrame(f) /\ stack' = <<f>> \o Tail(stack)
  <2>1. PICK g : g = [Top EXCEPT !.left = @ \ {Layer}, !.from = 1]
    OBVIOUS
  <2>2. GoodFrame(g) /\ \A h : GoodFrame([g EXCEPT !.head = h])
    <3>1. IsFrame(g) /\ g.event = Top.event /\ g.left = Top.left \ {Layer}
      BY <1>1, <2>1 DEF GoodFrame, IsFrame, FrameFields
    <3>2. ASSUME NEW h PROVE LET k == [g EXCEPT !.head = h]
                             IN IsFrame(k) /\ k.event = g.event /\ k.left = g.left
      BY <3>1 DEF IsFrame, FrameFields
    <3> QED BY <1>1, <3>1, <3>2 DEF GoodFrame
  <2>3. \/ stack' = <<g>> \o Tail(stack) \/ \E h : stack' = <<[g EXCEPT !.head = h]>> \o Tail(stack)
    BY <2>1, StartOutcomes
  <2> QED BY <2>2, <2>3
<1>3. FramesOK'
  BY <1>1, <1>2, FramesChange DEF TypesOK
<1>4. \A u \in Voice : \/ voice'[u] \in {voice[u], Release(voice[u]), Off(voice[u])}
                       \/ \E plays \in Outcomes(Layer) : voice'[u] = Started(Layer, Top.event, plays)
  <2>1. voice' = Checked \/ \E v \in FreeVoices(Checked), plays \in Outcomes(Layer) :
                               voice' = [Checked EXCEPT ![v] = Started(Layer, Top.event, plays)]
    BY StartOutcomes
  <2> QED BY <2>1 DEF Checked
<1>5. ASSUME NEW plays \in Outcomes(Layer) PROVE GoodVoice(Started(Layer, Top.event, plays))
  <2>1. Top.event \in Events
    BY <1>1 DEF GoodFrame
  <2>2. Layers[Layer].keycenter \in Key
    BY <1>1, SetupTypes
  <2>3. [Top.event EXCEPT !.key = Layers[Layer].keycenter] \in Events
    BY <2>1, <2>2 DEF Events
  <2>4. Started(Layer, Top.event, plays).event \in Events
    BY <2>1, <2>3, StartedIs
  <2>5. /\ Started(Layer, Top.event, plays).age \in Nat
        /\ Started(Layer, Top.event, plays).region = Layer
    BY StartedIs
  <2>6. ASSUME Started(Layer, Top.event, plays).state = "playing" PROVE ~Layers[Layer].disabled
    BY <2>6, EnabledPlays
  <2> QED BY <1>1, <2>4, <2>5, <2>6 DEF GoodVoice
<1>6. ASSUME NEW u \in Voice PROVE GoodVoice(voice'[u])
  <2>1. IsVoice(voice[u]) /\ GoodVoice(voice[u])
    BY DEF IInv, VoicesOK, TypesOK
  <2>2. /\ Release(voice[u]).age = voice[u].age /\ Off(voice[u]).age = voice[u].age
        /\ Release(voice[u]).event = voice[u].event /\ Off(voice[u]).event = voice[u].event
        /\ Release(voice[u]).state = "playing" => voice[u].state = "playing"
        /\ Off(voice[u]).state = "playing" => voice[u].state = "playing"
    BY <2>1 DEF IsVoice, VoiceFields, Release, Off
  <2>3. GoodVoice(Release(voice[u])) /\ GoodVoice(Off(voice[u]))
    BY <2>1, <2>2, ReleaseKeeps, OffKeeps DEF GoodVoice
  <2> QED BY <1>4, <1>5, <2>1, <2>3
<1>7. (\A u \in Voice : GoodVoice(voice[u]))'
  BY <1>6, SetupKept DEF GoodVoice, Layers
<1> QED BY <1>1, <1>3, <1>7 DEF TypesOK, NotesOK

(* Voices play on, are reset or are left alone.                            *)
LEMMA OthersTyped ==
  ASSUME IInv, TypesOK, setup \in Setups, UNCHANGED setup,
         \/ Return \/ BeginBlock \/ AllSoundOff \/ RenderVoice \/ SilenceVoice \/ UNCHANGED vars
         \/ \E r, c : Switch(r, c)
  PROVE  TypesOK'
<1>1. FramesOK'
  <2>1. stack' = stack \/ (stack # <<>> /\ stack' = Tail(stack))
    BY DEF Return, BeginBlock, AllSoundOff, RenderVoice, SilenceVoice, Switch, vars
  <2> QED BY <2>1, FramesChange DEF TypesOK
<1>2. NotesOK'
  <2>1. (held' = held \/ held' = <<>>) /\ UNCHANGED <<latest, begun>>
    BY DEF Return, BeginBlock, AllSoundOff, RenderVoice, SilenceVoice, Switch, vars
  <2>2. <<>> \in Seq(Events)
    OBVIOUS
  <2> QED BY <2>1, <2>2 DEF TypesOK, NotesOK
<1>3. ASSUME NEW u \in Voice PROVE GoodVoice(voice'[u])
  <2>1. IsVoice(voice[u]) /\ GoodVoice(voice[u])
    BY DEF IInv, VoicesOK, TypesOK
  <2>2. GoodVoice(Idle)
    BY DEF Idle, GoodVoice
  <2>3. ASSUME NEW loud PROVE GoodVoice(Heard(voice[u], loud))
    <3>1. Heard(voice[u], loud).age \in Nat /\ Heard(voice[u], loud).event = voice[u].event
      BY <2>1 DEF IsVoice, VoiceFields, Heard, Played, GoodVoice
    <3> QED BY <2>1, <3>1, HeardKeeps DEF GoodVoice
  <2>4. ASSUME Reset(Turn) PROVE voice'[u] \in {voice[u], Idle}
    BY <2>4 DEF Reset, IInv, VoicesOK
  <2>5. ASSUME NEW loud, voice' = [voice EXCEPT ![Turn] = [Played(@) EXCEPT !.loud = loud]]
        PROVE  voice'[u] \in {voice[u], Heard(voice[u], loud)}
    BY <2>5 DEF IInv, VoicesOK, Heard
  <2> QED BY <2>1, <2>2, <2>3, <2>4, <2>5
          DEF Return, BeginBlock, AllSoundOff, RenderVoice, SilenceVoice, Switch, vars
<1>4. (\A u \in Voice : GoodVoice(voice[u]))'
  BY <1>3, SetupKept DEF GoodVoice, Layers
<1> QED BY <1>1, <1>2, <1>4 DEF TypesOK

(* Frames, notes and voices hold what the code puts into them, for every    *)
(* instrument and number of voices.                                         *)
THEOREM TypesInvariant == Spec => []TypesOK
<1>1. Init => TypesOK
  <2> SUFFICES ASSUME Init PROVE TypesOK
    OBVIOUS
  <2>1. stack \in Seq({}) /\ held \in Seq(Events) /\ latest \in [Key -> Nat] /\ begun \in Nat
    BY DEF Init
  <2>2. FramesOK
    BY <2>1 DEF FramesOK
  <2>3. \A v \in Voice : GoodVoice(voice[v])
    BY DEF Init, Idle, GoodVoice
  <2> QED BY <2>1, <2>2, <2>3 DEF TypesOK, NotesOK
<1>2. IInv /\ ChokeInv /\ TypesOK /\ [Next]_vars => TypesOK'
  <2> SUFFICES ASSUME IInv, ChokeInv, TypesOK, [Next]_vars PROVE TypesOK'
    OBVIOUS
  <2>1. setup \in Setups
    BY DEF ChokeInv
  <2>2. CASE UNCHANGED vars
    <3>1. UNCHANGED setup
      BY <2>2 DEF vars
    <3> QED BY <2>1, <2>2, <3>1, OthersTyped
  <2> QED BY <2>1, <2>2, MessageTyped, NoteOffTyped, SkipTyped, ChokeTyped, StartTyped, OthersTyped
          DEF Next
<1> QED BY <1>1, <1>2, Invariance, ChokesInvariant, PTL DEF Spec

-----------------------------------------------------------------------------
(* Recursive functions on an interval exist.                               *)

IsRun(g, N, S, a, F) ==
  g \in [0 .. N -> S] /\ g[0] = a /\ \A n \in 1 .. N : g[n] = F[n][g[n - 1]]

LEMMA Recursion ==
  ASSUME NEW N \in Nat, NEW S, NEW a \in S, NEW F \in [1 .. N -> [S -> S]]
  PROVE  \E g : IsRun(g, N, S, a, F)
<1> DEFINE Run(g, n) == /\ g \in [0 .. n -> S] /\ g[0] = a
                        /\ \A m \in 1 .. n : g[m] = F[m][g[m - 1]]
           Bad == {n \in 0 .. N : ~\E g : Run(g, n)}
<1>1. Bad = {}
  <2>1. SUFFICES ASSUME Bad # {} PROVE FALSE
    OBVIOUS
  <2>2. Bad \subseteq Nat
    OBVIOUS
  <2>3. PICK n \in Bad : \A m \in Bad : n <= m
    <3> HIDE DEF Bad
    <3> QED BY <2>1, <2>2, LeastOf
  <2>4. n # 0
    <3>1. SUFFICES ASSUME n = 0 PROVE FALSE
      OBVIOUS
    <3>2. PICK g : g = [m \in 0 .. 0 |-> a]
      OBVIOUS
    <3>3. Run(g, 0)
      BY <3>2
    <3> QED BY <2>3, <3>1, <3>3
  <2>5. n - 1 \in 0 .. N /\ n \in 1 .. N /\ n \in Nat /\ ~(n <= n - 1)
    BY <2>3, <2>4
  <2>6. n - 1 \notin Bad
    <3> HIDE DEF Bad
    <3> QED BY <2>3, <2>5
  <2>7. PICK g : Run(g, n - 1)
    BY <2>5, <2>6
  <2>8. PICK h : h = [m \in 0 .. n |-> IF m = n THEN F[n][g[n - 1]] ELSE g[m]]
    OBVIOUS
  <2>9. g[n - 1] \in S /\ F[n] \in [S -> S] /\ F[n][g[n - 1]] \in S
    BY <2>5, <2>7
  <2>10. h \in [0 .. n -> S]
    <3>1. ASSUME NEW m \in 0 .. n, m # n PROVE g[m] \in S
      <4>1. m \in 0 .. n - 1
        BY <2>5, <3>1
      <4> QED BY <2>7, <4>1
    <3> QED BY <2>8, <2>9, <3>1
  <2>11. h[0] = a
    BY <2>5, <2>7, <2>8
  <2>12. ASSUME NEW m \in 1 .. n PROVE h[m] = F[m][h[m - 1]]
    <3>1. m \in 0 .. n /\ m - 1 \in 0 .. n /\ m - 1 # n /\ h[m - 1] = g[m - 1]
      BY <2>5, <2>8
    <3>2. CASE m = n
      BY <2>8, <3>1, <3>2
    <3>3. CASE m # n
      <4>1. m \in 1 .. n - 1 /\ h[m] = g[m]
        BY <2>5, <2>8, <3>1, <3>3
      <4> QED BY <2>7, <3>1, <4>1
    <3> QED BY <3>2, <3>3
  <2> QED BY <2>3, <2>10, <2>11, <2>12
<1>2. PICK g : Run(g, N)
  <2>1. N \in 0 .. N
    OBVIOUS
  <2> QED BY <1>1, <2>1
<1>3. IsRun(g, N, S, a, F)
  BY <1>2 DEF IsRun
<1> QED BY <1>3

-----------------------------------------------------------------------------
(* Rings.                                                                  *)

(* The walk along the pointers n from v.                                   *)
LEMMA WalkIs ==
  ASSUME setup \in Setups, next \in [Voice -> Voice], NEW v \in Voice
  PROVE  \E w \in [0 .. Cardinality(Voice) -> Voice] :
           /\ w[0] = v /\ \A n \in 1 .. Cardinality(Voice) : w[n] = next[w[n - 1]]
           /\ Ring(v) = {w[n] : n \in 0 .. Cardinality(Voice)}
<1>1. PICK N : N = Cardinality(Voice)
  OBVIOUS
<1>2. N \in Nat
  BY <1>1, VoicesFinite
<1> DEFINE F == [n \in 1 .. N |-> next]
           Equation(g) == g = [n \in 0 .. N |-> IF n = 0 THEN v ELSE next[g[n - 1]]]
<1>3. \E g \in [0 .. N -> Voice] : Equation(g)
  <2>1. F \in [1 .. N -> [Voice -> Voice]]
    OBVIOUS
  <2>2. PICK g : IsRun(g, N, Voice, v, F)
    <3> HIDE DEF F
    <3> QED BY <1>2, <2>1, Recursion
  <2>3. \A n \in 0 .. N : n = 0 \/ (n \in 1 .. N /\ F[n] = next)
    BY <1>2
  <2>4. Equation(g) /\ g \in [0 .. N -> Voice]
    BY <2>2, <2>3 DEF IsRun
  <2> QED BY <2>4
<1>4. PICK w : w = CHOOSE g : Equation(g)
  OBVIOUS
<1>5. Equation(w)
  BY <1>3, <1>4
<1>6. Ring(v) = {w[n] : n \in 0 .. N}
  BY <1>1, <1>4 DEF Ring
<1>7. w[0] = v /\ \A n \in 1 .. N : w[n] = next[w[n - 1]]
  BY <1>2, <1>5
<1>8. w \in [0 .. N -> Voice]
  <2>1. PICK g \in [0 .. N -> Voice] : Equation(g)
    BY <1>3
  <2> DEFINE Bad == {n \in 0 .. N : w[n] \notin Voice}
  <2>2. Bad = {}
    <3>1. SUFFICES ASSUME Bad # {} PROVE FALSE
      OBVIOUS
    <3>2. PICK n \in Bad : \A m \in Bad : n <= m
      <4>1. Bad \subseteq Nat
        OBVIOUS
      <4> HIDE DEF Bad
      <4> QED BY <3>1, <4>1, LeastOf
    <3>3. n # 0
      BY <1>7
    <3>4. n - 1 \in 0 .. N /\ n \in 1 .. N /\ ~(n <= n - 1)
      BY <1>2, <3>2, <3>3
    <3>5. w[n - 1] \in Voice
      BY <3>2, <3>4
    <3>6. w[n] = next[w[n - 1]]
      BY <1>7, <3>4
    <3> QED BY <3>5, <3>6
  <2>3. \A n \in 0 .. N : w[n] \in Voice
    BY <2>2
  <2> QED BY <1>5, <2>3
<1> QED BY <1>1, <1>6, <1>7, <1>8

(* The walk from a voice comes back to it.                                 *)
LEMMA WalkReturns ==
  ASSUME setup \in Setups, Mirror(Voice, next, prev), NEW v \in Voice,
         NEW w \in [0 .. Cardinality(Voice) -> Voice], w[0] = v,
         \A n \in 1 .. Cardinality(Voice) : w[n] = next[w[n - 1]]
  PROVE  \E p \in 1 .. Cardinality(Voice) : w[p] = v
<1>1. PICK N : N = Cardinality(Voice)
  OBVIOUS
<1>2. N \in Nat /\ IsFiniteSet(Voice)
  BY <1>1, VoicesFinite
<1>3. PICK i, j \in 0 .. N : i # j /\ w[i] = w[j]
  <2>1. IsFiniteSet(0 .. N) /\ Cardinality(0 .. N) = N + 1
    BY <1>2, FS_Interval
  <2> QED BY <1>1, <1>2, <2>1, FS_PigeonHole, SMTT(40)
<1> DEFINE Twice == {m \in 0 .. N : \E n \in 0 .. N : m < n /\ w[m] = w[n]}
<1>4. Twice # {} /\ Twice \subseteq Nat
  <2>1. i < j \/ j < i
    BY <1>2, <1>3
  <2> QED BY <1>3, <2>1
<1>5. PICK m \in Twice : \A k \in Twice : m <= k
  <2> HIDE DEF Twice
  <2> QED BY <1>4, LeastOf
<1>6. PICK n \in 0 .. N : m < n /\ w[m] = w[n]
  BY <1>5
<1>7. m = 0
  <2>1. SUFFICES ASSUME m # 0 PROVE FALSE
    OBVIOUS
  <2>2. m \in 1 .. N /\ n \in 1 .. N /\ m - 1 \in 0 .. N /\ n - 1 \in 0 .. N /\ m - 1 < n - 1
        /\ ~(m <= m - 1)
    BY <1>2, <1>5, <1>6, <2>1
  <2>3. w[m] = next[w[m - 1]] /\ w[n] = next[w[n - 1]]
    BY <1>1, <2>2
  <2>4. w[m - 1] \in Voice /\ w[n - 1] \in Voice
    BY <1>1, <2>2
  <2>5. w[m - 1] = w[n - 1]
    <3>1. prev[next[w[m - 1]]] = w[m - 1] /\ prev[next[w[n - 1]]] = w[n - 1]
      BY <2>4 DEF Mirror
    <3> QED BY <1>6, <2>3, <3>1
  <2> QED BY <1>5, <2>2, <2>5
<1>8. n \in 1 .. N
  BY <1>2, <1>6, <1>7
<1> QED BY <1>1, <1>6, <1>7, <1>8

(* A ring is the same seen from each of its voices.                        *)
LEMMA RingSymmetric ==
  ASSUME setup \in Setups, Mirror(Voice, next, prev), NEW u \in Voice, NEW v \in Ring(u)
  PROVE  v \in Voice /\ u \in Ring(v)
<1>1. next \in [Voice -> Voice] /\ \A x \in Voice : prev[next[x]] = x
  BY DEF Mirror
<1>2. PICK N : N = Cardinality(Voice)
  OBVIOUS
<1>3. N \in Nat
  BY <1>2, VoicesFinite
<1>4. PICK w \in [0 .. N -> Voice] :
        /\ w[0] = u /\ \A n \in 1 .. N : w[n] = next[w[n - 1]]
        /\ Ring(u) = {w[n] : n \in 0 .. N}
  BY <1>1, <1>2, WalkIs
<1>5. PICK i \in 0 .. N : v = w[i]
  BY <1>4
<1>6. v \in Voice
  BY <1>4, <1>5
<1>7. PICK x \in [0 .. N -> Voice] :
        /\ x[0] = v /\ \A n \in 1 .. N : x[n] = next[x[n - 1]]
        /\ Ring(v) = {x[n] : n \in 0 .. N}
  BY <1>1, <1>2, <1>6, WalkIs
<1>8. ASSUME NEW y \in Ring(v) PROVE prev[y] \in Ring(v)
  <2>1. PICK n \in 0 .. N : y = x[n]
    BY <1>7, <1>8
  <2>2. PICK p \in 1 .. N : x[p] = v
    BY <1>2, <1>6, <1>7, WalkReturns
  <2>3. \A m \in 1 .. N : m - 1 \in 0 .. N /\ x[m - 1] \in Voice /\ prev[x[m]] = x[m - 1]
    BY <1>1, <1>3, <1>7
  <2>4. CASE n = 0
    BY <1>7, <2>1, <2>2, <2>3, <2>4
  <2>5. CASE n # 0
    <3>1. n \in 1 .. N
      BY <1>3, <2>5
    <3> QED BY <1>7, <2>1, <2>3, <3>1
  <2> QED BY <2>4, <2>5
<1> DEFINE Inside == {n \in 0 .. i : w[n] \in Ring(v)}
<1>9. i \in Inside /\ Inside \subseteq Nat
  <2>1. v \in Ring(v)
    <3>1. 0 \in 0 .. N
      BY <1>3
    <3> QED BY <1>7, <3>1
  <2>2. i \in 0 .. i
    BY <1>3, <1>5
  <2> QED BY <1>5, <2>1, <2>2
<1>10. PICK n \in Inside : \A m \in Inside : n <= m
  <2> HIDE DEF Inside
  <2> QED BY <1>9, LeastOf
<1>11. n = 0
  <2>1. SUFFICES ASSUME n # 0 PROVE FALSE
    OBVIOUS
  <2>2. n \in 1 .. N /\ n - 1 \in 0 .. N /\ n - 1 \in 0 .. i /\ ~(n <= n - 1)
    BY <1>3, <1>5, <1>10, <2>1
  <2>3. prev[w[n]] = w[n - 1]
    BY <1>1, <1>4, <2>2
  <2>4. w[n - 1] \in Ring(v)
    BY <1>8, <1>10, <2>3
  <2> QED BY <1>10, <2>2, <2>4
<1> QED BY <1>4, <1>6, <1>10, <1>11

LEMMA RingOfVoices ==
  ASSUME setup \in Setups, Mirror(Voice, next, prev), NEW v \in Voice
  PROVE  v \in Ring(v) /\ Ring(v) \subseteq Voice /\ (next[v] = v => Ring(v) = {v})
<1>1. PICK N : N = Cardinality(Voice) /\ N \in Nat
  BY VoicesFinite
<1>2. PICK w \in [0 .. N -> Voice] :
        /\ w[0] = v /\ \A n \in 1 .. N : w[n] = next[w[n - 1]]
        /\ Ring(v) = {w[n] : n \in 0 .. N}
  BY <1>1, WalkIs DEF Mirror
<1>3. v \in Ring(v) /\ Ring(v) \subseteq Voice
  <2>1. 0 \in 0 .. N
    BY <1>1
  <2> QED BY <1>2, <2>1
<1>4. ASSUME next[v] = v PROVE Ring(v) = {v}
  <2> DEFINE Away == {n \in 0 .. N : w[n] # v}
  <2>1. Away = {}
    <3>1. SUFFICES ASSUME Away # {} PROVE FALSE
      OBVIOUS
    <3>2. PICK n \in Away : \A m \in Away : n <= m
      <4>1. Away \subseteq Nat
        OBVIOUS
      <4> HIDE DEF Away
      <4> QED BY <3>1, <4>1, LeastOf
    <3>3. n # 0
      BY <1>2, <3>2
    <3>4. n \in 1 .. N /\ n - 1 \in 0 .. N /\ ~(n <= n - 1)
      BY <1>1, <3>2, <3>3
    <3>5. w[n] = next[w[n - 1]] /\ w[n - 1] = v
      BY <1>2, <3>2, <3>4
    <3> QED BY <1>4, <3>2, <3>5
  <2> QED BY <1>2, <1>3, <2>1
<1> QED BY <1>3, <1>4

-----------------------------------------------------------------------------
(* The stealers find a voice among their candidates.                       *)

(* The order of integer tuples: a comes before b.                          *)
Lower(a, b, n) == \E m \in 1 .. n : a[m] < b[m] /\ \A k \in 1 .. m - 1 : a[k] = b[k]

LEMMA LowerTransitive ==
  ASSUME NEW n \in Nat, NEW a \in [1 .. n -> Int], NEW b \in [1 .. n -> Int],
         NEW c \in [1 .. n -> Int], Lower(a, b, n), Lower(b, c, n)
  PROVE  Lower(a, c, n)
<1>1. PICK i \in 1 .. n : a[i] < b[i] /\ \A k \in 1 .. i - 1 : a[k] = b[k]
  BY DEF Lower
<1>2. PICK j \in 1 .. n : b[j] < c[j] /\ \A k \in 1 .. j - 1 : b[k] = c[k]
  BY DEF Lower
<1>3. \A k \in 1 .. n : a[k] \in Int /\ b[k] \in Int /\ c[k] \in Int
  OBVIOUS
<1>4. CASE i < j
  <2>1. i \in 1 .. j - 1 /\ \A k \in 1 .. i - 1 : k \in 1 .. j - 1
    BY <1>4
  <2>2. a[i] < c[i] /\ \A k \in 1 .. i - 1 : a[k] = c[k]
    BY <1>1, <1>2, <1>3, <2>1
  <2> QED BY <2>2 DEF Lower
<1>5. CASE j < i
  <2>1. j \in 1 .. i - 1 /\ \A k \in 1 .. j - 1 : k \in 1 .. i - 1
    BY <1>5
  <2>2. a[j] < c[j] /\ \A k \in 1 .. j - 1 : a[k] = c[k]
    BY <1>1, <1>2, <1>3, <2>1
  <2> QED BY <2>2 DEF Lower
<1>6. CASE i = j
  <2>1. a[i] < c[i] /\ \A k \in 1 .. i - 1 : a[k] = c[k]
    BY <1>1, <1>2, <1>3, <1>6
  <2> QED BY <2>1 DEF Lower
<1> QED BY <1>4, <1>5, <1>6

LEMMA LowerTotal ==
  ASSUME NEW n \in Nat, NEW a \in [1 .. n -> Int], NEW b \in [1 .. n -> Int], a # b
  PROVE  Lower(a, b, n) \/ Lower(b, a, n)
<1> DEFINE Differ == {k \in 1 .. n : a[k] # b[k]}
<1>1. Differ # {} /\ Differ \subseteq Nat
  OBVIOUS
<1>2. PICK k \in Differ : \A m \in Differ : k <= m
  <2> HIDE DEF Differ
  <2> QED BY <1>1, LeastOf
<1>3. \A m \in 1 .. k - 1 : m \in 1 .. n /\ ~(k <= m)
  BY <1>2
<1>4. \A m \in 1 .. k - 1 : a[m] = b[m]
  BY <1>2, <1>3
<1>5. k \in 1 .. n /\ (a[k] < b[k] \/ b[k] < a[k])
  BY <1>2
<1> QED BY <1>4, <1>5 DEF Lower

LEMMA LowerIrreflexive ==
  ASSUME NEW n \in Nat, NEW a \in [1 .. n -> Int]
  PROVE  ~Lower(a, a, n)
BY DEF Lower

(* Every finite set has a first element in a strict order.                 *)
LEMMA FirstInOrder ==
  ASSUME NEW S, IsFiniteSet(S), S # {}, NEW R,
         \A i \in S : <<i, i>> \notin R,
         \A i, j, k \in S : <<i, j>> \in R /\ <<j, k>> \in R => <<i, k>> \in R,
         \A i, j \in S : i # j => <<i, j>> \in R \/ <<j, i>> \in R
  PROVE  \E i \in S : \A j \in S \ {i} : <<i, j>> \in R
<1> DEFINE Ahead(i) == {j \in S : <<j, i>> \in R}
           Counts == {Cardinality(Ahead(i)) : i \in S}
<1>1. ASSUME NEW i \in S PROVE Cardinality(Ahead(i)) \in Nat /\ IsFiniteSet(Ahead(i))
  BY FS_Subset, FS_CardinalityType
<1>2. PICK n \in Counts : \A m \in Counts : n <= m
  <2>1. Counts \subseteq Nat /\ Counts # {}
    <3> HIDE DEF Ahead
    <3> QED BY <1>1
  <2> HIDE DEF Counts
  <2> QED BY <2>1, LeastOf
<1>3. PICK i \in S : n = Cardinality(Ahead(i))
  BY <1>2
<1>4. ASSUME NEW j \in S, j # i, <<i, j>> \notin R PROVE FALSE
  <2>1. <<j, i>> \in R
    BY <1>4
  <2>2. Ahead(j) \subseteq Ahead(i) /\ j \in Ahead(i) /\ j \notin Ahead(j)
    BY <2>1
  <2>3. Cardinality(Ahead(j)) <= Cardinality(Ahead(i)) /\ Cardinality(Ahead(j)) # Cardinality(Ahead(i))
    <3>1. IsFiniteSet(Ahead(i))
      BY <1>1
    <3> HIDE DEF Ahead
    <3> QED BY <2>2, <3>1, FS_Subset
  <2>4. Cardinality(Ahead(i)) <= Cardinality(Ahead(j))
    <3>1. Cardinality(Ahead(j)) \in Counts
      BY ZenonT(60)
    <3> HIDE DEF Ahead, Counts
    <3> QED BY <1>2, <1>3, <3>1
  <2>5. Cardinality(Ahead(i)) \in Nat /\ Cardinality(Ahead(j)) \in Nat
    BY <1>1
  <2> HIDE DEF Ahead
  <2> QED BY <2>3, <2>4, <2>5
<1> QED BY <1>4

Width == IF Stealing = "first" THEN 0 ELSE IF Stealing = "oldest" THEN 1 ELSE 5

LEMMA RankTyped ==
  ASSUME setup \in Setups, NEW v \in Voice, GoodVoice(voice[v]), voice[v].state # "idle"
  PROVE  Width \in Nat /\ Rank(voice[v]) \in [1 .. Width -> Int]
<1>1. PICK x : x = voice[v]
  OBVIOUS
<1>2. x.age \in Nat /\ x.event \in Events
  BY <1>1 DEF GoodVoice
<1>3. PICK c : c = [on |-> 2, off |-> 1, cc |-> 0][x.event.type]
  OBVIOUS
<1>4. c \in Int /\ x.event.key \in Int /\ x.event.value \in Int /\ x.event.channel \in Int
  <2>1. /\ x.event.key \in Key /\ x.event.value \in Nat /\ x.event.channel \in Nat
        /\ x.event.type \in {"on", "off", "cc"}
    BY <1>2 DEF Events
  <2>2. \A k \in Key : k \in Int
    <3>1. \A k \in Key : k \in Nat
      BY SetupTypes
    <3> QED BY <3>1
  <2>3. c \in Int
    BY <1>3, <2>1
  <2>4. x.event.key \in Int
    BY <2>1, <2>2, Zenon
  <2> QED BY <2>1, <2>3, <2>4
<1>5. CASE Stealing = "first"
  <2>1. Rank(x) = <<>> /\ Width = 0
    BY <1>5 DEF Rank, Width
  <2>2. <<>> \in [1 .. 0 -> Int]
    OBVIOUS
  <2> QED BY <1>1, <2>1, <2>2
<1>6. CASE Stealing = "oldest"
  <2>1. Rank(x) = <<-x.age>> /\ Width = 1
    BY <1>6 DEF Rank, Width
  <2>2. <<-x.age>> \in [1 .. 1 -> Int]
    BY <1>2
  <2> QED BY <1>1, <2>1, <2>2
<1>7. CASE Stealing \notin {"first", "oldest"}
  <2>1. Rank(x) = <<-x.age, x.event.key, x.event.value, c, x.event.channel>> /\ Width = 5
    BY <1>3, <1>7 DEF Rank, Width
  <2>2. \A a, b, d, e, f \in Int : <<a, b, d, e, f>> \in [1 .. 5 -> Int]
    OBVIOUS
  <2>3. -x.age \in Int
    BY <1>2
  <2>4. <<-x.age, x.event.key, x.event.value, c, x.event.channel>> \in [1 .. 5 -> Int]
    BY <1>4, <2>2, <2>3
  <2> QED BY <1>1, <2>1, <2>4
<1> QED BY <1>5, <1>6, <1>7

(* The candidates of a stealer: places in a list of voices that play.      *)
Candidates(s, from) ==
  /\ IsFiniteSet(from) /\ from \subseteq Nat
  /\ \A i \in from : s[i] \in Voice /\ voice[s[i]].state # "idle"

LEMMA FirstOfChosen ==
  ASSUME setup \in Setups, TypesOK, NEW s, NEW from, Candidates(s, from), from # {}
  PROVE  FirstOf(s, from) \in from
<1> DEFINE rank(i) == Rank(voice[s[i]])
           R == {p \in from \X from : Before(s, p[1], p[2])}
<1>1. \A i \in from : i \in Nat /\ rank(i) \in [1 .. Width -> Int]
  BY RankTyped DEF Candidates, TypesOK
<1>2. Width \in Nat
  BY DEF Width
<1>3. ASSUME NEW i \in from, NEW j \in from
      PROVE  <<i, j>> \in R
               <=> IF rank(i) = rank(j) THEN i < j ELSE Lower(rank(i), rank(j), Width)
  <2>1. <<i, j>> \in R <=> Before(s, i, j)
    OBVIOUS
  <2>2. DOMAIN rank(i) = 1 .. Width
    BY <1>1
  <2>3. Before(s, i, j) <=> IF rank(i) = rank(j) THEN i < j ELSE Lower(rank(i), rank(j), Width)
    <3>1. Before(s, i, j) <=> IF rank(i) = rank(j) THEN i < j
                              ELSE \E n \in DOMAIN rank(i) :
                                     /\ rank(i)[n] < rank(j)[n]
                                     /\ \A m \in 1 .. n - 1 : rank(i)[m] = rank(j)[m]
      BY DEF Before
    <3> HIDE DEF rank
    <3> QED BY <2>2, <3>1 DEF Lower
  <2> HIDE DEF R, rank
  <2> QED BY <2>1, <2>3
<1> HIDE DEF R, rank
<1>4. \A i \in from : <<i, i>> \notin R
  BY <1>1, <1>3
<1>5. ASSUME NEW i \in from, NEW j \in from, NEW k \in from, <<i, j>> \in R, <<j, k>> \in R
      PROVE  <<i, k>> \in R
  <2>1. CASE rank(i) = rank(j) \/ rank(j) = rank(k)
    BY <1>1, <1>3, <1>5, <2>1
  <2>2. CASE rank(i) # rank(j) /\ rank(j) # rank(k)
    <3>1. Lower(rank(i), rank(k), Width)
      BY <1>1, <1>2, <1>3, <1>5, <2>2, LowerTransitive
    <3>2. rank(i) # rank(k)
      BY <1>1, <1>2, <3>1, LowerIrreflexive
    <3> QED BY <1>3, <3>1, <3>2
  <2> QED BY <2>1, <2>2
<1>6. ASSUME NEW i \in from, NEW j \in from, i # j
      PROVE  <<i, j>> \in R \/ <<j, i>> \in R
  <2>1. CASE rank(i) = rank(j)
    <3>1. i < j \/ j < i
      BY <1>1, <1>6
    <3> QED BY <1>3, <2>1, <3>1
  <2>2. CASE rank(i) # rank(j)
    BY <1>1, <1>2, <1>3, <2>2, LowerTotal
  <2> QED BY <2>1, <2>2
<1>7. \E i \in from : \A j \in from \ {i} : <<i, j>> \in R
  BY <1>4, <1>5, <1>6, FirstInOrder DEF Candidates
<1>8. \E i \in from : \A j \in from \ {i} : Before(s, i, j)
  BY <1>7 DEF R
<1> QED BY <1>8 DEF FirstOf

LEMMA TakenChosen ==
  ASSUME setup \in Setups, TypesOK, NEW s, NEW from, Candidates(s, from), from # {}
  PROVE  Taken(s, from) \in from
<1>1. FirstOf(s, from) \in from
  BY FirstOfChosen
<1>2. ASSUME NEW quiet \in SUBSET from, quiet # {} PROVE FirstOf(s, quiet) \in from
  <2>1. Candidates(s, quiet)
    BY FS_Subset DEF Candidates
  <2> QED BY <1>2, <2>1, FirstOfChosen
<1> DEFINE examined ==
             {i \in from : /\ voice[s[i]].age > voice[s[FirstOf(s, from)]].age \div 2
                           /\ \A j \in from : Rank(voice[s[j]]) = Rank(voice[s[i]]) => i <= j}
           quiet == {i \in examined : \A u \in Ring(s[i]) : ~voice[u].loud}
<1>3. Taken(s, from) = FirstOf(s, from) \/ (quiet # {} /\ Taken(s, from) = FirstOf(s, quiet))
  BY DEF Taken
<1>4. quiet \subseteq from
  OBVIOUS
<1> HIDE DEF quiet
<1> QED BY <1>1, <1>2, <1>3, <1>4

-----------------------------------------------------------------------------
(* The voices that play, as sets.                                          *)

PlayingOf(o) == {v \in Voice : ~OffedOrFree(voice[v]) /\ Joins(o, voice[v].region)}
PlayingAs(r) == {v \in Voice : ~OffedOrFree(voice[v]) /\ voice[v].region = r}
Exposed(gone, o, only) ==
  {v \in PlayingOf(o) \ gone : only = None \/ voice[v].region = only}

Held ==
  /\ \A o \in Owner : Cardinality(PlayingOf(o)) <= Allowed(Limit[o])
  /\ \A r \in DOMAIN Layers : Cardinality(PlayingAs(r)) <= Allowed(Layers[r].polyphony)

(* As many places as members, in a list without repetition.                *)
LEMMA PlacesOf ==
  ASSUME NEW V, NEW s \in Seq(V), Distinct(s), NEW A, A \subseteq Members(s)
  PROVE  /\ IsFiniteSet({i \in DOMAIN s : s[i] \in A})
         /\ Cardinality({i \in DOMAIN s : s[i] \in A}) = Cardinality(A)
<1> DEFINE P == {i \in DOMAIN s : s[i] \in A}
           f == [i \in P |-> s[i]]
<1>1. IsFiniteSet(P)
  <2>1. IsFiniteSet(1 .. Len(s))
    BY FS_Interval
  <2>2. P \subseteq 1 .. Len(s)
    OBVIOUS
  <2> QED BY <2>1, <2>2, FS_Subset
<1>2. f \in Bijection(P, A)
  <2>1. f \in [P -> A] /\ \A i, j \in P : f[i] = f[j] => i = j
    BY DEF Distinct
  <2>2. \A a \in A : \E i \in P : f[i] = a
    BY DEF Members
  <2> HIDE DEF f, P
  <2> QED BY <2>1, <2>2 DEF Bijection, Injection, Surjection, IsInjective
<1>3. ExistsBijection(P, A)
  BY <1>2 DEF ExistsBijection
<1> HIDE DEF P
<1>4. Cardinality(A) = Cardinality(P)
  BY <1>1, <1>3, FS_Bijection
<1> QED BY <1>1, <1>4 DEF P

LEMMA ListFacts ==
  ASSUME IInv, NEW o \in Owner
  PROVE  /\ list[o] \in Seq(Voice) /\ Distinct(list[o])
         /\ PlayingOf(o) \subseteq Members(list[o])
         /\ \A i \in DOMAIN list[o] :
              /\ i \in Nat /\ list[o][i] \in Voice /\ voice[list[o][i]].state # "idle"
              /\ Joins(o, voice[list[o][i]].region)
<1>1. /\ list[o] \in Seq(Voice) /\ Distinct(list[o])
      /\ Members(list[o]) = {v \in Busy : Joins(o, voice[v].region)}
  BY DEF IInv, ListsOK
<1>2. PlayingOf(o) \subseteq Members(list[o])
  BY <1>1 DEF PlayingOf, OffedOrFree, Busy
<1>3. \A i \in DOMAIN list[o] : i \in Nat /\ list[o][i] \in Members(list[o])
  BY <1>1 DEF Members
<1> QED BY <1>1, <1>2, <1>3 DEF Busy

LEMMA PlayingIs ==
  ASSUME IInv, NEW o \in Owner
  PROVE  Playing(list[o]) = Cardinality(PlayingOf(o))
<1>1. {i \in DOMAIN list[o] : ~OffedOrFree(voice[list[o][i]])}
        = {i \in DOMAIN list[o] : list[o][i] \in PlayingOf(o)}
  BY ListFacts DEF PlayingOf
<1>2. Cardinality({i \in DOMAIN list[o] : list[o][i] \in PlayingOf(o)}) = Cardinality(PlayingOf(o))
  BY ListFacts, PlacesOf
<1> QED BY <1>1, <1>2 DEF Playing

(* A check either finds fewer voices than its limit, or stops the ring of  *)
(* one of them.                                                            *)
StealOutcome(res, gone, o, limit, only) ==
  \/ /\ res = gone
     /\ Exposed(gone, o, only) = {} \/ Cardinality(Exposed(gone, o, only)) < limit
  \/ \E u \in Exposed(gone, o, only) :
       res = gone \cup Ring(u) /\ ~(Cardinality(Exposed(gone, o, only)) < limit)

LEMMA StealResult ==
  ASSUME IInv, TypesOK, setup \in Setups, NEW o \in Owner, NEW gone, NEW limit, NEW only, NEW channel
  PROVE  StealOutcome(Steal(gone, list[o], limit, only, channel), gone, o, limit, only)
<1> DEFINE s == list[o]
           X == Exposed(gone, o, only)
           T == {i \in Stealable(gone, s) : only = None \/ voice[s[i]].region = only}
           own == {i \in T : Mpe /\ voice[s[i]].event.channel = channel}
           from == IF own # {} THEN own ELSE T
<1>1. T = {i \in DOMAIN s : s[i] \in X}
  <2>1. \A i \in DOMAIN s : i \in T <=> s[i] \in X
    BY ListFacts DEF Stealable, Exposed, PlayingOf
  <2> QED BY <2>1 DEF Stealable
<1>2. IsFiniteSet(T) /\ Cardinality(T) = Cardinality(X) /\ X \subseteq Members(s)
  <2>1. X \subseteq Members(s)
    BY ListFacts DEF Exposed
  <2> HIDE DEF T, X
  <2> QED BY <1>1, <2>1, ListFacts, PlacesOf
<1>3. Steal(gone, s, limit, only, channel)
        = IF from = {} \/ Cardinality(T) < limit THEN gone ELSE gone \cup Ring(s[Taken(s, from)])
  BY DEF Steal
<1>4. from \subseteq T /\ (from = {} <=> T = {})
  OBVIOUS
<1>5. T = {} <=> X = {}
  <2> HIDE DEF X, T
  <2> QED BY <1>1, <1>2 DEF Members
<1>6. ASSUME from # {} PROVE s[Taken(s, from)] \in X
  <2>1. Candidates(s, from)
    <3>1. from \subseteq DOMAIN s
      BY <1>1, <1>4
    <3>2. IsFiniteSet(from)
      <4> HIDE DEF from, T
      <4> QED BY <1>2, <1>4, FS_Subset
    <3> HIDE DEF from
    <3> QED BY <3>1, <3>2, ListFacts DEF Candidates
  <2>2. Taken(s, from) \in from
    <3> HIDE DEF from
    <3> QED BY <1>6, <2>1, TakenChosen
  <2> HIDE DEF from, T
  <2> QED BY <1>1, <1>4, <2>2
<1> HIDE DEF from, T, X, s
<1>7. \/ Steal(gone, s, limit, only, channel) = gone /\ (X = {} \/ Cardinality(X) < limit)
      \/ \E u \in X : /\ Steal(gone, s, limit, only, channel) = gone \cup Ring(u)
                      /\ ~(Cardinality(X) < limit)
  BY <1>2, <1>3, <1>4, <1>5, <1>6
<1> QED BY <1>7 DEF s, X, StealOutcome

-----------------------------------------------------------------------------
(* The checks of an event, one after the other.                            *)

LEMMA OwnersOf ==
  ASSUME setup \in Setups, NEW r \in DOMAIN Layers
  PROVE  /\ Owners(r) \in Seq(Owner) /\ Engine \in Owner /\ InOwners(Engine, r)
         /\ r # None /\ Layers[r].polyphony \in Nat
         /\ \A o : InOwners(o, r) <=> \E n \in 1 .. Len(Owners(r)) : Owners(r)[n] = o
<1>1. Layers[r].group \in Group /\ Layers[r].parents \in Seq(Header) /\ Layers[r].polyphony \in Nat
  <2>1. Layers[r] \in Region
    BY SetupTypes
  <2> QED BY <2>1 DEF Region
<1>2. Owners(r) \in Seq(Owner)
  <2>1. <<Layers[r].group>> \in Seq(Owner) /\ Layers[r].parents \in Seq(Owner) /\ <<Engine>> \in Seq(Owner)
    BY <1>1 DEF Owner
  <2> QED BY <2>1 DEF Owners
<1>3. Owners(r)[Len(Owners(r))] = Engine /\ Len(Owners(r)) \in DOMAIN Owners(r)
  <2>1. PICK a : a = <<Layers[r].group>> \o Layers[r].parents
    OBVIOUS
  <2>2. a \in Seq(Group \cup Header)
    BY <1>1, <2>1
  <2>3. Owners(r) = a \o <<Engine>>
    BY <2>1 DEF Owners
  <2> QED BY <2>2, <2>3
<1>4. DOMAIN Owners(r) = 1 .. Len(Owners(r))
  BY <1>2
<1>5. Engine \in Owner
  BY DEF Owner
<1>6. InOwners(Engine, r)
  BY <1>3 DEF InOwners
<1>7. r # None
  <2>1. DOMAIN Layers = 1 .. Len(Layers) /\ Len(Layers) \in Nat
    BY SetupTypes
  <2> QED BY <2>1 DEF None
<1> QED BY <1>1, <1>2, <1>4, <1>5, <1>6, <1>7 DEF InOwners

(* The voice u is reason enough to stop its ring for a note e of r.        *)
Masked(u, r, e) ==
  /\ Layers[r].notePolyphony # None /\ voice[u].event.key = e.key
  /\ Layers[r].selfMask => voice[u].event.value <= e.value

LEMMA NoteCheck ==
  ASSUME IInv, setup \in Setups, NEW r, NEW e
  PROVE  /\ CheckNote(r, e) \subseteq Voice
         /\ \A v \in CheckNote(r, e) : \E u \in Voice : v \in Ring(u) /\ Masked(u, r, e)
<1> DEFINE s == list[Engine]
           R == Layers[r]
           same == {i \in Stealable({}, s) : /\ Layers[voice[s[i]].region].group = R.group
                                             /\ voice[s[i]].event.key = e.key}
           maskable == {i \in same : ~R.selfMask \/ voice[s[i]].event.value <= e.value}
<1>1. CheckNote(r, e) # {} => R.notePolyphony # None
  BY DEF CheckNote
<1>2. \A v \in CheckNote(r, e) : \E i \in maskable : v \in Ring(s[i])
  BY DEF CheckNote
<1>3. ASSUME NEW i \in maskable, R.notePolyphony # None PROVE s[i] \in Voice /\ Masked(s[i], r, e)
  <2>1. i \in DOMAIN s /\ voice[s[i]].event.key = e.key
    BY DEF Stealable
  <2>2. R.selfMask => voice[s[i]].event.value <= e.value
    OBVIOUS
  <2>3. s[i] \in Voice
    BY <2>1, ListFacts DEF Owner
  <2> QED BY <1>3, <2>1, <2>2, <2>3, Zenon DEF Masked
<1>4. \A u \in Voice : Ring(u) \subseteq Voice
  BY RingOfVoices DEF IInv, RingsOK
<1> HIDE DEF s, maskable
<1>5. \A v \in CheckNote(r, e) : \E u \in Voice : v \in Ring(u) /\ Masked(u, r, e)
  BY <1>1, <1>2, <1>3
<1>6. CheckNote(r, e) \subseteq Voice
  BY <1>4, <1>5
<1> QED BY <1>5, <1>6

(* The voices stopped so far, after each check.                            *)
ChecksRun(g, r, e) ==
  /\ g \in [0 .. Len(Owners(r)) -> SUBSET Voice]
  /\ g[0] = Steal(CheckNote(r, e), list[Engine], Layers[r].polyphony, r, e.channel)
  /\ \A n \in 1 .. Len(Owners(r)) :
       g[n] = Steal(g[n - 1], list[Owners(r)[n]], Limit[Owners(r)[n]], None, e.channel)

LEMMA ChecksRunOn ==
  ASSUME IInv, TypesOK, setup \in Setups, NEW r \in DOMAIN Layers, NEW e
  PROVE  \E g : ChecksRun(g, r, e) /\ CheckPolyphony(r, e) = g[Len(Owners(r))]
<1>1. PICK owners : owners = Owners(r)
  OBVIOUS
<1>2. PICK N : N = Len(owners) /\ N \in Nat /\ \A n \in 1 .. N : owners[n] \in Owner
  BY <1>1, OwnersOf
<1>3. PICK a : a = Steal(CheckNote(r, e), list[Engine], Layers[r].polyphony, r, e.channel)
  OBVIOUS
<1> DEFINE Then(n, gone) == Steal(gone, list[owners[n]], Limit[owners[n]], None, e.channel)
           F == [n \in 1 .. N |-> [gone \in SUBSET Voice |-> Then(n, gone)]]
           Equation(g) == g = [n \in 0 .. N |-> IF n = 0 THEN a ELSE Then(n, g[n - 1])]
<1>4. ASSUME NEW o \in Owner, NEW gone \in SUBSET Voice, NEW limit, NEW only
      PROVE  Steal(gone, list[o], limit, only, e.channel) \in SUBSET Voice
  <2>1. \A u \in Voice : Ring(u) \subseteq Voice
    BY RingOfVoices DEF IInv, RingsOK
  <2>2. Exposed(gone, o, only) \subseteq Voice
    BY DEF Exposed, PlayingOf
  <2>3. PICK res : res = Steal(gone, list[o], limit, only, e.channel)
    OBVIOUS
  <2>4. StealOutcome(res, gone, o, limit, only)
    BY <2>3, StealResult
  <2> QED BY <2>1, <2>2, <2>3, <2>4 DEF StealOutcome
<1>5. a \in SUBSET Voice
  BY <1>3, <1>4, NoteCheck, OwnersOf
<1>6. F \in [1 .. N -> [SUBSET Voice -> SUBSET Voice]]
  <2>1. \A n \in 1 .. N, gone \in SUBSET Voice : Then(n, gone) \in SUBSET Voice
    BY <1>2, <1>4
  <2> HIDE DEF Then
  <2> QED BY <2>1
<1>7. PICK g : IsRun(g, N, SUBSET Voice, a, F)
  <2> HIDE DEF F
  <2> QED BY <1>2, <1>5, <1>6, Recursion
<1>8. /\ g \in [0 .. N -> SUBSET Voice] /\ g[0] = a
      /\ \A n \in 1 .. N : g[n] = F[n][g[n - 1]]
  BY <1>7 DEF IsRun
<1>9. \A n \in 1 .. N : g[n] = Then(n, g[n - 1])
  <2>1. \A n \in 1 .. N : n - 1 \in 0 .. N
    BY <1>2
  <2>2. ASSUME NEW n \in 1 .. N PROVE F[n][g[n - 1]] = Then(n, g[n - 1])
    <3>1. g[n - 1] \in SUBSET Voice
      BY <1>8, <2>1
    <3> HIDE DEF Then
    <3> QED BY <3>1
  <2> HIDE DEF F, Then
  <2> QED BY <1>8, <2>2
<1>10. Equation(g)
  <2>1. \A n \in 0 .. N : n = 0 \/ n \in 1 .. N
    BY <1>2
  <2> HIDE DEF Then
  <2> QED BY <1>8, <1>9, <2>1
<1>11. PICK h : h = CHOOSE f : Equation(f)
  OBVIOUS
<1>12. Equation(h)
  BY <1>10, <1>11
<1>13. CheckPolyphony(r, e) = h[N]
  BY <1>1, <1>2, <1>3, <1>11 DEF CheckPolyphony
<1>14. h[0] = a /\ \A n \in 1 .. N : h[n] = Then(n, h[n - 1])
  <2> HIDE DEF Then
  <2> QED BY <1>2, <1>12
<1>15. h \in [0 .. N -> SUBSET Voice]
  <2> DEFINE Bad == {n \in 0 .. N : h[n] \notin SUBSET Voice}
  <2>1. Bad = {}
    <3>1. SUFFICES ASSUME Bad # {} PROVE FALSE
      OBVIOUS
    <3>2. PICK n \in Bad : \A m \in Bad : n <= m
      <4>1. Bad \subseteq Nat
        OBVIOUS
      <4> HIDE DEF Bad
      <4> QED BY <3>1, <4>1, LeastOf
    <3>3. n # 0
      BY <1>5, <1>14, <3>2
    <3>4. n \in 1 .. N /\ n - 1 \in 0 .. N /\ ~(n <= n - 1)
      BY <1>2, <3>2, <3>3
    <3>5. h[n - 1] \in SUBSET Voice /\ h[n] = Then(n, h[n - 1])
      BY <1>14, <3>2, <3>4
    <3>6. h[n] \in SUBSET Voice
      <4>1. owners[n] \in Owner
        BY <1>2, <3>4
      <4>2. Then(n, h[n - 1]) \in SUBSET Voice
        BY <1>4, <3>5, <4>1
      <4> HIDE DEF Then
      <4> QED BY <3>5, <4>2
    <3> QED BY <3>2, <3>6
  <2>2. h = [n \in 0 .. N |-> h[n]]
    BY <1>12
  <2> QED BY <2>1, <2>2
<1>16. ChecksRun(h, r, e)
  BY <1>1, <1>2, <1>3, <1>14, <1>15 DEF ChecksRun
<1> QED BY <1>1, <1>2, <1>13, <1>16

LEMMA StealBound ==
  ASSUME setup \in Setups, Mirror(Voice, next, prev), NEW o, NEW gone, NEW res, NEW only,
         NEW limit \in Nat, StealOutcome(res, gone, o, limit, only),
         Cardinality(Exposed(gone, o, only)) <= Allowed(limit)
  PROVE  gone \subseteq res /\ Cardinality(Exposed(res, o, only)) <= Allowed(limit) - 1
<1>1. /\ IsFiniteSet(Exposed(gone, o, only)) /\ Cardinality(Exposed(gone, o, only)) \in Nat
      /\ Exposed(gone, o, only) \subseteq Voice
  BY FewSound DEF Exposed, PlayingOf
<1>2. Allowed(limit) \in Nat /\ Allowed(limit) >= 1 /\ (limit # 0 => Allowed(limit) = limit)
  BY DEF Allowed
<1>3. CASE res = gone /\ (Exposed(gone, o, only) = {} \/ Cardinality(Exposed(gone, o, only)) < limit)
  <2>1. Exposed(gone, o, only) = {} => Cardinality(Exposed(gone, o, only)) = 0
    BY FS_EmptySet
  <2> QED BY <1>1, <1>2, <1>3, <2>1
<1>4. ASSUME NEW u \in Exposed(gone, o, only), res = gone \cup Ring(u)
      PROVE  gone \subseteq res /\ Cardinality(Exposed(res, o, only)) <= Allowed(limit) - 1
  <2>1. u \in Voice /\ u \in Ring(u)
    BY <1>1, RingOfVoices
  <2>2. Exposed(res, o, only) \subseteq Exposed(gone, o, only) \ {u}
    BY <1>4, <2>1 DEF Exposed
  <2>3. /\ IsFiniteSet(Exposed(gone, o, only) \ {u})
        /\ Cardinality(Exposed(gone, o, only) \ {u}) = Cardinality(Exposed(gone, o, only)) - 1
    BY <1>1, FS_RemoveElement
  <2>4. Cardinality(Exposed(res, o, only)) <= Cardinality(Exposed(gone, o, only) \ {u})
    BY <2>2, <2>3, FS_Subset
  <2>5. Cardinality(Exposed(res, o, only)) \in Nat
    BY FewSound DEF Exposed, PlayingOf
  <2> QED BY <1>1, <1>2, <1>4, <2>3, <2>4, <2>5
<1> QED BY <1>3, <1>4 DEF StealOutcome

LEMMA ChecksGrow ==
  ASSUME IInv, TypesOK, setup \in Setups, NEW r \in DOMAIN Layers, NEW e, NEW g, ChecksRun(g, r, e)
  PROVE  /\ Len(Owners(r)) \in Nat
         /\ \A n \in 0 .. Len(Owners(r)) : g[n] \subseteq g[Len(Owners(r))]
         /\ \A n \in 1 .. Len(Owners(r)) :
              /\ Owners(r)[n] \in Owner /\ g[n - 1] \in SUBSET Voice
              /\ StealOutcome(g[n], g[n - 1], Owners(r)[n], Limit[Owners(r)[n]], None)
         /\ StealOutcome(g[0], CheckNote(r, e), Engine, Layers[r].polyphony, r)
<1>1. PICK N : N = Len(Owners(r)) /\ N \in Nat
  BY OwnersOf
<1>2. ASSUME NEW n \in 1 .. N
      PROVE  /\ Owners(r)[n] \in Owner /\ n - 1 \in 0 .. N /\ g[n - 1] \in SUBSET Voice
             /\ StealOutcome(g[n], g[n - 1], Owners(r)[n], Limit[Owners(r)[n]], None)
  <2>1. Owners(r)[n] \in Owner /\ n - 1 \in 0 .. N
    BY <1>1, OwnersOf
  <2>2. g[n] = Steal(g[n - 1], list[Owners(r)[n]], Limit[Owners(r)[n]], None, e.channel)
    BY <1>1 DEF ChecksRun
  <2>3. g[n - 1] \in SUBSET Voice
    BY <1>1, <2>1 DEF ChecksRun
  <2> QED BY <2>1, <2>2, <2>3, StealResult
<1>3. StealOutcome(g[0], CheckNote(r, e), Engine, Layers[r].polyphony, r)
  <2>1. g[0] = Steal(CheckNote(r, e), list[Engine], Layers[r].polyphony, r, e.channel)
    BY DEF ChecksRun
  <2>2. Engine \in Owner
    BY OwnersOf
  <2> QED BY <2>1, <2>2, StealResult
<1> DEFINE Bad == {k \in 0 .. N : ~(g[N - k] \subseteq g[N])}
<1>4. Bad = {}
  <2>1. SUFFICES ASSUME Bad # {} PROVE FALSE
    OBVIOUS
  <2>2. PICK k \in Bad : \A m \in Bad : k <= m
    <3>1. Bad \subseteq Nat
      OBVIOUS
    <3> HIDE DEF Bad
    <3> QED BY <2>1, <3>1, LeastOf
  <2>3. k # 0
    BY <1>1, <2>2
  <2>4. k - 1 \in 0 .. N /\ ~(k <= k - 1) /\ N - (k - 1) \in 1 .. N /\ (N - (k - 1)) - 1 = N - k
    BY <1>1, <2>2, <2>3
  <2>5. g[N - (k - 1)] \subseteq g[N]
    BY <2>2, <2>4
  <2>6. PICK n \in 1 .. N : n = N - (k - 1) /\ n - 1 = N - k
    BY <2>4
  <2>7. g[n - 1] \subseteq g[n]
    BY <1>2 DEF StealOutcome
  <2>8. g[N - k] \subseteq g[N]
    BY <2>5, <2>6, <2>7
  <2> QED BY <2>2, <2>8
<1>5. \A n \in 0 .. N : g[n] \subseteq g[N]
  <2>1. ASSUME NEW n \in 0 .. N PROVE g[n] \subseteq g[N]
    <3>1. PICK k \in 0 .. N : k = N - n /\ N - k = n
      BY <1>1
    <3>2. g[N - k] \subseteq g[N]
      BY <1>4
    <3> QED BY <3>1, <3>2
  <2> QED BY <2>1
<1> QED BY <1>1, <1>2, <1>3, <1>5

(* After its checks there is room for the voice that starts.               *)
LEMMA RoomToStart ==
  ASSUME IInv, TypesOK, setup \in Setups, Held, NEW r \in DOMAIN Layers, NEW e
  PROVE  /\ Cardinality(PlayingAs(r) \ CheckPolyphony(r, e)) <= Allowed(Layers[r].polyphony) - 1
         /\ \A o \in Owner : InOwners(o, r) =>
              Cardinality(PlayingOf(o) \ CheckPolyphony(r, e)) <= Allowed(Limit[o]) - 1
<1>1. PICK g : ChecksRun(g, r, e) /\ CheckPolyphony(r, e) = g[Len(Owners(r))]
  BY ChecksRunOn
<1>2. PICK N : N = Len(Owners(r)) /\ N \in Nat
  BY OwnersOf
<1>3. PICK all : all = CheckPolyphony(r, e) /\ all = g[N]
  BY <1>1, <1>2
<1>4. Mirror(Voice, next, prev)
  BY DEF IInv, RingsOK
<1>5. ASSUME NEW S, S \subseteq Voice, NEW T, T \subseteq S, NEW b \in Int, Cardinality(S) <= b
      PROVE  Cardinality(T) <= b
  <2>1. Cardinality(T) <= Cardinality(S) /\ Cardinality(T) \in Nat /\ Cardinality(S) \in Nat
    BY <1>5, FewSound, FewerSound
  <2> QED BY <1>5, <2>1
<1>6. Cardinality(PlayingAs(r) \ all) <= Allowed(Layers[r].polyphony) - 1
  <2>1. \A gone : Exposed(gone, Engine, r) = PlayingAs(r) \ gone
    <3>1. ASSUME NEW v \in PlayingAs(r) PROVE Joins(Engine, voice[v].region)
      <4>1. v \in Voice /\ voice[v].state = "playing" /\ voice[v].region = r
        BY DEF PlayingAs, OffedOrFree
      <4>2. ~Layers[r].disabled
        BY <4>1 DEF TypesOK, GoodVoice
      <4> QED BY <4>1, <4>2, OwnersOf DEF Joins
    <3> QED BY <3>1, OwnersOf DEF Exposed, PlayingOf, PlayingAs
  <2>2. Layers[r].polyphony \in Nat /\ Allowed(Layers[r].polyphony) \in Int
    BY OwnersOf DEF Allowed
  <2>3. Cardinality(Exposed(CheckNote(r, e), Engine, r)) <= Allowed(Layers[r].polyphony)
    <3>1. PlayingAs(r) \ CheckNote(r, e) \subseteq PlayingAs(r) /\ PlayingAs(r) \subseteq Voice
      BY DEF PlayingAs
    <3> QED BY <1>5, <2>1, <2>2, <3>1 DEF Held
  <2>4. Cardinality(PlayingAs(r) \ g[0]) <= Allowed(Layers[r].polyphony) - 1
    <3>1. StealOutcome(g[0], CheckNote(r, e), Engine, Layers[r].polyphony, r)
      BY <1>1, ChecksGrow
    <3>2. Cardinality(Exposed(g[0], Engine, r)) <= Allowed(Layers[r].polyphony) - 1
      BY <1>4, <2>2, <2>3, <3>1, StealBound
    <3> QED BY <2>1, <3>2
  <2>5. PlayingAs(r) \ all \subseteq PlayingAs(r) \ g[0]
    <3>1. 0 \in 0 .. N
      BY <1>2
    <3> QED BY <1>1, <1>2, <1>3, <3>1, ChecksGrow
  <2>6. PlayingAs(r) \ g[0] \subseteq Voice /\ Allowed(Layers[r].polyphony) - 1 \in Int
    BY <2>2 DEF PlayingAs
  <2> QED BY <1>5, <2>4, <2>5, <2>6
<1>7. ASSUME NEW o \in Owner, InOwners(o, r)
      PROVE  Cardinality(PlayingOf(o) \ all) <= Allowed(Limit[o]) - 1
  <2>1. PICK n \in 1 .. N : Owners(r)[n] = o
    BY <1>2, <1>7, OwnersOf
  <2>2. Limit[o] \in Nat /\ Allowed(Limit[o]) \in Int
    <3>1. Limit[o] \in Nat
      BY SetupTypes
    <3> QED BY <3>1 DEF Allowed
  <2>3. \A gone : Exposed(gone, o, None) = PlayingOf(o) \ gone
    BY DEF Exposed
  <2>4. StealOutcome(g[n], g[n - 1], o, Limit[o], None)
    BY <1>1, <1>2, <2>1, ChecksGrow
  <2>5. Cardinality(PlayingOf(o) \ g[n - 1]) <= Allowed(Limit[o])
    <3>1. PlayingOf(o) \ g[n - 1] \subseteq PlayingOf(o) /\ PlayingOf(o) \subseteq Voice
      BY DEF PlayingOf
    <3> QED BY <1>5, <2>2, <3>1 DEF Held
  <2>6. Cardinality(PlayingOf(o) \ g[n]) <= Allowed(Limit[o]) - 1
    <3>1. Cardinality(Exposed(g[n - 1], o, None)) <= Allowed(Limit[o])
      BY <2>3, <2>5
    <3>2. Cardinality(Exposed(g[n], o, None)) <= Allowed(Limit[o]) - 1
      BY <1>4, <2>2, <2>4, <3>1, StealBound
    <3> QED BY <2>3, <3>2
  <2>7. PlayingOf(o) \ all \subseteq PlayingOf(o) \ g[n]
    <3>1. n \in 0 .. N
      BY <1>2
    <3> QED BY <1>1, <1>2, <1>3, <3>1, ChecksGrow
  <2>8. PlayingOf(o) \ g[n] \subseteq Voice /\ Allowed(Limit[o]) - 1 \in Int
    BY <2>2 DEF PlayingOf
  <2> QED BY <1>5, <2>6, <2>7, <2>8
<1> QED BY <1>3, <1>6, <1>7

-----------------------------------------------------------------------------
(* The steps.                                                              *)

LEMMA OffPlays ==
  ASSUME NEW x, IsVoice(x)
  PROVE  /\ OffedOrFree(Off(x)) /\ (OffedOrFree(x) => OffedOrFree(Release(x)))
         /\ Release(x).age = x.age /\ Off(x).age = x.age
         /\ Release(x).event = x.event /\ Off(x).event = x.event
BY DEF IsVoice, VoiceFields, Release, Off, OffedOrFree

(* No voice that did not play begins to.                                   *)
LEMMA FewerPlay ==
  ASSUME UNCHANGED setup, setup \in Setups, Held,
         \A v \in Voice : OffedOrFree(voice'[v])
                         \/ (~OffedOrFree(voice[v]) /\ voice'[v].region = voice[v].region)
  PROVE  Held'
<1>1. Voice' = Voice /\ \A o, v : Joins(o, voice[v].region)' <=> Joins(o, voice'[v].region)
  BY SetupKept
<1>2. /\ \A o : PlayingOf(o)' \subseteq PlayingOf(o) /\ PlayingOf(o) \subseteq Voice
      /\ \A r : PlayingAs(r)' \subseteq PlayingAs(r) /\ PlayingAs(r) \subseteq Voice
  <2>1. \A x : OffedOrFree(x)' <=> OffedOrFree(x)
    BY DEF OffedOrFree
  <2> QED BY <1>1, <2>1 DEF PlayingOf, PlayingAs
<1>3. ASSUME NEW S, S \subseteq Voice, NEW T, T \subseteq S, NEW b \in Int, Cardinality(S) <= b
      PROVE  Cardinality(T) <= b
  <2>1. Cardinality(T) <= Cardinality(S) /\ Cardinality(T) \in Nat /\ Cardinality(S) \in Nat
    BY <1>3, FewSound, FewerSound
  <2> QED BY <1>3, <2>1
<1>4. ASSUME NEW o \in Owner PROVE Cardinality(PlayingOf(o)') <= Allowed(Limit[o])
  <2>1. Allowed(Limit[o]) \in Int
    BY SetupTypes DEF Allowed
  <2> QED BY <1>2, <1>3, <2>1 DEF Held
<1>5. ASSUME NEW r \in DOMAIN Layers
      PROVE  Cardinality(PlayingAs(r)') <= Allowed(Layers[r].polyphony)
  <2>1. Allowed(Layers[r].polyphony) \in Int
    BY OwnersOf DEF Allowed
  <2> QED BY <1>2, <1>3, <2>1 DEF Held
<1> QED BY <1>4, <1>5 DEF Held, Limit, Layers, Allowed

LEMMA CheckedIs ==
  ASSUME IInv, NEW u \in Voice
  PROVE  /\ Checked[u].region = voice[u].region /\ Checked[u].age = voice[u].age
         /\ Checked[u].event = voice[u].event
         /\ Checked[u].state = "idle" <=> voice[u].state = "idle"
         /\ OffedOrFree(Checked[u]) <=> (OffedOrFree(voice[u]) \/ u \in Stopped)
<1>1. IsVoice(voice[u])
  BY DEF IInv, VoicesOK
<1>2. Checked[u] = IF u \in Stopped THEN Off(voice[u]) ELSE voice[u]
  BY DEF Checked
<1> QED BY <1>1, <1>2, OffKeeps, OffPlays

LEMMA StartHeld ==
  ASSUME IInv, TypesOK, setup \in Setups, UNCHANGED setup, Held, Start
  PROVE  Held'
<1>1. Layer \in DOMAIN Layers /\ stack # <<>>
  BY StartOutcomes, TopTyped DEF Starting, Considered
<1>2. CASE voice' = Checked
  BY <1>2, CheckedIs, FewerPlay
<1>3. ASSUME NEW v \in FreeVoices(Checked), NEW plays \in Outcomes(Layer),
             voice' = [Checked EXCEPT ![v] = Started(Layer, Top.event, plays)]
      PROVE  Held'
  <2>1. /\ v \in Voice /\ voice'[v].region = Layer
        /\ \A u \in Voice \ {v} : voice'[u] = Checked[u]
    <3>1. Started(Layer, Top.event, plays).region = Layer
      BY StartedIs
    <3> QED BY <1>3, <3>1, FreeVoicesAreVoices DEF Checked
  <2>2. Voice' = Voice /\ \A o, u : Joins(o, voice[u].region)' <=> Joins(o, voice'[u].region)
    BY SetupKept
  <2>3. \A x : OffedOrFree(x)' <=> OffedOrFree(x)
    BY DEF OffedOrFree
  <2>4. ASSUME NEW o
        PROVE  PlayingOf(o)' \subseteq (PlayingOf(o) \ Stopped) \cup (IF InOwners(o, Layer) THEN {v} ELSE {})
    <3>1. ASSUME NEW u \in PlayingOf(o)', u # v PROVE u \in PlayingOf(o) \ Stopped
      BY <2>1, <2>2, <2>3, <3>1, CheckedIs DEF PlayingOf
    <3>2. v \in PlayingOf(o)' => InOwners(o, Layer)
      BY <2>1, <2>2 DEF PlayingOf, Joins
    <3> QED BY <3>1, <3>2
  <2>5. ASSUME NEW r
        PROVE  PlayingAs(r)' \subseteq (PlayingAs(r) \ Stopped) \cup (IF r = Layer THEN {v} ELSE {})
    <3>1. ASSUME NEW u \in PlayingAs(r)', u # v PROVE u \in PlayingAs(r) \ Stopped
      BY <2>1, <2>2, <2>3, <3>1, CheckedIs DEF PlayingAs
    <3>2. v \in PlayingAs(r)' => r = Layer
      BY <2>1, <2>2 DEF PlayingAs
    <3> QED BY <3>1, <3>2
  <2>6. ASSUME NEW S, S \subseteq Voice, NEW T, NEW b \in Int, T \subseteq S, Cardinality(S) <= b
        PROVE  Cardinality(T) <= b
    <3>1. Cardinality(T) <= Cardinality(S) /\ Cardinality(T) \in Nat /\ Cardinality(S) \in Nat
      BY <2>6, FewSound, FewerSound
    <3> QED BY <2>6, <3>1
  <2>7. ASSUME NEW S, S \subseteq Voice, NEW T, NEW b \in Int, T \subseteq S \cup {v},
               Cardinality(S) <= b - 1
        PROVE  Cardinality(T) <= b
    <3>1. S \cup {v} \subseteq Voice /\ IsFiniteSet(S) /\ Cardinality(S) \in Nat
      BY <2>1, <2>7, FewSound
    <3>2. Cardinality(S \cup {v}) <= Cardinality(S) + 1 /\ Cardinality(S \cup {v}) \in Nat
      <4>1. Cardinality(S \cup {v}) = IF v \in S THEN Cardinality(S) ELSE Cardinality(S) + 1
        BY <3>1, FS_AddElement
      <4>2. Cardinality(S \cup {v}) \in Nat
        BY <3>1, FewSound
      <4> QED BY <3>1, <4>1, <4>2
    <3> QED BY <2>6, <2>7, <3>1, <3>2
  <2>8. ASSUME NEW o \in Owner PROVE Cardinality(PlayingOf(o)') <= Allowed(Limit[o])
    <3>1. Allowed(Limit[o]) \in Int
      BY SetupTypes DEF Allowed
    <3>2. PlayingOf(o) \subseteq Voice /\ PlayingOf(o) \ Stopped \subseteq Voice
      BY DEF PlayingOf
    <3>3. CASE InOwners(o, Layer)
      <4>1. Cardinality(PlayingOf(o) \ Stopped) <= Allowed(Limit[o]) - 1
        BY <1>1, <3>3, RoomToStart DEF Stopped
      <4> QED BY <2>4, <2>7, <3>1, <3>2, <3>3, <4>1
    <3>4. CASE ~InOwners(o, Layer)
      <4>1. PlayingOf(o)' \subseteq PlayingOf(o)
        BY <2>4, <3>4
      <4> QED BY <2>6, <3>1, <3>2, <4>1 DEF Held
    <3> QED BY <3>3, <3>4
  <2>9. ASSUME NEW r \in DOMAIN Layers
        PROVE  Cardinality(PlayingAs(r)') <= Allowed(Layers[r].polyphony)
    <3>1. Allowed(Layers[r].polyphony) \in Int
      BY OwnersOf DEF Allowed
    <3>2. PlayingAs(r) \subseteq Voice /\ PlayingAs(r) \ Stopped \subseteq Voice
      BY DEF PlayingAs
    <3>3. CASE r = Layer
      <4>1. Cardinality(PlayingAs(r) \ Stopped) <= Allowed(Layers[r].polyphony) - 1
        BY <1>1, <3>3, RoomToStart DEF Stopped
      <4> QED BY <2>5, <2>7, <3>1, <3>2, <3>3, <4>1
    <3>4. CASE r # Layer
      <4>1. PlayingAs(r)' \subseteq PlayingAs(r)
        BY <2>5, <3>4
      <4> QED BY <2>6, <3>1, <3>2, <4>1 DEF Held
    <3> QED BY <3>3, <3>4
  <2> QED BY <2>8, <2>9 DEF Held, Limit, Layers, Allowed
<1> QED BY <1>2, <1>3, StartOutcomes

LEMMA OthersHeld ==
  ASSUME IInv, setup \in Setups, UNCHANGED setup, Held, [Next]_vars, ~Start
  PROVE  Held'
<1>1. ASSUME NEW u \in Voice,
             voice'[u] \in {voice[u], Release(voice[u]), Off(voice[u]), Idle}
                          \cup {Heard(voice[u], loud) : loud \in BOOLEAN}
      PROVE  OffedOrFree(voice'[u])
             \/ (~OffedOrFree(voice[u]) /\ voice'[u].region = voice[u].region)
  <2>1. IsVoice(voice[u])
    BY DEF IInv, VoicesOK
  <2>2. OffedOrFree(Idle)
    BY DEF OffedOrFree, Idle
  <2>3. ASSUME NEW loud PROVE OffedOrFree(Heard(voice[u], loud)) <=> OffedOrFree(voice[u])
    BY <2>1 DEF IsVoice, VoiceFields, Heard, Played, OffedOrFree
  <2> QED BY <1>1, <2>1, <2>2, <2>3, OffPlays, ReleaseKeeps, HeardKeeps
<1>2. \A u \in Voice : voice'[u] \in {voice[u], Release(voice[u]), Off(voice[u]), Idle}
                                     \cup {Heard(voice[u], loud) : loud \in BOOLEAN}
  <2>1. CASE UNCHANGED voice
    BY <2>1
  <2>2. ASSUME NEW i, NoteOff(i)
        PROVE  \A u \in Voice : voice'[u] \in {voice[u], Release(voice[u])}
    BY <2>2 DEF NoteOff
  <2>3. ASSUME Choke PROVE \A u \in Voice : voice'[u] \in {voice[u], Off(voice[u])}
    BY <2>3 DEF Choke, IInv, VoicesOK
  <2>4. ASSUME Reset(Turn) PROVE \A u \in Voice : voice'[u] \in {voice[u], Idle}
    BY <2>4 DEF Reset, IInv, VoicesOK
  <2>5. ASSUME NEW loud \in BOOLEAN, voice' = [voice EXCEPT ![Turn] = [Played(@) EXCEPT !.loud = loud]]
        PROVE  \A u \in Voice : voice'[u] \in {voice[u], Heard(voice[u], loud)}
    BY <2>5 DEF IInv, VoicesOK, Heard
  <2>6. CASE RenderVoice
    BY <2>4, <2>5, <2>6 DEF RenderVoice
  <2>7. UNCHANGED voice \/ (\E i : NoteOff(i)) \/ Choke \/ RenderVoice \/ Reset(Turn)
    BY DEF Next, vars, NoteOn, Controller, Switch, Skip, Return, BeginBlock, AllSoundOff, SilenceVoice
  <2> QED BY <2>1, <2>2, <2>3, <2>4, <2>6, <2>7
<1> QED BY <1>1, <1>2, FewerPlay

(* However notes, chokes and releases come, Synth::Impl::startVoice never  *)
(* leaves a group, a header, the engine or a region with more voices that  *)
(* were not told to stop than its polyphony, though every check of         *)
(* VoiceManager::checkPolyphony stops a single ring.                       *)
THEOREM PolyphonyIsHeld == Spec => []PolyphonyHeld
<1>1. Init => Held
  <2> SUFFICES ASSUME Init PROVE Held
    OBVIOUS
  <2>1. setup \in Setups /\ \A v \in Voice : OffedOrFree(voice[v])
    BY DEF Init, Idle, OffedOrFree
  <2>2. (\A o : PlayingOf(o) = {}) /\ (\A r : PlayingAs(r) = {}) /\ Cardinality({}) = 0
    BY <2>1, FS_EmptySet DEF PlayingOf, PlayingAs
  <2>3. \A n \in Nat : 0 <= Allowed(n)
    BY DEF Allowed
  <2>4. (\A o \in Owner : Limit[o] \in Nat) /\ \A r \in DOMAIN Layers : Layers[r].polyphony \in Nat
    BY <2>1, SetupTypes, OwnersOf
  <2> QED BY <2>2, <2>3, <2>4 DEF Held
<1>2. IInv /\ ChokeInv /\ TypesOK /\ Held /\ [Next]_vars => Held'
  <2> SUFFICES ASSUME IInv, ChokeInv, TypesOK, Held, [Next]_vars PROVE Held'
    OBVIOUS
  <2>1. setup \in Setups /\ UNCHANGED setup
    BY DEF ChokeInv, Next, vars
  <2> QED BY <2>1, StartHeld, OthersHeld
<1>3. IInv /\ Held => PolyphonyHeld
  <2>1. \A r : RegionPlaying(r) = Cardinality(PlayingAs(r))
    BY DEF RegionPlaying, PlayingAs
  <2> QED BY <2>1, PlayingIs DEF Held, PolyphonyHeld
<1> QED BY <1>1, <1>2, <1>3, Invariance, ChokesInvariant, TypesInvariant, PTL DEF Spec

-----------------------------------------------------------------------------
(* Why a voice is stopped.                                                 *)

(* A voice stopped by the checks of e shares its ring with one that        *)
(* note_polyphony masks, or that counts against a limit now reached.       *)
Reason(u, r, e) ==
  \/ Masked(u, r, e)
  \/ voice[u].region = r /\ RegionAtLimit(r)
  \/ \E o \in AtLimit(r) : InOwners(o, voice[u].region)

LEMMA WhyStopped ==
  ASSUME IInv, TypesOK, setup \in Setups, NEW r \in DOMAIN Layers, NEW e,
         NEW v \in CheckPolyphony(r, e)
  PROVE  v \in Voice /\ \E u \in Ring(v) : Reason(u, r, e)
<1>1. PICK g : ChecksRun(g, r, e) /\ CheckPolyphony(r, e) = g[Len(Owners(r))]
  BY ChecksRunOn
<1>2. PICK N : N = Len(Owners(r)) /\ N \in Nat
  BY OwnersOf
<1>3. Mirror(Voice, next, prev)
  BY DEF IInv, RingsOK
<1>4. ASSUME NEW u \in Voice, v \in Ring(u), Reason(u, r, e)
      PROVE  v \in Voice /\ \E w \in Ring(v) : Reason(w, r, e)
  BY <1>3, <1>4, RingSymmetric
<1>5. CASE v \in CheckNote(r, e)
  BY <1>4, <1>5, NoteCheck DEF Reason
<1>6. ASSUME NEW S, S \subseteq Voice, NEW T, T \subseteq S, NEW b \in Nat, ~(Cardinality(T) < b)
      PROVE  Cardinality(S) >= b
  <2>1. Cardinality(T) <= Cardinality(S) /\ Cardinality(T) \in Nat /\ Cardinality(S) \in Nat
    BY <1>6, FewSound, FewerSound
  <2> QED BY <1>6, <2>1
<1>7. CASE v \in g[0] /\ v \notin CheckNote(r, e)
  <2>1. PICK u \in Exposed(CheckNote(r, e), Engine, r) :
          /\ g[0] = CheckNote(r, e) \cup Ring(u)
          /\ ~(Cardinality(Exposed(CheckNote(r, e), Engine, r)) < Layers[r].polyphony)
    <3>1. StealOutcome(g[0], CheckNote(r, e), Engine, Layers[r].polyphony, r)
      BY <1>1, ChecksGrow
    <3> QED BY <1>7, <3>1 DEF StealOutcome
  <2>2. u \in Voice /\ v \in Ring(u) /\ voice[u].region = r
    BY <1>7, <2>1, OwnersOf DEF Exposed, PlayingOf
  <2>3. RegionAtLimit(r)
    <3>1. Exposed(CheckNote(r, e), Engine, r) \subseteq PlayingAs(r) /\ PlayingAs(r) \subseteq Voice
      BY OwnersOf DEF Exposed, PlayingOf, PlayingAs
    <3>2. Layers[r].polyphony \in Nat
      BY OwnersOf
    <3>3. Cardinality(PlayingAs(r)) >= Layers[r].polyphony
      BY <1>6, <2>1, <3>1, <3>2
    <3> QED BY <3>3 DEF RegionAtLimit, RegionPlaying, PlayingAs
  <2> QED BY <1>4, <2>2, <2>3 DEF Reason
<1>8. CASE v \notin g[0]
  <2> DEFINE Gone == {n \in 0 .. N : v \in g[n]}
  <2>1. PICK n \in Gone : \A m \in Gone : n <= m
    <3>1. N \in Gone /\ Gone \subseteq Nat
      BY <1>1, <1>2
    <3> HIDE DEF Gone
    <3> QED BY <3>1, LeastOf
  <2>2. n # 0
    BY <1>8, <2>1
  <2>3. n \in 1 .. N /\ n - 1 \in 0 .. N /\ ~(n <= n - 1)
    BY <1>2, <2>1, <2>2
  <2>4. v \in g[n] /\ v \notin g[n - 1]
    BY <2>1, <2>3
  <2>5. PICK o \in Owner : o = Owners(r)[n]
    BY <1>1, <1>2, <2>3, ChecksGrow
  <2>6. PICK u \in Exposed(g[n - 1], o, None) :
          g[n] = g[n - 1] \cup Ring(u) /\ ~(Cardinality(Exposed(g[n - 1], o, None)) < Limit[o])
    <3>1. StealOutcome(g[n], g[n - 1], o, Limit[o], None)
      BY <1>1, <1>2, <2>3, <2>5, ChecksGrow
    <3> QED BY <2>4, <3>1 DEF StealOutcome
  <2>7. u \in Voice /\ v \in Ring(u) /\ InOwners(o, voice[u].region)
    BY <2>4, <2>6 DEF Exposed, PlayingOf, Joins
  <2>8. InOwners(o, r)
    BY <1>2, <2>3, <2>5, OwnersOf
  <2>9. o \in AtLimit(r)
    <3>1. Exposed(g[n - 1], o, None) \subseteq PlayingOf(o) /\ PlayingOf(o) \subseteq Voice
      BY DEF Exposed, PlayingOf
    <3>2. Limit[o] \in Nat
      BY SetupTypes
    <3>3. Playing(list[o]) >= Limit[o]
      BY <1>6, <2>6, <3>1, <3>2, PlayingIs
    <3> QED BY <2>8, <3>3 DEF AtLimit
  <2> QED BY <1>4, <2>7, <2>9 DEF Reason
<1> QED BY <1>5, <1>7, <1>8

(* A playing voice loses its event, or is told to stop, inside a dispatch. *)
LEMMA CutBy ==
  ASSUME IInv, setup \in Setups, [Next]_vars, stack # <<>>, NEW v \in Voice, ~OffedOrFree(voice[v]),
         voice'[v].event # voice[v].event
  PROVE  Start /\ v \in Stopped /\ v \in FreeVoices(Checked)
<1>1. IsVoice(voice[v]) /\ turns = {}
  BY DEF IInv, VoicesOK, TurnsOK
<1>2. ~Choke
  <2>1. SUFFICES ASSUME Choke PROVE FALSE
    OBVIOUS
  <2>2. voice'[v] \in {voice[v], Off(voice[v])}
    BY <2>1 DEF Choke, IInv, VoicesOK
  <2> QED BY <1>1, <2>2, OffPlays
<1>3. Start
  BY <1>1, <1>2 DEF Next, vars, NoteOn, Controller, Switch, NoteOff, Quiescent, Skip, Return,
                    BeginBlock, RenderVoice, AllSoundOff, SilenceVoice
<1>4. v \in FreeVoices(Checked)
  <2>1. CASE voice' = Checked
    BY <2>1, CheckedIs
  <2>2. ASSUME NEW u \in FreeVoices(Checked), NEW plays \in Outcomes(Layer), u # v,
               voice' = [Checked EXCEPT ![u] = Started(Layer, Top.event, plays)]
        PROVE  FALSE
    <3>1. voice'[v] = Checked[v]
      BY <2>2 DEF Checked
    <3> QED BY <3>1, CheckedIs
  <2> QED BY <1>3, <2>1, <2>2, StartOutcomes
<1>5. Checked[v].state # "idle" /\ OffedOrFree(Checked[v])
  <2>1. voice[v].state # "idle"
    BY DEF OffedOrFree
  <2>2. Checked[v].state # "idle"
    BY <2>1, CheckedIs
  <2> QED BY <1>4, <2>2 DEF FreeVoices
<1> QED BY <1>3, <1>4, <1>5, CheckedIs

-----------------------------------------------------------------------------
(* The theorems.                                                           *)

(* A voice that sounds is cut in favour of another only when none is idle, *)
(* none that fades is older, and a limit the new voice is up against has   *)
(* just stopped it or a sister (VoiceManager::findFreeVoice).              *)
THEOREM CutsAreForced == Spec => CutOnlyAtLimit
<1>1. ASSUME IInv, TypesOK, setup \in Setups, [Next]_vars, NEW v \in Voice,
             stack # <<>>, ~OffedOrFree(voice[v]), voice'[v].event # voice[v].event
      PROVE  Forced(v)
  <2>1. Start /\ v \in Stopped /\ v \in FreeVoices(Checked)
    BY <1>1, CutBy
  <2>2. Layer \in DOMAIN Layers
    BY <1>1, <2>1, StartOutcomes, TopTyped DEF Starting, Considered
  <2>3. \E u \in Ring(v) : Reason(u, Layer, Top.event)
    BY <1>1, <2>1, <2>2, WhyStopped DEF Stopped
  <2>4. Checked[v].state # "idle"
    <3>1. voice[v].state # "idle"
      BY <1>1 DEF OffedOrFree
    <3> QED BY <1>1, <3>1, CheckedIs
  <2> DEFINE idle == {u \in Voice : Checked[u].state = "idle"}
             fading == {u \in Voice : OffedOrFree(Checked[u])}
  <2>5. FreeVoices(Checked) =
          IF idle # {} THEN {u \in idle : \A w \in idle : u <= w}
          ELSE {u \in fading : \A w \in fading :
                  Checked[u].age > Checked[w].age \/ (Checked[u].age = Checked[w].age /\ u <= w)}
    BY DEF FreeVoices
  <2>6. idle = {}
    BY <2>1, <2>4, <2>5
  <2>7. \A w \in fading : Checked[v].age > Checked[w].age \/ Checked[v].age = Checked[w].age
    BY <2>1, <2>5, <2>6
  <2>8. ASSUME NEW u \in Voice
        PROVE  voice[u].state # "idle" /\ (OffedOrFree(voice[u]) => voice[u].age <= voice[v].age)
    <3>1. voice[u].state # "idle"
      BY <1>1, <2>6, CheckedIs
    <3>2. ASSUME OffedOrFree(voice[u]) PROVE voice[u].age <= voice[v].age
      <4>1. voice[v].age > voice[u].age \/ voice[v].age = voice[u].age
        BY <1>1, <2>7, <3>2, CheckedIs
      <4>2. voice[v].age \in Nat /\ voice[u].age \in Nat
        BY <1>1 DEF TypesOK, GoodVoice
      <4> QED BY <4>1, <4>2
    <3> QED BY <3>1, <3>2
  <2>9. \E u \in Ring(v) :
          \/ Layers[Layer].notePolyphony # None /\ voice[u].event.key = Top.event.key
          \/ voice[u].region = Layer /\ RegionAtLimit(Layer)
          \/ \E o \in AtLimit(Layer) : InOwners(o, voice[u].region)
    BY <2>3 DEF Reason, Masked
  <2> QED BY <2>8, <2>9 DEF Forced
<1>2. IInv /\ ChokeInv /\ TypesOK /\ [Next]_vars =>
        [\A v \in Voice :
           (stack # <<>> /\ ~OffedOrFree(voice[v]) /\ voice'[v].event # voice[v].event)
             => Forced(v)]_vars
  BY <1>1 DEF ChokeInv
<1> QED BY <1>2, Invariance, ChokesInvariant, TypesInvariant, PTL DEF Spec, CutOnlyAtLimit

(* With self-masking, VoiceManager::checkNotePolyphony never stops a       *)
(* louder voice of the key for a softer note, when no other limit is       *)
(* reached.                                                                *)
THEOREM LouderVoicesSurvive == Spec => LouderSurvives
<1>1. ASSUME IInv, TypesOK, setup \in Setups, [Next]_vars,
             Starting, Layers[Layer].selfMask, AtLimit(Layer) = {}, ~RegionAtLimit(Layer),
             NEW v \in Voice, ~OffedOrFree(voice[v]), next[v] = v,
             OffedOrFree(voice'[v]) \/ voice'[v].event # voice[v].event
      PROVE  voice[v].event.value <= Top.event.value
  <2>1. stack # <<>> /\ turns = {} /\ Top.left # {}
    BY <1>1 DEF Starting, Considered, IInv, TurnsOK
  <2>2. Layer \in DOMAIN Layers
    BY <1>1, <2>1, TopTyped
  <2>3. voice' # voice
    BY <1>1
  <2>4. Start
    BY <1>1, <2>1, <2>3
       DEF Next, vars, NoteOn, Controller, Switch, NoteOff, Quiescent, Skip, Choke, Starting, Return,
           BeginBlock, RenderVoice, AllSoundOff, SilenceVoice
  <2>5. v \in Stopped
    <3>1. CASE voice'[v].event # voice[v].event
      BY <1>1, <2>1, <3>1, CutBy
    <3>2. ASSUME voice'[v].event = voice[v].event, v \notin Stopped PROVE FALSE
      <4>1. OffedOrFree(voice'[v])
        BY <1>1, <3>2
      <4>2. ~OffedOrFree(Checked[v])
        BY <1>1, <3>2, CheckedIs
      <4>3. v \notin FreeVoices(Checked)
        <5>1. voice[v].state # "idle"
          BY <1>1 DEF OffedOrFree
        <5>2. Checked[v].state # "idle"
          BY <1>1, <5>1, CheckedIs
        <5> QED BY <4>2, <5>2 DEF FreeVoices
      <4>4. voice' = Checked \/ \E u \in FreeVoices(Checked), plays \in Outcomes(Layer) :
                                 voice' = [Checked EXCEPT ![u] = Started(Layer, Top.event, plays)]
        BY <2>4, StartOutcomes
      <4>5. voice'[v] = Checked[v]
        BY <4>3, <4>4 DEF Checked
      <4> QED BY <4>1, <4>2, <4>5
    <3> QED BY <3>1, <3>2
  <2>6. PICK u \in Ring(v) : Reason(u, Layer, Top.event)
    BY <1>1, <2>2, <2>5, WhyStopped DEF Stopped
  <2>7. u = v
    BY <1>1, RingOfVoices DEF IInv, RingsOK
  <2> QED BY <1>1, <2>6, <2>7, Zenon DEF Reason, Masked
<1>2. IInv /\ ChokeInv /\ TypesOK /\ [Next]_vars =>
        [Starting /\ Layers[Layer].selfMask /\ AtLimit(Layer) = {} /\ ~RegionAtLimit(Layer) =>
           \A v \in Voice :
             /\ ~OffedOrFree(voice[v]) /\ next[v] = v
             /\ OffedOrFree(voice'[v]) \/ voice'[v].event # voice[v].event
             => voice[v].event.value <= Top.event.value]_vars
  BY <1>1, Zenon DEF ChokeInv
<1> QED BY <1>2, Invariance, ChokesInvariant, TypesInvariant, PTL DEF Spec, LouderSurvives
=============================================================================
