---------------------------- MODULE PedalsProofs ----------------------------
(***************************************************************************)
(* Notes held by the pedals, for all channels, keys, regions, numbers of   *)
(* voices and lengths of the queues.                                       *)
(***************************************************************************)
EXTENDS Pedals, SequenceTheorems, FiniteSetTheorems, WellFoundedInduction, TLAPS

-----------------------------------------------------------------------------
(* Numbers of a finite set in order.                                       *)

Rank(S, x) == Cardinality({y \in S : y <= x})

LEMMA RankSteps ==
  ASSUME NEW S, S \subseteq Nat, IsFiniteSet(S), NEW x \in Nat
  PROVE  /\ Rank(S, x) \in Nat /\ Rank(S, x) <= Cardinality(S)
         /\ x > 0 => Rank(S, x) = Rank(S, x - 1) + (IF x \in S THEN 1 ELSE 0)
         /\ x = 0 => Rank(S, x) = IF x \in S THEN 1 ELSE 0
<1> DEFINE Upto(z) == {y \in S : y <= z}
<1>0. \A y \in S : y \in Nat
  OBVIOUS
<1>1. ASSUME NEW z PROVE IsFiniteSet(Upto(z)) /\ Cardinality(Upto(z)) \in Nat
                         /\ Cardinality(Upto(z)) <= Cardinality(S)
  <2>1. Upto(z) \in SUBSET S
    OBVIOUS
  <2> HIDE DEF Upto
  <2> QED BY <2>1, FS_Subset, FS_CardinalityType
<1>2. ASSUME x > 0 PROVE Rank(S, x) = Rank(S, x - 1) + (IF x \in S THEN 1 ELSE 0)
  <2>1. Upto(x) = Upto(x - 1) \cup (IF x \in S THEN {x} ELSE {})
    <3>1. ASSUME NEW y \in S PROVE y <= x <=> y <= x - 1 \/ y = x
      BY <1>0, <1>2, <3>1
    <3> QED BY <3>1
  <2>2. x \notin Upto(x - 1) /\ IsFiniteSet(Upto(x - 1)) /\ Cardinality(Upto(x - 1)) \in Nat
    <3>1. ~(x <= x - 1)
      OBVIOUS
    <3>2. x \notin Upto(x - 1)
      BY <3>1
    <3> HIDE DEF Upto
    <3> QED BY <3>2, <1>1
  <2>3. Rank(S, x) = Cardinality(Upto(x)) /\ Rank(S, x - 1) = Cardinality(Upto(x - 1))
    BY DEF Rank
  <2> HIDE DEF Upto
  <2>4. CASE x \in S
    BY <2>1, <2>2, <2>3, <2>4, FS_AddElement, ZenonT(60)
  <2>5. CASE x \notin S
    BY <2>1, <2>2, <2>3, <2>5
  <2> QED BY <2>4, <2>5
<1>3. ASSUME x = 0 PROVE Rank(S, x) = IF x \in S THEN 1 ELSE 0
  <2>1. Upto(x) = IF x \in S THEN {x} ELSE {}
    <3>1. ASSUME NEW y \in S PROVE y <= x <=> y = x
      BY <1>0, <1>3, <3>1
    <3> QED BY <3>1
  <2>2. Rank(S, x) = Cardinality(Upto(x))
    BY DEF Rank
  <2> QED BY <2>1, <2>2, FS_Singleton, FS_EmptySet
<1> QED BY <1>1, <1>2, <1>3 DEF Rank

(* Nth finds what it looks for: the least number of sufficient rank.       *)
LEMMA NthExists ==
  ASSUME NEW top \in Nat, NEW S, S \subseteq 0 .. top, IsFiniteSet(S),
         NEW n \in 1 .. Cardinality(S)
  PROVE  Nth(S, n) \in S /\ Rank(S, Nth(S, n)) = n
<1>1. Cardinality(S) \in Nat
  BY FS_CardinalityType
<1>2. S \subseteq Nat /\ \A y \in S : y <= top
  OBVIOUS
<1>3. Rank(S, top) = Cardinality(S)
  <2>1. {y \in S : y <= top} = S
    BY <1>2
  <2> QED BY <2>1 DEF Rank
<1> DEFINE T == {x \in Nat : Rank(S, x) >= n}
<1>4. T \subseteq Nat /\ T # {}
  <2>1. top \in T
    BY <1>1, <1>3
  <2> QED BY <2>1
<1>5. PICK x \in T : \A y \in T : ~(<<y, x>> \in OpToRel(<, Nat))
  BY <1>4, NatLessThanWellFounded, WFMin
<1>6. x \in Nat /\ Rank(S, x) >= n
  OBVIOUS
<1>7. x > 0 => Rank(S, x - 1) < n
  <2>1. ASSUME x > 0, ~(Rank(S, x - 1) < n) PROVE FALSE
    <3>0. x - 1 \in Nat
      BY <2>1, <1>6
    <3>1. x - 1 \in Nat /\ Rank(S, x - 1) \in Nat
      BY <1>2, <3>0, RankSteps
    <3>2. x - 1 \in T
      BY <3>1, <2>1
    <3>3. <<x - 1, x>> \in OpToRel(<, Nat)
      BY <3>1, <1>6 DEF OpToRel
    <3> QED BY <3>2, <3>3, <1>5
  <2> QED BY <2>1
<1>8. x \in S /\ Rank(S, x) = n
  <2>1. CASE x = 0
    <3>1. Rank(S, x) = IF x \in S THEN 1 ELSE 0
      BY <2>1, <1>2, <1>6, RankSteps
    <3> QED BY <3>1, <1>6
  <2>2. CASE x > 0
    <3>0. x - 1 \in Nat
      BY <2>2, <1>6
    <3>1. x - 1 \in Nat /\ Rank(S, x - 1) \in Nat /\ Rank(S, x) \in Nat
      BY <3>0, <1>2, <1>6, RankSteps
    <3>2. Rank(S, x) = Rank(S, x - 1) + (IF x \in S THEN 1 ELSE 0)
      BY <2>2, <1>2, <1>6, RankSteps
    <3> QED BY <3>1, <3>2, <2>2, <1>6, <1>7
  <2> QED BY <2>1, <2>2, <1>6
<1> QED BY <1>8 DEF Nth, Rank

LEMMA NthInjective ==
  ASSUME NEW top \in Nat, NEW S, S \subseteq 0 .. top, IsFiniteSet(S),
         NEW m \in 1 .. Cardinality(S), NEW n \in 1 .. Cardinality(S), Nth(S, m) = Nth(S, n)
  PROVE  m = n
BY NthExists

-----------------------------------------------------------------------------
(* Sequences: entries kept, entries added while there is room.             *)

LEMMA KeptEntries ==
  ASSUME NEW E, NEW q \in Seq(E), NEW S \in SUBSET DOMAIN q
  PROVE  /\ Kept(q, S) \in Seq(E)
         /\ Len(Kept(q, S)) = Cardinality(S) /\ Len(Kept(q, S)) <= Len(q)
         /\ \A n \in DOMAIN Kept(q, S) : Nth(S, n) \in S /\ Kept(q, S)[n] = q[Nth(S, n)]
         /\ \A m, n \in DOMAIN Kept(q, S) : Nth(S, m) = Nth(S, n) => m = n
<1>1. DOMAIN q = 1 .. Len(q) /\ Len(q) \in Nat
  OBVIOUS
<1>2. IsFiniteSet(1 .. Len(q)) /\ Cardinality(1 .. Len(q)) = Len(q)
  <2>1. 1 \in Int /\ Len(q) \in Int
    BY <1>1
  <2>2. IsFiniteSet(1 .. Len(q)) /\ Cardinality(1 .. Len(q)) = IF 1 > Len(q) THEN 0 ELSE Len(q) - 1 + 1
    BY <2>1, FS_Interval
  <2> QED BY <2>2, <1>1
<1>3. S \subseteq 0 .. Len(q) /\ IsFiniteSet(S) /\ Cardinality(S) \in Nat /\ Cardinality(S) <= Len(q)
  BY <1>1, <1>2, FS_Subset, FS_CardinalityType
<1>4. \A n \in 1 .. Cardinality(S) : Nth(S, n) \in S
  BY <1>3, NthExists
<1>5. \A n \in 1 .. Cardinality(S) : q[Nth(S, n)] \in E
  BY <1>4
<1>6. /\ Kept(q, S) \in Seq(E) /\ Len(Kept(q, S)) = Cardinality(S)
      /\ DOMAIN Kept(q, S) = 1 .. Cardinality(S)
  BY <1>3, <1>5 DEF Kept
<1>7. \A n \in 1 .. Cardinality(S) : Kept(q, S)[n] = q[Nth(S, n)]
  BY DEF Kept
<1>8. \A m, n \in 1 .. Cardinality(S) : Nth(S, m) = Nth(S, n) => m = n
  BY <1>3, NthInjective
<1> QED BY <1>3, <1>4, <1>6, <1>7, <1>8

(* Start and DelayAll append as many of the new elements as there is room. *)
LEMMA Appended ==
  ASSUME NEW E, NEW q \in Seq(E), NEW new \in Seq(E), NEW room \in Nat, Len(q) <= room,
         NEW r, r = q \o SubSeq(new, 1, IF Len(new) <= room - Len(q) THEN Len(new)
                                        ELSE room - Len(q))
  PROVE  /\ r \in Seq(E) /\ Len(q) <= Len(r) /\ Len(r) <= room
         /\ \A i \in DOMAIN q : i \in DOMAIN r /\ r[i] = q[i]
         /\ \A i \in DOMAIN r \ DOMAIN q :
              i - Len(q) \in DOMAIN new /\ r[i] = new[i - Len(q)]
<1> DEFINE k == IF Len(new) <= room - Len(q) THEN Len(new) ELSE room - Len(q)
           taken == SubSeq(new, 1, k)
<1>1. k \in Nat /\ k <= Len(new) /\ Len(q) + k <= room
  OBVIOUS
<1>2. \A i \in 1 .. k : new[i] \in E
  BY <1>1
<1>3. taken \in Seq(E) /\ Len(taken) = k /\ \A i \in 1 .. k : taken[i] = new[i]
  <2> HIDE DEF k
  <2>1. 1 \in Int /\ k \in Int
    BY <1>1
  <2>2. SubSeq(new, 1, k) \in Seq(E) /\ Len(SubSeq(new, 1, k)) = (IF 1 <= k THEN k - 1 + 1 ELSE 0)
        /\ \A i \in 1 .. k - 1 + 1 : SubSeq(new, 1, k)[i] = new[1 + i - 1]
    BY <2>1, <1>2, SubSeqProperties
  <2> QED BY <2>2, <1>1
<1>4. r = q \o taken
  OBVIOUS
<1> HIDE DEF k, taken
<1>5. r \in Seq(E) /\ Len(r) = Len(q) + k
  <2>1. q \o taken \in Seq(E) /\ Len(q \o taken) = Len(q) + Len(taken)
    BY <1>3, ConcatProperties
  <2> QED BY <2>1, <1>3, <1>4
<1>6. \A i \in DOMAIN q : i \in DOMAIN r /\ r[i] = q[i]
  BY <1>3, <1>4, <1>5
<1>7. ASSUME NEW i \in DOMAIN r \ DOMAIN q
      PROVE  i - Len(q) \in 1 .. k /\ r[i] = taken[i - Len(q)]
  BY <1>1, <1>3, <1>4, <1>5
<1>8. ASSUME NEW i \in DOMAIN r \ DOMAIN q
      PROVE  i - Len(q) \in DOMAIN new /\ r[i] = new[i - Len(q)]
  BY <1>1, <1>3, <1>7
<1> QED BY <1>1, <1>5, <1>6, <1>8

LEMMA LeastExists ==
  ASSUME NEW S, S \subseteq Nat, S # {}
  PROVE  \E x \in S : \A y \in S : x <= y
<1>1. PICK x \in S : \A y \in S : ~(<<y, x>> \in OpToRel(<, Nat))
  BY NatLessThanWellFounded, WFMin
<1>2. \A y \in S : ~(y < x)
  BY <1>1 DEF OpToRel
<1>3. x \in Nat /\ \A y \in S : y \in Nat
  BY <1>1
<1> QED BY <1>2, <1>3

-----------------------------------------------------------------------------
(* The invariant.  No two attack voices are of the same note; a layer      *)
(* notes the sostenuto pedal only if its region heeds it; and the queue of *)
(* that pedal is guarded by it.                                            *)

IdentitiesOK ==
  /\ \A i \in DOMAIN voices : voices[i].type = "on" => voices[i].id \in 1 .. begun
  /\ \A i, j \in DOMAIN voices :
       voices[i].type = "on" /\ voices[j].type = "on" /\ voices[i].id = voices[j].id => i = j

(* Release voices never see a Note Off or a pedal.                         *)
Untouched(v) == v.type = "off" /\ ~v.noteIsOff /\ ~v.released
ReleasesOK == \A i \in DOMAIN voices : voices[i].type = "off" => Untouched(voices[i])

Heeded == \A s \in Scope : layer["release"][s]["sostenuto"] => region.checkSostenuto

Inv == TypeOK /\ IdentitiesOK /\ ReleasesOK /\ Heeded /\ SostenutoQueueGuarded

LEMMA RegionFields ==
  ASSUME region \in Regions
  PROVE  /\ region.restricted \in BOOLEAN /\ region.checkSustain \in BOOLEAN
         /\ region.checkSostenuto \in BOOLEAN /\ region.oneShot \in BOOLEAN
         /\ region.cancels \in BOOLEAN /\ region.numVoices \in Nat
         /\ region.sources \subseteq Channel
BY PedalAssumption DEF Region

LEMMA Scopes ==
  ASSUME region \in Regions, NEW c \in Channel
  PROVE  /\ ScopeOf(c) \in Scope /\ c \in Scope /\ Omni \in Scope
         /\ \A d \in Channel : ScopeOf(d) = ScopeOf(c) <=> ScopeOf(c) \in {Omni, d}
BY PedalAssumption DEF ScopeOf, Scope

-----------------------------------------------------------------------------
(* What the messages do to the voices.                                     *)

(* The same voice, of a note or a release.                                 *)
Same(v, u) ==
  /\ u.type = v.type /\ u.id = v.id /\ u.channel = v.channel
  /\ v.type = "off" => u.noteIsOff = v.noteIsOff /\ u.released = v.released

(* All voices play on, and release voices may have joined them.            *)
Continues(w) ==
  /\ w \in Seq(VoiceRecord) /\ Len(voices) <= Len(w) /\ Len(w) <= region.numVoices
  /\ \A i \in DOMAIN voices : Same(voices[i], w[i])
  /\ \A i \in DOMAIN w \ DOMAIN voices : Untouched(w[i])

LEMMA NoteOffKeeps ==
  ASSUME region \in Regions, NEW v \in VoiceRecord, NEW c, NEW p, NEW id
  PROVE  VoiceNoteOff(v, c, p, id) \in VoiceRecord /\ Same(v, VoiceNoteOff(v, c, p, id))
<1>1. Held(v) \in BOOLEAN
  BY DEF Held
<1> QED BY <1>1, RegionFields DEF VoiceNoteOff, OwnNote, VoiceRecord, Same

LEMMA PedalSeenKeeps ==
  ASSUME region \in Regions, NEW v \in VoiceRecord, NEW pedal \in Pedal, NEW down \in BOOLEAN
  PROVE  /\ PedalSeen(v, pedal, down) \in VoiceRecord
         /\ PedalSeen(v, pedal, down).type = v.type /\ PedalSeen(v, pedal, down).id = v.id
         /\ PedalSeen(v, pedal, down).channel = v.channel
         /\ PedalSeen(v, pedal, down).noteIsOff = v.noteIsOff
         /\ PedalSeen(v, pedal, down).released = v.released
<1>1. CASE pedal = "sostenuto" /\ region.checkSustain
  BY <1>1 DEF PedalSeen, VoiceRecord
<1>2. CASE pedal = "sustain" /\ region.checkSostenuto
  BY <1>2 DEF PedalSeen, VoiceRecord
<1>3. CASE ~(pedal = "sostenuto" /\ region.checkSustain)
           /\ ~(pedal = "sustain" /\ region.checkSostenuto)
  BY <1>3 DEF PedalSeen
<1> QED BY <1>1, <1>2, <1>3

LEMMA CCKeeps ==
  ASSUME region \in Regions, NEW v \in VoiceRecord, v.type = "off" => Untouched(v),
         NEW s, NEW pedal \in Pedal, NEW down \in BOOLEAN
  PROVE  VoiceCC(v, s, pedal, down) \in VoiceRecord /\ Same(v, VoiceCC(v, s, pedal, down))
<1>1. PICK u : u = PedalSeen(v, pedal, down)
  OBVIOUS
<1>2. /\ u \in VoiceRecord /\ u.type = v.type /\ u.id = v.id /\ u.channel = v.channel
      /\ u.noteIsOff = v.noteIsOff /\ u.released = v.released
  BY <1>1, PedalSeenKeeps
<1>3. PICK b \in BOOLEAN :
        b = ((v.released \/ (u.noteIsOff /\ ~region.oneShot /\ ~Held(u)))
               /\ ~(region.checkSustain /\ u.sustain /\ region.cancels /\ u.type = "on"))
  OBVIOUS
<1>4. VoiceCC(v, s, pedal, down) = IF s \notin {Omni, v.channel} THEN v ELSE [u EXCEPT !.released = b]
  BY <1>1, <1>3 DEF VoiceCC
<1>5. v.type = "off" => b = FALSE
  BY <1>2, <1>3 DEF Untouched
<1>6. [u EXCEPT !.released = b] \in VoiceRecord /\ Same(v, [u EXCEPT !.released = b])
  BY <1>2, <1>5 DEF VoiceRecord, Same, Untouched
<1> QED BY <1>4, <1>6 DEF Same

(* Release voices start behind those that play.                            *)
LEMMA ReleasesStart ==
  ASSUME region \in Regions, NEW vs \in Seq(VoiceRecord), Len(vs) <= region.numVoices,
         NEW es \in Seq(EntryRecord), NEW w, w = Start(vs, Voiced(es))
  PROVE  /\ w \in Seq(VoiceRecord) /\ Len(vs) <= Len(w) /\ Len(w) <= region.numVoices
         /\ \A i \in DOMAIN vs : i \in DOMAIN w /\ w[i] = vs[i]
         /\ \A i \in DOMAIN w \ DOMAIN vs : Untouched(w[i])
<1>1. \A i \in DOMAIN es : ReleaseVoice(es[i]) \in VoiceRecord /\ Untouched(ReleaseVoice(es[i]))
  <2>1. ASSUME NEW e \in EntryRecord
        PROVE  ReleaseVoice(e) \in VoiceRecord /\ Untouched(ReleaseVoice(e))
    BY DEF ReleaseVoice, VoiceRecord, EntryRecord, Untouched
  <2> QED BY <2>1
<1>2. PICK new : new = Voiced(es)
  OBVIOUS
<1>3. new \in Seq(VoiceRecord) /\ \A i \in DOMAIN new : Untouched(new[i])
  BY <1>1, <1>2 DEF Voiced
<1>4. PICK room \in Nat : room = region.numVoices
  BY RegionFields
<1>5. w = vs \o SubSeq(new, 1, IF Len(new) <= room - Len(vs) THEN Len(new)
                               ELSE room - Len(vs))
  BY <1>2, <1>4 DEF Start
<1>6. /\ w \in Seq(VoiceRecord) /\ Len(vs) <= Len(w) /\ Len(w) <= region.numVoices
      /\ \A i \in DOMAIN vs : i \in DOMAIN w /\ w[i] = vs[i]
      /\ \A i \in DOMAIN w \ DOMAIN vs :
           i - Len(vs) \in DOMAIN new /\ w[i] = new[i - Len(vs)]
  <2>1. Len(vs) <= room
    BY <1>4
  <2>2. w \in Seq(VoiceRecord) /\ Len(vs) <= Len(w) /\ Len(w) <= room
    BY <2>1, <1>3, <1>5, Appended
  <2>3. \A i \in DOMAIN vs : i \in DOMAIN w /\ w[i] = vs[i]
    BY <2>1, <1>3, <1>5, Appended
  <2>4. \A i \in DOMAIN w \ DOMAIN vs :
          i - Len(vs) \in DOMAIN new /\ w[i] = new[i - Len(vs)]
    BY <2>1, <1>3, <1>5, Appended
  <2> QED BY <1>4, <2>2, <2>3, <2>4
<1> QED BY <1>3, <1>6

(* Each message hands the voices that play to registerNoteOff or           *)
(* registerCC, and may start releases.                                     *)
LEMMA MappedContinue ==
  ASSUME Inv, NEW vs, vs = [i \in DOMAIN voices |-> vs[i]],
         \A i \in DOMAIN voices : vs[i] \in VoiceRecord /\ Same(voices[i], vs[i]),
         NEW w,
         w = vs \/ \E es \in Seq(EntryRecord) : w = Start(vs, Voiced(es))
  PROVE  /\ Continues(w) /\ vs \in Seq(VoiceRecord) /\ Len(vs) = Len(voices)
         /\ \A i \in DOMAIN voices : w[i] = vs[i]
<1>1. voices \in Seq(VoiceRecord) /\ Len(voices) <= region.numVoices /\ region \in Regions
  BY DEF Inv, TypeOK
<1>2. PICK n \in Nat : n = Len(voices) /\ DOMAIN voices = 1 .. n
  BY <1>1
<1>3. vs \in [1 .. n -> VoiceRecord]
  BY <1>2
<1>4. vs \in Seq(VoiceRecord) /\ Len(vs) = Len(voices)
  BY <1>2, <1>3
<1>5. CASE w = vs
  BY <1>1, <1>4, <1>5 DEF Continues
<1>6. CASE \E es \in Seq(EntryRecord) : w = Start(vs, Voiced(es))
  <2>1. PICK es \in Seq(EntryRecord) : w = Start(vs, Voiced(es))
    BY <1>6
  <2>2. /\ w \in Seq(VoiceRecord) /\ Len(vs) <= Len(w) /\ Len(w) <= region.numVoices
        /\ \A i \in DOMAIN vs : i \in DOMAIN w /\ w[i] = vs[i]
        /\ \A i \in DOMAIN w \ DOMAIN vs : Untouched(w[i])
    <3>1. Len(vs) <= region.numVoices
      BY <1>1, <1>4
    <3>2. region \in Regions /\ vs \in Seq(VoiceRecord)
      BY <1>1, <1>4
    <3>3. w \in Seq(VoiceRecord) /\ Len(vs) <= Len(w) /\ Len(w) <= region.numVoices
      BY <3>1, <3>2, <2>1, ReleasesStart
    <3>4. \A i \in DOMAIN vs : i \in DOMAIN w /\ w[i] = vs[i]
      BY <3>1, <3>2, <2>1, ReleasesStart
    <3>5. \A i \in DOMAIN w \ DOMAIN vs : Untouched(w[i])
      BY <3>1, <3>2, <2>1, ReleasesStart
    <3> QED BY <3>3, <3>4, <3>5
  <2> QED BY <2>2, <1>1, <1>4 DEF Continues
<1> QED BY <1>4, <1>5, <1>6

-----------------------------------------------------------------------------
(* What the messages do to the queues.                                     *)

LEMMA KeptOf ==
  ASSUME NEW q \in Seq(EntryRecord), NEW s
  PROVE  Of(q, s) \in Seq(EntryRecord) /\ Others(q, s) \in Seq(EntryRecord)
<1>1. At(q, s) \in SUBSET DOMAIN q /\ DOMAIN q \ At(q, s) \in SUBSET DOMAIN q
  BY DEF At
<1> QED BY <1>1, KeptEntries DEF Of, Others

LEMMA DueEntries ==
  ASSUME NEW q \in Seq(EntryRecord), NEW vs, NEW s
  PROVE  Due(q, vs, s) \in Seq(EntryRecord)
BY KeptOf DEF Due

LEMMA EndedIsNumber ==
  ASSUME notes \subseteq EntryRecord, NEW c, NEW p
  PROVE  /\ Ended(c, p) \in Nat
         /\ Ended(c, p) # NoId =>
              \E n \in notes : n.channel = c /\ n.pitch = p /\ n.id = Ended(c, p)
<1>1. PICK ids : ids = {n.id : n \in {m \in notes : m.channel = c /\ m.pitch = p}}
  OBVIOUS
<1>2. ids \subseteq Nat
  BY <1>1 DEF EntryRecord
<1>3. Ended(c, p) = IF ids = {} THEN NoId ELSE CHOOSE i \in ids : \A j \in ids : i <= j
  BY <1>1 DEF Ended
<1>4. ids # {} => Ended(c, p) \in ids
  BY <1>2, <1>3, LeastExists
<1>5. ids = {} => Ended(c, p) = NoId /\ NoId \in Nat
  BY <1>3 DEF NoId
<1> QED BY <1>1, <1>2, <1>4, <1>5

(* Identified writes the identity of a note into an entry of its scope.    *)
LEMMA IdentifiedEntry ==
  ASSUME NEW q \in Seq(EntryRecord), NEW c \in Channel, NEW p \in Pitch, NEW id \in Nat
  PROVE  \/ Identified(q, c, p, id) = q
         \/ \E i \in Matches(q, c, p) :
              /\ id # NoId /\ q[i].id = NoId
              /\ Identified(q, c, p, id) = [q EXCEPT ![i] = Entry(c, p, id)]
<1>1. PICK blank : blank = {i \in Matches(q, c, p) : q[i].id = NoId}
  OBVIOUS
<1>2. blank \subseteq Nat
  BY <1>1 DEF Matches
<1>3. CASE id = NoId \/ blank = {}
  BY <1>1, <1>3 DEF Identified
<1>4. CASE ~(id = NoId \/ blank = {})
  <2>1. PICK i : i = CHOOSE k \in blank : \A j \in blank : k <= j
    OBVIOUS
  <2>2. i \in blank
    BY <2>1, <1>2, <1>4, LeastExists
  <2>3. Identified(q, c, p, id) = [q EXCEPT ![i] = Entry(c, p, id)]
    BY <1>1, <1>4, <2>1 DEF Identified
  <2> QED BY <1>1, <1>4, <2>2, <2>3
<1> QED BY <1>3, <1>4

LEMMA StoredEntries ==
  ASSUME pressed \in [Scope -> [Pitch -> Nat]], NEW c \in Channel
  PROVE  /\ Stored(c) \in Seq(EntryRecord)
         /\ \A i \in DOMAIN Stored(c) : Stored(c)[i].channel = c /\ Stored(c)[i].id = NoId
<1>1. PICK held : held = {p \in Pitch : pressed[ScopeOf(c)][p] > 0}
  OBVIOUS
<1>2. held \subseteq 0 .. 127 /\ held \subseteq Pitch
  BY <1>1, PedalAssumption
<1>3. IsFiniteSet(held) /\ Cardinality(held) \in Nat
  <2>0. 0 \in Int /\ 127 \in Int
    OBVIOUS
  <2>1. IsFiniteSet(0 .. 127)
    BY <2>0, FS_Interval
  <2> QED BY <2>1, <1>2, FS_Subset, FS_CardinalityType
<1>4. \A n \in 1 .. Cardinality(held) : Nth(held, n) \in Pitch
  <2>1. 127 \in Nat
    OBVIOUS
  <2> QED BY <2>1, <1>2, <1>3, NthExists
<1>5. Stored(c) = [n \in 1 .. Cardinality(held) |-> Entry(c, Nth(held, n), NoId)]
  BY <1>1 DEF Stored
<1>6. \A n \in 1 .. Cardinality(held) : Entry(c, Nth(held, n), NoId) \in EntryRecord
  BY <1>4 DEF Entry, EntryRecord, NoId
<1>7. Stored(c) \in [1 .. Cardinality(held) -> EntryRecord]
  BY <1>5, <1>6
<1>8. \A n \in 1 .. Cardinality(held) : Stored(c)[n].channel = c /\ Stored(c)[n].id = NoId
  BY <1>5 DEF Entry
<1>9. Stored(c) \in Seq(EntryRecord) /\ DOMAIN Stored(c) = 1 .. Cardinality(held)
  BY <1>3, <1>7
<1> QED BY <1>8, <1>9

LEMMA DelayedEntries ==
  ASSUME NEW q \in Seq(EntryRecord), Len(q) <= QueueCapacity,
         NEW es \in Seq(EntryRecord), NEW r, r = DelayAll(q, es)
  PROVE  /\ r \in Seq(EntryRecord) /\ Len(q) <= Len(r) /\ Len(r) <= QueueCapacity
         /\ \A i \in DOMAIN q : i \in DOMAIN r /\ r[i] = q[i]
         /\ \A i \in DOMAIN r \ DOMAIN q :
              i - Len(q) \in DOMAIN es /\ r[i] = es[i - Len(q)]
<1>1. QueueCapacity \in Nat
  BY PedalAssumption
<1>2. r = q \o SubSeq(es, 1, IF Len(es) <= QueueCapacity - Len(q) THEN Len(es)
                             ELSE QueueCapacity - Len(q))
  BY DEF DelayAll
<1>3. r \in Seq(EntryRecord) /\ Len(q) <= Len(r) /\ Len(r) <= QueueCapacity
  BY <1>1, <1>2, Appended
<1>4. \A i \in DOMAIN q : i \in DOMAIN r /\ r[i] = q[i]
  BY <1>1, <1>2, Appended
<1>5. \A i \in DOMAIN r \ DOMAIN q : i - Len(q) \in DOMAIN es /\ r[i] = es[i - Len(q)]
  BY <1>1, <1>2, Appended
<1> QED BY <1>3, <1>4, <1>5

-----------------------------------------------------------------------------
(* The voices after each message.                                          *)

LEMMA NoteOffVoices ==
  ASSUME Inv, NEW c \in Channel, NEW p \in Pitch, NoteOff(c, p)
  PROVE  /\ Continues(voices')
         /\ \E id \in Nat : \A i \in DOMAIN voices : voices'[i] = VoiceNoteOff(voices[i], c, p, id)
<1>1. /\ notes \subseteq EntryRecord /\ voices \in Seq(VoiceRecord)
      /\ sustained \in Seq(EntryRecord) /\ region \in Regions
  BY DEF Inv, TypeOK
<1>2. PICK id \in Nat : id = Ended(c, p)
  BY <1>1, EndedIsNumber
<1>3. PICK vs : vs = [i \in DOMAIN voices |-> VoiceNoteOff(voices[i], c, p, id)]
  OBVIOUS
<1>4. PICK e : e = Entry(c, p, id)
  OBVIOUS
<1>5. <<e>> \in Seq(EntryRecord)
  <2>1. e \in EntryRecord
    BY <1>4 DEF Entry, EntryRecord
  <2> QED BY <2>1
<1>6. voices' = vs \/ voices' = Start(vs, <<ReleaseVoice(e)>>)
  BY <1>2, <1>3, <1>4 DEF NoteOff
<1>7. Voiced(<<e>>) = <<ReleaseVoice(e)>>
  BY DEF Voiced
<1>8. voices' = vs \/ \E es \in Seq(EntryRecord) : voices' = Start(vs, Voiced(es))
  BY <1>5, <1>6, <1>7
<1>9. \A i \in DOMAIN voices : vs[i] \in VoiceRecord /\ Same(voices[i], vs[i])
  BY <1>1, <1>3, NoteOffKeeps
<1>10. vs = [i \in DOMAIN voices |-> vs[i]]
  BY <1>3
<1>11. Continues(voices') /\ \A i \in DOMAIN voices : voices'[i] = vs[i]
  BY <1>8, <1>9, <1>10, MappedContinue
<1> QED BY <1>3, <1>11

Pressed(c, pedal, down) ==
  \/ down /\ PressPedal(c, pedal)
  \/ ~down /\ pedal = "sustain" /\ LiftSustain(c)
  \/ ~down /\ pedal = "sostenuto" /\ LiftSostenuto(c)

LEMMA PedalVoices ==
  ASSUME Inv, NEW c \in Channel, NEW pedal \in Pedal, NEW down \in BOOLEAN,
         Pressed(c, pedal, down)
  PROVE  /\ Continues(voices')
         /\ \A i \in DOMAIN voices :
              voices'[i] = VoiceCC(voices[i], ScopeOf(c), pedal, down)
<1>1. /\ voices \in Seq(VoiceRecord) /\ region \in Regions
      /\ sustained \in Seq(EntryRecord) /\ sostenuted \in Seq(EntryRecord)
      /\ \A i \in DOMAIN voices : voices[i].type = "off" => Untouched(voices[i])
  BY DEF Inv, TypeOK, ReleasesOK
<1>2. PICK vs : vs = [i \in DOMAIN voices |-> VoiceCC(voices[i], ScopeOf(c), pedal, down)]
  OBVIOUS
<1>3. voices' = vs \/ \E es \in Seq(EntryRecord) : voices' = Start(vs, Voiced(es))
  <2>1. CASE PressPedal(c, pedal) /\ down
    BY <2>1, <1>2 DEF PressPedal
  <2>2. CASE ~down /\ pedal = "sustain" /\ LiftSustain(c)
    <3>1. PICK es : es = IF region.checkSustain THEN Due(sustained, vs, ScopeOf(c)) ELSE <<>>
      OBVIOUS
    <3>2. es \in Seq(EntryRecord)
      BY <3>1, <1>1, DueEntries
    <3>3. voices' = Start(vs, Voiced(es))
      BY <2>2, <1>2, <3>1 DEF LiftSustain
    <3> QED BY <3>2, <3>3
  <2>3. CASE ~down /\ pedal = "sostenuto" /\ LiftSostenuto(c)
    <3>1. PICK es : es = IF region.checkSostenuto
                              /\ ~(region.checkSostenuto /\ layer["release"][ScopeOf(c)]["sustain"])
                         THEN Due(sostenuted, vs, ScopeOf(c)) ELSE <<>>
      OBVIOUS
    <3>2. es \in Seq(EntryRecord)
      BY <3>1, <1>1, DueEntries
    <3>3. voices' = Start(vs, Voiced(es))
      BY <2>3, <1>2, <3>1 DEF LiftSostenuto
    <3> QED BY <3>2, <3>3
  <2> QED BY <2>1, <2>2, <2>3 DEF Pressed
<1>4. \A i \in DOMAIN voices : vs[i] \in VoiceRecord /\ Same(voices[i], vs[i])
  BY <1>1, <1>2, CCKeeps, SMTT(40)
<1>5. vs = [i \in DOMAIN voices |-> vs[i]]
  BY <1>2
<1>6. Continues(voices') /\ \A i \in DOMAIN voices : voices'[i] = vs[i]
  BY <1>3, <1>4, <1>5, MappedContinue
<1> QED BY <1>2, <1>6

Lifted(v) == VoiceCC(VoiceCC(v, Omni, "sustain", FALSE), Omni, "sostenuto", FALSE)

LEMMA ResetVoices ==
  ASSUME Inv, ResetAllControllers
  PROVE  Continues(voices') /\ \A i \in DOMAIN voices : voices'[i] = Lifted(voices[i])
<1>1. /\ voices \in Seq(VoiceRecord) /\ region \in Regions
      /\ \A i \in DOMAIN voices : voices[i].type = "off" => Untouched(voices[i])
  BY DEF Inv, TypeOK, ReleasesOK
<1>2. voices' = [i \in DOMAIN voices |-> Lifted(voices[i])]
  BY DEF ResetAllControllers, Lifted
<1>3. ASSUME NEW v \in VoiceRecord, v.type = "off" => Untouched(v)
      PROVE  Lifted(v) \in VoiceRecord /\ Same(v, Lifted(v))
  <2>1. PICK u : u = VoiceCC(v, Omni, "sustain", FALSE)
    OBVIOUS
  <2>2. u \in VoiceRecord /\ Same(v, u)
    BY <1>1, <1>3, <2>1, CCKeeps DEF Pedal
  <2>3. u.type = "off" => Untouched(u)
    BY <1>3, <2>2 DEF Same, Untouched
  <2>4. Lifted(v) = VoiceCC(u, Omni, "sostenuto", FALSE)
    BY <2>1 DEF Lifted
  <2>5. Lifted(v) \in VoiceRecord /\ Same(u, Lifted(v))
    BY <1>1, <2>2, <2>3, <2>4, CCKeeps DEF Pedal
  <2> QED BY <2>2, <2>5 DEF Same
<1>4. \A i \in DOMAIN voices : voices'[i] \in VoiceRecord /\ Same(voices[i], voices'[i])
  BY <1>1, <1>2, <1>3
<1>5. voices' = [i \in DOMAIN voices |-> voices'[i]]
  BY <1>2
<1>6. Continues(voices')
  BY <1>4, <1>5, MappedContinue
<1> QED BY <1>2, <1>6

LEMMA ContinuesKeeps ==
  ASSUME Inv, Continues(voices'), UNCHANGED <<region, begun>>
  PROVE  /\ voices' \in Seq(VoiceRecord) /\ Len(voices') <= region'.numVoices
         /\ IdentitiesOK' /\ ReleasesOK'
<1>1. voices \in Seq(VoiceRecord) /\ voices' \in Seq(VoiceRecord)
  BY DEF Inv, TypeOK, Continues
<1>2. ASSUME NEW i \in DOMAIN voices'
      PROVE  IF i \in DOMAIN voices THEN Same(voices[i], voices'[i]) ELSE Untouched(voices'[i])
  BY DEF Continues
<1>3. IdentitiesOK'
  BY <1>2 DEF Inv, IdentitiesOK, Same, Untouched
<1>4. ReleasesOK'
  BY <1>2 DEF Inv, ReleasesOK, Same, Untouched
<1> QED BY <1>3, <1>4 DEF Continues

-----------------------------------------------------------------------------
(* Types, identities and the guard of the sostenuto queue.                 *)

LEMMA InitInv == Init => Inv
<1> SUFFICES ASSUME Init PROVE Inv
  OBVIOUS
<1>0. PICK down \in [Pedal -> BOOLEAN] :
        /\ midi = [pedal \in Pedal |-> [s \in Scope |-> down[pedal]]]
        /\ layer = [n \in LayerName |-> [s \in Scope |->
                      [pedal \in Pedal |-> Switch(pedal) /\ down[pedal]]]]
  BY DEF Init
<1>1. region \in Regions /\ voices = <<>> /\ sustained = <<>> /\ sostenuted = <<>>
      /\ notes = {} /\ begun = 0 /\ answered = {}
      /\ pressed = [s \in Scope |-> [p \in Pitch |-> 0]]
  BY DEF Init
<1>2. \A pedal \in Pedal : (Switch(pedal) /\ down[pedal]) \in BOOLEAN
  BY <1>1, RegionFields DEF Switch
<1>3. midi \in [Pedal -> [Scope -> BOOLEAN]]
  BY <1>0
<1>4. layer \in [LayerName -> [Scope -> [Pedal -> BOOLEAN]]]
  BY <1>0, <1>2
<1>5. QueueCapacity \in Nat /\ region.numVoices \in Nat
  BY <1>1, RegionFields, PedalAssumption
<1>6. voices \in Seq(VoiceRecord) /\ Len(voices) <= region.numVoices
  BY <1>1, <1>5
<1>7. /\ sustained \in Seq(EntryRecord) /\ Len(sustained) <= QueueCapacity
      /\ sostenuted \in Seq(EntryRecord) /\ Len(sostenuted) <= QueueCapacity
  BY <1>1, <1>5
<1>8. TypeOK
  BY <1>1, <1>3, <1>4, <1>6, <1>7 DEF TypeOK
<1>9. Heeded
  <2>1. ASSUME NEW s \in Scope, layer["release"][s]["sostenuto"] PROVE region.checkSostenuto
    <3>1. layer["release"][s]["sostenuto"] = (Switch("sostenuto") /\ down["sostenuto"])
      BY <1>0 DEF LayerName, Pedal
    <3> QED BY <2>1, <3>1 DEF Switch
  <2> QED BY <2>1 DEF Heeded
<1>10. IdentitiesOK /\ ReleasesOK /\ SostenutoQueueGuarded
  BY <1>1 DEF IdentitiesOK, ReleasesOK, SostenutoQueueGuarded
<1> QED BY <1>8, <1>9, <1>10 DEF Inv

LEMMA NoteOnVoices ==
  ASSUME Inv, NEW c \in Channel, NEW p \in Pitch, NoteOn(c, p),
         NEW v, v = AttackVoice(c, p, begun')
  PROVE  /\ v \in VoiceRecord /\ v.type = "on" /\ v.id = begun' /\ ~v.noteIsOff
         /\ voices' \in Seq(VoiceRecord) /\ Len(voices') <= region.numVoices
         /\ \A i \in DOMAIN voices : i \in DOMAIN voices' /\ voices'[i] = voices[i]
         /\ \A i \in DOMAIN voices' \ DOMAIN voices : i = Len(voices) + 1 /\ voices'[i] = v
<1>1. TypeOK /\ region \in Regions /\ voices \in Seq(VoiceRecord) /\ begun \in Nat
      /\ Len(voices) <= region.numVoices
  BY DEF Inv, TypeOK
<1>2. begun' = begun + 1 /\ UNCHANGED <<region, midi, layer, sustained, sostenuted, answered>>
  BY DEF NoteOn
<1>4. v \in VoiceRecord /\ v.type = "on" /\ v.id = begun' /\ ~v.noteIsOff
  <2>1. PICK su : su = (region.checkSustain /\ (IF region.restricted THEN layer["attack"][c]["sustain"]
                                                ELSE Down("sustain", Omni)))
    OBVIOUS
  <2>2. PICK so : so = IF region.checkSostenuto
                            /\ (IF region.restricted THEN layer["attack"][c]["sostenuto"]
                                ELSE Down("sostenuto", Omni)) THEN "previous" ELSE "up"
    OBVIOUS
  <2>3. /\ layer["attack"][c]["sustain"] \in BOOLEAN /\ Down("sustain", Omni) \in BOOLEAN
    BY <1>1, Scopes DEF TypeOK, Down, LayerName, Pedal
  <2>4. su \in BOOLEAN
    BY <1>1, <2>1, <2>3, RegionFields
  <2>5. so \in {"up", "previous"}
    BY <2>2
  <2>6. v = [type |-> "on", channel |-> c, pitch |-> p, id |-> begun', noteIsOff |-> FALSE,
             released |-> FALSE, sustain |-> su, sostenuto |-> so]
    BY <2>1, <2>2 DEF AttackVoice
  <2>7. begun' \in Nat
    BY <1>1, <1>2
  <2> QED BY <2>4, <2>5, <2>6, <2>7 DEF VoiceRecord
<1>5. PICK room \in Nat : room = region.numVoices
  BY <1>1, RegionFields
<1>6. PICK new : new = <<v>>
  OBVIOUS
<1>7. new \in Seq(VoiceRecord) /\ \A i \in DOMAIN new : new[i] = v
  BY <1>4, <1>6
<1>8. voices' = voices \o SubSeq(new, 1, IF Len(new) <= room - Len(voices) THEN Len(new)
                                         ELSE room - Len(voices))
  BY <1>5, <1>6 DEF NoteOn, Start
<1>9. Len(voices) <= room
  BY <1>1, <1>5
<1>10. voices' \in Seq(VoiceRecord) /\ Len(voices') <= room /\ Len(voices) <= Len(voices')
  BY <1>1, <1>7, <1>8, <1>9, Appended
<1>11. \A i \in DOMAIN voices : i \in DOMAIN voices' /\ voices'[i] = voices[i]
  BY <1>1, <1>7, <1>8, <1>9, Appended
<1>12. \A i \in DOMAIN voices' \ DOMAIN voices :
         i - Len(voices) \in DOMAIN new /\ voices'[i] = new[i - Len(voices)]
  BY <1>1, <1>7, <1>8, <1>9, Appended
<1>13. \A i \in DOMAIN voices' \ DOMAIN voices : i = Len(voices) + 1 /\ voices'[i] = v
  BY <1>6, <1>7, <1>10, <1>1, <1>12
<1> QED BY <1>4, <1>5, <1>10, <1>11, <1>13

LEMMA NoteOnInv ==
  ASSUME Inv, NEW c \in Channel, NEW p \in Pitch, NoteOn(c, p)
  PROVE  Inv'
<1>1. TypeOK /\ region \in Regions /\ voices \in Seq(VoiceRecord) /\ begun \in Nat
      /\ Len(voices) <= region.numVoices
  BY DEF Inv, TypeOK
<1>2. begun' = begun + 1 /\ UNCHANGED <<region, midi, layer, sustained, sostenuted, answered>>
  BY DEF NoteOn
<1>3. PICK v : v = AttackVoice(c, p, begun')
  OBVIOUS
<1>4. v \in VoiceRecord /\ v.type = "on" /\ v.id = begun'
  BY <1>3, NoteOnVoices
<1>10. voices' \in Seq(VoiceRecord) /\ Len(voices') <= region.numVoices
  BY <1>3, NoteOnVoices
<1>11. \A i \in DOMAIN voices : i \in DOMAIN voices' /\ voices'[i] = voices[i]
  BY <1>3, NoteOnVoices
<1>13. \A i \in DOMAIN voices' \ DOMAIN voices : i = Len(voices) + 1 /\ voices'[i] = v
  BY <1>3, NoteOnVoices
<1>14. IdentitiesOK' /\ ReleasesOK'
  <2>1. \A i \in DOMAIN voices : voices[i].type = "on" => voices[i].id \in 1 .. begun
    BY DEF Inv, IdentitiesOK
  <2>2. \A i \in DOMAIN voices' : voices'[i].type = "on" => voices'[i].id \in 1 .. begun'
    <3>1. ASSUME NEW i \in DOMAIN voices', voices'[i].type = "on"
          PROVE  voices'[i].id \in 1 .. begun'
      <4>1. CASE i \in DOMAIN voices
        BY <3>1, <4>1, <2>1, <1>11, <1>1, <1>2
      <4>2. CASE i \notin DOMAIN voices
        BY <4>2, <1>13, <1>4, <1>1, <1>2
      <4> QED BY <4>1, <4>2
    <3> QED BY <3>1
  <2>3. ASSUME NEW i \in DOMAIN voices', NEW j \in DOMAIN voices', i # j,
               voices'[i].type = "on", voices'[j].type = "on", voices'[i].id = voices'[j].id
        PROVE  FALSE
    <3>1. CASE i \in DOMAIN voices /\ j \in DOMAIN voices
      BY <3>1, <2>3, <1>11 DEF Inv, IdentitiesOK
    <3>2. CASE i \notin DOMAIN voices /\ j \notin DOMAIN voices
      BY <3>2, <2>3, <1>13
    <3>3. CASE i \in DOMAIN voices /\ j \notin DOMAIN voices
      BY <3>3, <2>1, <2>3, <1>1, <1>2, <1>4, <1>11, <1>13
    <3>4. CASE i \notin DOMAIN voices /\ j \in DOMAIN voices
      BY <3>4, <2>1, <2>3, <1>1, <1>2, <1>4, <1>11, <1>13
    <3> QED BY <3>1, <3>2, <3>3, <3>4
  <2>4. ReleasesOK'
    BY <1>4, <1>11, <1>13 DEF Inv, ReleasesOK
  <2> QED BY <2>2, <2>3, <2>4 DEF IdentitiesOK
<1>15. pressed' \in [Scope -> [Pitch -> Nat]]
  <2>1. pressed' = [pressed EXCEPT ![Omni][p] = 1, ![c][p] = @ + 1]
    BY DEF NoteOn
  <2>2. c \in Scope /\ c # Omni /\ pressed \in [Scope -> [Pitch -> Nat]]
    BY <1>1, PedalAssumption DEF Scope, TypeOK
  <2>3. pressed[c][p] + 1 \in Nat /\ 1 \in Nat
    BY <2>2
  <2> QED BY <2>1, <2>2, <2>3
<1>16. notes' \subseteq EntryRecord
  <2>1. notes' = notes \cup {Entry(c, p, begun')}
    BY DEF NoteOn
  <2>2. Entry(c, p, begun') \in EntryRecord
    BY <1>1, <1>2 DEF Entry, EntryRecord
  <2> QED BY <1>1, <2>1, <2>2 DEF TypeOK
<1>17. TypeOK'
  <2>1. Len(voices') <= region'.numVoices
    BY <1>10, <1>2
  <2>2. begun' \in Nat
    BY <1>1, <1>2
  <2> QED BY <1>1, <1>2, <1>10, <1>15, <1>16, <2>1, <2>2 DEF TypeOK
<1>18. Heeded' /\ SostenutoQueueGuarded'
  BY <1>2 DEF Inv, Heeded, SostenutoQueueGuarded, ScopeOf
<1> QED BY <1>14, <1>17, <1>18 DEF Inv

LEMMA NoteOffInv ==
  ASSUME Inv, NEW c \in Channel, NEW p \in Pitch, NoteOff(c, p)
  PROVE  Inv'
<1>1. TypeOK /\ region \in Regions /\ notes \subseteq EntryRecord
      /\ sustained \in Seq(EntryRecord) /\ Len(sustained) <= QueueCapacity
      /\ sostenuted \in Seq(EntryRecord) /\ Len(sostenuted) <= QueueCapacity
  BY DEF Inv, TypeOK
<1>2. PICK id \in Nat : id = Ended(c, p)
  BY <1>1, EndedIsNumber
<1>3. UNCHANGED <<region, midi, begun, layer>>
  BY DEF NoteOff
<1>4. /\ voices' \in Seq(VoiceRecord) /\ Len(voices') <= region'.numVoices
      /\ IdentitiesOK' /\ ReleasesOK'
  BY <1>3, NoteOffVoices, ContinuesKeeps
<1>5. pressed' \in [Scope -> [Pitch -> Nat]]
  <2>1. pressed' = [pressed EXCEPT ![Omni][p] = 0, ![c][p] = IF @ > 0 THEN @ - 1 ELSE 0]
    BY DEF NoteOff
  <2>2. c \in Scope /\ c # Omni /\ pressed \in [Scope -> [Pitch -> Nat]]
    BY <1>1, PedalAssumption DEF Scope, TypeOK
  <2>3. (IF pressed[c][p] > 0 THEN pressed[c][p] - 1 ELSE 0) \in Nat /\ 0 \in Nat
    BY <2>2
  <2> QED BY <2>1, <2>2, <2>3
<1>6. Entry(c, p, id) \in EntryRecord /\ Entry(c, p, id).channel = c
  BY DEF Entry, EntryRecord
<1>7. sustained' \in Seq(EntryRecord) /\ Len(sustained') <= QueueCapacity
  <2>1. sustained' = sustained \/ sustained' = Delay(sustained, Entry(c, p, id))
    BY <1>2 DEF NoteOff
  <2>2. PICK e \in EntryRecord : e = Entry(c, p, id)
    BY <1>6
  <2>3. PICK cap \in Nat : cap = QueueCapacity
    BY PedalAssumption
  <2> QED BY <1>1, <2>1, <2>2, <2>3 DEF Delay
<1>8. \/ sostenuted' = sostenuted
      \/ \E i \in Matches(sostenuted, c, p) : sostenuted' = [sostenuted EXCEPT ![i] = Entry(c, p, id)]
  <2>1. sostenuted' = Identified(sostenuted, c, p, id)
    BY <1>2 DEF NoteOff
  <2> QED BY <1>1, <2>1, IdentifiedEntry
<1>9. /\ sostenuted' \in Seq(EntryRecord) /\ Len(sostenuted') <= QueueCapacity
      /\ SostenutoQueueGuarded'
  <2>1. CASE sostenuted' = sostenuted
    BY <2>1, <1>1, <1>3 DEF Inv, SostenutoQueueGuarded, ScopeOf
  <2>2. CASE \E i \in Matches(sostenuted, c, p) : sostenuted' = [sostenuted EXCEPT ![i] = Entry(c, p, id)]
    <3>1. PICK i \in Matches(sostenuted, c, p) : sostenuted' = [sostenuted EXCEPT ![i] = Entry(c, p, id)]
      BY <2>2
    <3>2. i \in DOMAIN sostenuted /\ ScopeOf(c) \in {Omni, sostenuted[i].channel}
      BY DEF Matches, InScope
    <3>3. PICK e \in EntryRecord : e = Entry(c, p, id) /\ e.channel = c
      BY <1>6
    <3>4. sostenuted' \in Seq(EntryRecord) /\ Len(sostenuted') = Len(sostenuted)
          /\ DOMAIN sostenuted' = DOMAIN sostenuted
          /\ \A j \in DOMAIN sostenuted : sostenuted'[j] = IF j = i THEN e ELSE sostenuted[j]
      BY <1>1, <3>1, <3>2, <3>3
    <3>5. ScopeOf(sostenuted[i].channel) = ScopeOf(c)
      <4>1. sostenuted[i].channel \in Channel
        <5>1. sostenuted[i] \in EntryRecord
          BY <1>1, <3>2
        <5> QED BY <5>1 DEF EntryRecord
      <4> QED BY <1>1, <3>2, <4>1, Scopes
    <3>6. \A j \in DOMAIN sostenuted :
            ScopeOf(sostenuted'[j].channel) = ScopeOf(sostenuted[j].channel)
      BY <3>3, <3>4, <3>5
    <3>7. ASSUME NEW j \in DOMAIN sostenuted'
          PROVE  (layer["release"][ScopeOf(sostenuted[j].channel)]["sostenuto"])'
      <4>1. layer["release"][ScopeOf(sostenuted[j].channel)]["sostenuto"]
        BY <3>4 DEF Inv, SostenutoQueueGuarded
      <4>2. ScopeOf(sostenuted[j].channel)' = ScopeOf(sostenuted'[j].channel)
        BY <1>3 DEF ScopeOf
      <4> QED BY <4>1, <4>2, <3>4, <3>6, <1>3
    <3> QED BY <1>1, <3>4, <3>7 DEF SostenutoQueueGuarded
  <2> QED BY <1>8, <2>1, <2>2
<1>10. notes' \subseteq EntryRecord /\ answered' \subseteq Nat
  <2>1. notes' \subseteq notes
    BY DEF NoteOff
  <2>2. answered' \subseteq answered \cup {id}
    BY <1>2 DEF NoteOff
  <2> QED BY <1>1, <1>2, <2>1, <2>2 DEF TypeOK
<1>11. TypeOK'
  BY <1>1, <1>3, <1>4, <1>5, <1>7, <1>9, <1>10 DEF TypeOK
<1>12. Heeded'
  BY <1>3 DEF Inv, Heeded
<1> QED BY <1>4, <1>9, <1>11, <1>12 DEF Inv

(* A pedal message sets the pedal of the MIDI state and the release layer. *)
LEMMA PedalState ==
  ASSUME Inv, NEW c \in Channel, NEW pedal \in Pedal, NEW down \in BOOLEAN,
         MidiPedal(c, pedal, down), LayerPedal(c, pedal, down), region' = region
  PROVE  /\ midi' \in [Pedal -> [Scope -> BOOLEAN]]
         /\ layer' \in [LayerName -> [Scope -> [Pedal -> BOOLEAN]]]
         /\ midi'[pedal][Omni] = down /\ \A q \in Pedal \ {pedal} : midi'[q] = midi[q]
         /\ \A s \in Scope :
              layer'["release"][s]["sostenuto"] =
                IF s = ScopeOf(c) /\ pedal = "sostenuto"
                THEN region.checkSostenuto /\ down
                ELSE layer["release"][s]["sostenuto"]
         /\ Heeded'
<1>1. /\ region \in Regions /\ midi \in [Pedal -> [Scope -> BOOLEAN]]
      /\ layer \in [LayerName -> [Scope -> [Pedal -> BOOLEAN]]]
  BY DEF Inv, TypeOK
<1>2. PICK b \in BOOLEAN : b = (Switch(pedal) /\ down)
  BY <1>1, RegionFields DEF Switch
<1>3. PICK s \in Scope : s = ScopeOf(c)
  BY <1>1, Scopes
<1>4. layer' = [layer EXCEPT !["release"][s][pedal] = b]
  BY <1>2, <1>3 DEF LayerPedal
<1>5. layer' \in [LayerName -> [Scope -> [Pedal -> BOOLEAN]]]
  BY <1>1, <1>4
<1>6. ASSUME NEW t \in Scope
      PROVE  layer'["release"][t]["sostenuto"] =
               IF t = s /\ pedal = "sostenuto" THEN b ELSE layer["release"][t]["sostenuto"]
  BY <1>1, <1>4 DEF LayerName, Pedal
<1>7. midi' = [midi EXCEPT ![pedal] = [midi[pedal] EXCEPT ![Omni] = down, ![c] = down]]
  BY DEF MidiPedal
<1>8. c \in Scope /\ Omni \in Scope
  BY DEF Scope
<1>9. PICK m : m = [midi[pedal] EXCEPT ![Omni] = down, ![c] = down]
  OBVIOUS
<1>10. m \in [Scope -> BOOLEAN] /\ m[Omni] = down
  BY <1>1, <1>8, <1>9
<1>11. midi' \in [Pedal -> [Scope -> BOOLEAN]] /\ midi'[pedal][Omni] = down
       /\ \A q \in Pedal \ {pedal} : midi'[q] = midi[q]
  BY <1>1, <1>7, <1>9, <1>10
<1>12. pedal = "sostenuto" => b = (region.checkSostenuto /\ down)
  BY <1>2 DEF Switch
<1>13. Heeded'
  BY <1>3, <1>6, <1>12 DEF Inv, Heeded
<1> QED BY <1>3, <1>5, <1>6, <1>11, <1>12, <1>13

LEMMA OthersStay ==
  ASSUME NEW q \in Seq(EntryRecord), NEW s
  PROVE  /\ Others(q, s) \in Seq(EntryRecord) /\ Len(Others(q, s)) <= Len(q)
         /\ \A i \in DOMAIN Others(q, s) :
              \E j \in DOMAIN q : Others(q, s)[i] = q[j] /\ ~InScope(q[j], s)
<1>1. PICK S \in SUBSET DOMAIN q : S = DOMAIN q \ At(q, s)
  OBVIOUS
<1>2. Others(q, s) = Kept(q, S)
  BY <1>1 DEF Others
<1>3. Kept(q, S) \in Seq(EntryRecord) /\ Len(Kept(q, S)) <= Len(q)
  BY KeptEntries
<1>4. \A i \in DOMAIN Kept(q, S) : Nth(S, i) \in S /\ Kept(q, S)[i] = q[Nth(S, i)]
  BY KeptEntries
<1>5. \A j \in S : j \in DOMAIN q /\ ~InScope(q[j], s)
  BY <1>1 DEF At
<1> QED BY <1>2, <1>3, <1>4, <1>5

LEMMA PedalInv ==
  ASSUME Inv, NEW c \in Channel, NEW pedal \in Pedal, NEW down \in BOOLEAN,
         Pressed(c, pedal, down)
  PROVE  Inv'
<1>1. TypeOK /\ region \in Regions
      /\ sustained \in Seq(EntryRecord) /\ Len(sustained) <= QueueCapacity
      /\ sostenuted \in Seq(EntryRecord) /\ Len(sostenuted) <= QueueCapacity
  BY DEF Inv, TypeOK
<1>2. /\ UNCHANGED <<region, pressed, notes, begun>>
      /\ MidiPedal(c, pedal, down) /\ LayerPedal(c, pedal, down)
  BY DEF Pressed, PressPedal, LiftSustain, LiftSostenuto
<1>3. /\ voices' \in Seq(VoiceRecord) /\ Len(voices') <= region'.numVoices
      /\ IdentitiesOK' /\ ReleasesOK'
  BY <1>2, PedalVoices, ContinuesKeeps
<1>4. /\ midi' \in [Pedal -> [Scope -> BOOLEAN]]
      /\ layer' \in [LayerName -> [Scope -> [Pedal -> BOOLEAN]]] /\ Heeded'
  BY <1>2, PedalState
<1>5. \A s \in Scope : layer'["release"][s]["sostenuto"] =
         IF s = ScopeOf(c) /\ pedal = "sostenuto"
         THEN region.checkSostenuto /\ down ELSE layer["release"][s]["sostenuto"]
  BY <1>2, PedalState
<1>6. \A i \in DOMAIN sostenuted :
        /\ ScopeOf(sostenuted[i].channel) \in Scope
        /\ layer["release"][ScopeOf(sostenuted[i].channel)]["sostenuto"]
        /\ region.checkSostenuto
  <2>1. ASSUME NEW i \in DOMAIN sostenuted PROVE ScopeOf(sostenuted[i].channel) \in Scope
    <3>1. sostenuted[i] \in EntryRecord
      BY <1>1
    <3>2. sostenuted[i].channel \in Channel
      BY <3>1 DEF EntryRecord
    <3> QED BY <1>1, <3>2, Scopes
  <2> QED BY <2>1 DEF Inv, SostenutoQueueGuarded, Heeded
<1>7. ASSUME NEW e, e.channel \in Channel PROVE ScopeOf(e.channel)' = ScopeOf(e.channel)
  BY <1>2 DEF ScopeOf
<1>8. answered' \subseteq Nat
  <2>1. ASSUME NEW es \in Seq(EntryRecord) PROVE IdsOf(es) \subseteq Nat
    <3>1. ASSUME NEW e \in EntryRecord PROVE e.id \in Nat
      BY DEF EntryRecord
    <3>2. \A i \in DOMAIN es : es[i] \in EntryRecord
      OBVIOUS
    <3> QED BY <3>1, <3>2 DEF IdsOf
  <2>2. \E es \in Seq(EntryRecord) : answered' \subseteq answered \cup IdsOf(es)
    <3>1. CASE PressPedal(c, pedal)
      <4>1. answered' = answered /\ <<>> \in Seq(EntryRecord)
        BY <3>1 DEF PressPedal
      <4> QED BY <4>1
    <3>2. CASE LiftSustain(c)
      <4>1. PICK vs, es : es = (IF region.checkSustain THEN Due(sustained, vs, ScopeOf(c)) ELSE <<>>)
                          /\ answered' = answered \cup IdsOf(es)
        BY <3>2 DEF LiftSustain
      <4>2. es \in Seq(EntryRecord)
        BY <4>1, <1>1, DueEntries
      <4> QED BY <4>1, <4>2
    <3>3. CASE LiftSostenuto(c)
      <4>1. PICK vs, b, es : es = (IF b THEN Due(sostenuted, vs, ScopeOf(c)) ELSE <<>>)
                             /\ answered' = answered \cup IdsOf(es)
        BY <3>3 DEF LiftSostenuto
      <4>2. es \in Seq(EntryRecord)
        BY <4>1, <1>1, DueEntries
      <4> QED BY <4>1, <4>2
    <3> QED BY <3>1, <3>2, <3>3 DEF Pressed
  <2> QED BY <1>1, <2>1, <2>2 DEF TypeOK
<1>9. /\ sustained' \in Seq(EntryRecord) /\ Len(sustained') <= QueueCapacity
      /\ sostenuted' \in Seq(EntryRecord) /\ Len(sostenuted') <= QueueCapacity
      /\ SostenutoQueueGuarded'
  <2>1. CASE PressPedal(c, pedal) /\ down
    <3>1. /\ sustained' = sustained
          /\ \/ sostenuted' = sostenuted
             \/ /\ pedal = "sostenuto" /\ region.checkSostenuto
                /\ sostenuted' = DelayAll(sostenuted, Stored(c))
      BY <2>1 DEF PressPedal
    <3>2. CASE sostenuted' = sostenuted
      BY <3>1, <3>2, <2>1, <1>1, <1>2, <1>5, <1>6 DEF SostenutoQueueGuarded, ScopeOf
    <3>3. CASE /\ pedal = "sostenuto" /\ region.checkSostenuto
               /\ sostenuted' = DelayAll(sostenuted, Stored(c))
      <4>1. Stored(c) \in Seq(EntryRecord)
            /\ \A i \in DOMAIN Stored(c) : Stored(c)[i].channel = c
        BY <1>1, StoredEntries DEF TypeOK
      <4>2. sostenuted' \in Seq(EntryRecord) /\ Len(sostenuted') <= QueueCapacity
        BY <4>1, <3>3, <1>1, DelayedEntries
      <4>3. \A i \in DOMAIN sostenuted : sostenuted'[i] = sostenuted[i]
        BY <4>1, <3>3, <1>1, DelayedEntries
      <4>4. \A i \in DOMAIN sostenuted' \ DOMAIN sostenuted : sostenuted'[i].channel = c
        BY <4>1, <3>3, <1>1, DelayedEntries
      <4>5. ASSUME NEW i \in DOMAIN sostenuted'
            PROVE  layer'["release"][ScopeOf(sostenuted'[i].channel)]["sostenuto"]
        <5>1. CASE i \in DOMAIN sostenuted
          BY <5>1, <4>3, <1>5, <1>6, <2>1
        <5>2. CASE i \notin DOMAIN sostenuted
          <6>1. ScopeOf(sostenuted'[i].channel) = ScopeOf(c) /\ ScopeOf(c) \in Scope
            BY <5>2, <4>4, <1>1, Scopes
          <6> QED BY <6>1, <1>5, <3>3, <2>1
        <5> QED BY <5>1, <5>2
      <4> QED BY <4>2, <4>5, <3>1, <1>1, <1>2 DEF SostenutoQueueGuarded, ScopeOf
    <3> QED BY <3>1, <3>2, <3>3
  <2>2. CASE ~down /\ pedal = "sustain" /\ LiftSustain(c)
    <3>1. /\ sostenuted' = sostenuted
          /\ sustained' = sustained \/ sustained' = Others(sustained, ScopeOf(c))
      BY <2>2 DEF LiftSustain
    <3>2. sustained' \in Seq(EntryRecord) /\ Len(sustained') <= QueueCapacity
      <4>1. QueueCapacity \in Nat
        BY PedalAssumption
      <4> QED BY <3>1, <4>1, <1>1, OthersStay
    <3> QED BY <3>1, <3>2, <2>2, <1>1, <1>2, <1>5, <1>6 DEF SostenutoQueueGuarded, ScopeOf
  <2>3. CASE ~down /\ pedal = "sostenuto" /\ LiftSostenuto(c)
    <3>1. /\ sustained' = sustained \/ sustained' = DelayAll(sustained, Of(sostenuted, ScopeOf(c)))
          /\ sostenuted' = IF region.checkSostenuto THEN Others(sostenuted, ScopeOf(c)) ELSE sostenuted
      BY <2>3 DEF LiftSostenuto
    <3>2. sustained' \in Seq(EntryRecord) /\ Len(sustained') <= QueueCapacity
      <4>1. Of(sostenuted, ScopeOf(c)) \in Seq(EntryRecord)
        BY <1>1, KeptOf
      <4> QED BY <3>1, <4>1, <1>1, DelayedEntries
    <3>3. /\ sostenuted' \in Seq(EntryRecord) /\ Len(sostenuted') <= QueueCapacity
          /\ \A i \in DOMAIN sostenuted' : \E j \in DOMAIN sostenuted :
               /\ sostenuted'[i] = sostenuted[j]
               /\ region.checkSostenuto => ~InScope(sostenuted[j], ScopeOf(c))
      <4>1. QueueCapacity \in Nat
        BY PedalAssumption
      <4>2. CASE region.checkSostenuto
        BY <3>1, <4>1, <4>2, <1>1, OthersStay
      <4>3. CASE ~region.checkSostenuto
        BY <3>1, <4>3, <1>1
      <4> QED BY <4>2, <4>3
    <3>4. ASSUME NEW i \in DOMAIN sostenuted'
          PROVE  layer'["release"][ScopeOf(sostenuted'[i].channel)]["sostenuto"]
      <4>1. PICK j \in DOMAIN sostenuted :
              /\ sostenuted'[i] = sostenuted[j]
              /\ region.checkSostenuto => ~InScope(sostenuted[j], ScopeOf(c))
        BY <3>3
      <4>2. sostenuted[j].channel \in Channel
        <5>1. sostenuted[j] \in EntryRecord
          BY <1>1
        <5> QED BY <5>1 DEF EntryRecord
      <4>3. ScopeOf(sostenuted[j].channel) # ScopeOf(c)
        BY <4>1, <4>2, <1>1, <1>6, Scopes DEF InScope
      <4> QED BY <4>1, <4>3, <1>5, <1>6
    <3> QED BY <3>2, <3>3, <3>4, <1>2 DEF SostenutoQueueGuarded, ScopeOf
  <2> QED BY <2>1, <2>2, <2>3 DEF Pressed
<1>10. TypeOK'
  BY <1>1, <1>2, <1>3, <1>4, <1>8, <1>9 DEF TypeOK
<1> QED BY <1>3, <1>4, <1>9, <1>10 DEF Inv

(* The guard leaves nothing for Reset All Controllers to keep.             *)
LEMMA ResetEmpties ==
  ASSUME Inv, ResetAllControllers
  PROVE  sostenuted' = <<>>
<1>1. PICK S : S = {i \in DOMAIN sostenuted :
                      ~layer["release"][ScopeOf(sostenuted[i].channel)]["sostenuto"]}
  OBVIOUS
<1>2. S = {}
  BY <1>1 DEF Inv, SostenutoQueueGuarded
<1>3. sostenuted' = Kept(sostenuted, S)
  BY <1>1 DEF ResetAllControllers
<1>4. Cardinality(S) = 0
  BY <1>2, FS_EmptySet
<1>5. sostenuted' = [n \in 1 .. 0 |-> sostenuted[Nth(S, n)]]
  BY <1>3, <1>4 DEF Kept
<1> QED BY <1>5

LEMMA ResetInv ==
  ASSUME Inv, ResetAllControllers
  PROVE  Inv'
<1>1. UNCHANGED <<region, pressed, notes, begun, sustained, answered>>
      /\ midi' = PedalsUp /\ layer' = LayersUp
  BY DEF ResetAllControllers
<1>2. /\ voices' \in Seq(VoiceRecord) /\ Len(voices') <= region'.numVoices
      /\ IdentitiesOK' /\ ReleasesOK'
  BY <1>1, ResetVoices, ContinuesKeeps
<1>3. midi' \in [Pedal -> [Scope -> BOOLEAN]]
      /\ layer' \in [LayerName -> [Scope -> [Pedal -> BOOLEAN]]]
  BY <1>1 DEF PedalsUp, LayersUp
<1>4. Heeded'
  BY <1>1 DEF Heeded, LayersUp, LayerName, Pedal
<1>5. sostenuted' \in Seq(EntryRecord) /\ Len(sostenuted') <= QueueCapacity
      /\ SostenutoQueueGuarded'
  <2>1. QueueCapacity \in Nat
    BY PedalAssumption
  <2> QED BY <2>1, ResetEmpties DEF SostenutoQueueGuarded
<1>6. TypeOK'
  BY <1>1, <1>2, <1>3, <1>5 DEF Inv, TypeOK
<1> QED BY <1>2, <1>4, <1>5, <1>6 DEF Inv

LEMMA SilenceInv ==
  ASSUME Inv, AllNotesOff \/ AllSoundOff
  PROVE  Inv'
<1>1. /\ UNCHANGED <<region, midi, begun, layer, sustained, sostenuted, answered>>
      /\ voices' = <<>> /\ notes' = {}
      /\ pressed' = pressed \/ pressed' = [s \in Scope |-> [p \in Pitch |-> 0]]
  BY DEF AllNotesOff, AllSoundOff
<1>2. region.numVoices \in Nat
  BY RegionFields DEF Inv, TypeOK
<1>3. voices' \in Seq(VoiceRecord) /\ Len(voices') <= region'.numVoices
  BY <1>1, <1>2
<1>4. pressed' \in [Scope -> [Pitch -> Nat]]
  BY <1>1, SMTT(40) DEF Inv, TypeOK
<1>5. TypeOK'
  BY <1>1, <1>3, <1>4 DEF Inv, TypeOK
<1>6. IdentitiesOK' /\ ReleasesOK' /\ Heeded' /\ SostenutoQueueGuarded'
  BY <1>1 DEF Inv, IdentitiesOK, ReleasesOK, Heeded, SostenutoQueueGuarded, ScopeOf
<1> QED BY <1>5, <1>6 DEF Inv

LEMMA EndedVoices ==
  ASSUME Inv, NEW i \in DOMAIN voices, EndVoice(i)
  PROVE  /\ voices' \in Seq(VoiceRecord) /\ Len(voices') = Len(voices) - 1
         /\ \A j \in DOMAIN voices' :
              /\ j \in DOMAIN voices /\ j + 1 \in DOMAIN voices
              /\ voices'[j] = IF j < i THEN voices[j] ELSE voices[j + 1]
<1>1. voices \in Seq(VoiceRecord)
  BY DEF Inv, TypeOK
<1>2. voices' = [j \in 1 .. Len(voices) - 1 |-> IF j < i THEN voices[j] ELSE voices[j + 1]]
  BY DEF EndVoice
<1>3. Len(voices) \in Nat /\ Len(voices) > 0 /\ DOMAIN voices = 1 .. Len(voices)
  BY <1>1
<1>4. PICK n \in Nat : n = Len(voices) - 1
  <2>1. Len(voices) - 1 \in Nat
    BY <1>3
  <2> QED BY <2>1
<1>5. \A j \in 1 .. n : /\ j \in DOMAIN voices /\ j + 1 \in DOMAIN voices
                        /\ (IF j < i THEN voices[j] ELSE voices[j + 1]) \in VoiceRecord
  BY <1>1, <1>3, <1>4
<1>6. voices' \in [1 .. n -> VoiceRecord]
  BY <1>2, <1>4, <1>5
<1>7. voices' \in Seq(VoiceRecord) /\ Len(voices') = n /\ DOMAIN voices' = 1 .. n
  BY <1>6
<1> QED BY <1>2, <1>4, <1>5, <1>7

LEMMA EndVoiceInv ==
  ASSUME Inv, NEW i \in DOMAIN voices, EndVoice(i)
  PROVE  Inv'
<1>1. UNCHANGED <<region, midi, pressed, notes, begun, layer, sustained, sostenuted, answered>>
  BY DEF EndVoice
<1>2. /\ voices' \in Seq(VoiceRecord) /\ Len(voices') = Len(voices) - 1
      /\ \A j \in DOMAIN voices' :
           /\ j \in DOMAIN voices /\ j + 1 \in DOMAIN voices
           /\ voices'[j] = IF j < i THEN voices[j] ELSE voices[j + 1]
  BY EndedVoices
<1>3. /\ voices \in Seq(VoiceRecord) /\ Len(voices) <= region.numVoices
      /\ region.numVoices \in Nat
  BY RegionFields DEF Inv, TypeOK
<1>4. Len(voices') <= region'.numVoices
  BY <1>1, <1>2, <1>3
<1>5. TypeOK'
  BY <1>1, <1>2, <1>4 DEF Inv, TypeOK
<1>6. i \in Nat /\ \A j \in DOMAIN voices' : j \in Nat
  BY <1>2, <1>3
<1>7. IdentitiesOK'
  <2>1. \A j \in DOMAIN voices' : voices'[j].type = "on" => voices'[j].id \in 1 .. begun'
    BY <1>1, <1>2 DEF Inv, IdentitiesOK
  <2>2. ASSUME NEW j \in DOMAIN voices', NEW k \in DOMAIN voices',
               voices'[j].type = "on", voices'[k].type = "on", voices'[j].id = voices'[k].id
        PROVE  j = k
    <3>1. PICK a \in DOMAIN voices : voices'[j] = voices[a] /\ a = IF j < i THEN j ELSE j + 1
      BY <1>2
    <3>2. PICK b \in DOMAIN voices : voices'[k] = voices[b] /\ b = IF k < i THEN k ELSE k + 1
      BY <1>2
    <3>3. a = b
      BY <2>2, <3>1, <3>2 DEF Inv, IdentitiesOK
    <3> QED BY <3>1, <3>2, <3>3, <1>6
  <2> QED BY <2>1, <2>2 DEF IdentitiesOK
<1>8. ReleasesOK'
  BY <1>2 DEF Inv, ReleasesOK
<1>9. Heeded' /\ SostenutoQueueGuarded'
  BY <1>1 DEF Inv, Heeded, SostenutoQueueGuarded, ScopeOf
<1> QED BY <1>5, <1>7, <1>8, <1>9 DEF Inv

(* The steps of the specification, both pedals alike.                      *)
LEMMA StepsOfNext ==
  ASSUME region \in Regions, Next
  PROVE  \/ \E c \in Channel, p \in Pitch : NoteOn(c, p) \/ NoteOff(c, p)
         \/ \E c \in Channel, pedal \in Pedal, down \in BOOLEAN : Pressed(c, pedal, down)
         \/ ResetAllControllers \/ AllNotesOff \/ AllSoundOff
         \/ \E i \in DOMAIN voices : EndVoice(i)
<1>1. region.sources \subseteq Channel
  BY RegionFields
<1>2. CASE \E c \in region.sources, p \in Pitch : NoteOn(c, p) \/ NoteOff(c, p)
  BY <1>1, <1>2
<1>3. CASE \E c \in region.sources, pedal \in Pedal : PressPedal(c, pedal)
  BY <1>1, <1>3 DEF Pressed
<1>4. CASE \E c \in region.sources : LiftSustain(c) \/ LiftSostenuto(c)
  BY <1>1, <1>4 DEF Pressed, Pedal
<1> QED BY <1>2, <1>3, <1>4 DEF Next

LEMMA NextInv ==
  ASSUME Inv, [Next]_vars
  PROVE  Inv'
<1>1. CASE Next
  <2>1. region \in Regions
    BY DEF Inv, TypeOK
  <2> QED BY <2>1, <1>1, StepsOfNext, NoteOnInv, NoteOffInv, PedalInv, ResetInv, SilenceInv,
             EndVoiceInv
<1>2. CASE UNCHANGED vars
  BY <1>2 DEF vars, Inv, TypeOK, IdentitiesOK, ReleasesOK, Heeded, SostenutoQueueGuarded, ScopeOf
<1> QED BY <1>1, <1>2

LEMMA InvHolds == Spec => []Inv
BY InitInv, NextInv, PTL DEF Spec

(* Types, the numbers of voices and the capacities of the queues.          *)
THEOREM PedalTypes == Spec => []TypeOK
<1>1. Inv => TypeOK
  BY DEF Inv
<1> QED BY InvHolds, <1>1, PTL

(* Releases wait for the sostenuto pedal only while it is pressed, whatever *)
(* the order of notes, pedals and resets: the assertion of                  *)
(* storeSostenutoNotes holds for every scope.                               *)
THEOREM SostenutoQueueIsGuarded == Spec => []SostenutoQueueGuarded
<1>1. Inv => SostenutoQueueGuarded
  BY DEF Inv
<1> QED BY InvHolds, <1>1, PTL

-----------------------------------------------------------------------------
(* Regions without a channel range: what their voices know of the pedals.  *)
(* The two switches of a region must be alike: Voice::registerCC guards    *)
(* each pedal by the switch of the other (Voice.cpp:771), and a region     *)
(* that heeds one pedal alone does let notes hang.  su and so: is the      *)
(* sustain, is the sostenuto pedal down.                                   *)

SwitchesAlike == \A r \in Regions : r.restricted \/ r.checkSustain = r.checkSostenuto

Sees(v, su, so) ==
  v.type = "on" =>
    /\ region.checkSustain => v.sustain = su
    /\ region.checkSostenuto /\ v.sostenuto = "sustaining" => so
    /\ v.noteIsOff /\ ~v.released /\ ~region.oneShot => Held(v)

PedalsSeen ==
  region.restricted \/
    \A i \in DOMAIN voices : Sees(voices[i], Down("sustain", Omni), Down("sostenuto", Omni))

LEMMA NoteOffSees ==
  ASSUME region \in Regions, NEW v \in VoiceRecord, NEW c, NEW p, NEW id,
         NEW su \in BOOLEAN, NEW so \in BOOLEAN, Sees(v, su, so),
         NEW u, u = VoiceNoteOff(v, c, p, id)
  PROVE  Sees(u, su, so) /\ (~v.released /\ u.released => ~Held(u))
<1>1. PICK h \in BOOLEAN : h = Held(v)
  BY DEF Held
<1>2. u = v \/ u = [v EXCEPT !.noteIsOff = TRUE, !.released = v.released \/ (~region.oneShot /\ ~h)]
  BY <1>1 DEF VoiceNoteOff
<1>3. CASE u = v
  BY <1>3
<1>4. CASE u = [v EXCEPT !.noteIsOff = TRUE, !.released = v.released \/ (~region.oneShot /\ ~h)]
  <2>1. /\ u.type = v.type /\ u.sustain = v.sustain /\ u.sostenuto = v.sostenuto
        /\ u.released = (v.released \/ (~region.oneShot /\ ~h))
    BY <1>4 DEF VoiceRecord
  <2>2. Held(u) = h
    BY <2>1, <1>1 DEF Held
  <2> QED BY <2>1, <2>2 DEF Sees
<1> QED BY <1>2, <1>3, <1>4

LEMMA CCSees ==
  ASSUME region \in Regions, region.checkSustain = region.checkSostenuto,
         NEW v \in VoiceRecord, NEW pedal \in Pedal, NEW down \in BOOLEAN,
         NEW su \in BOOLEAN, NEW so \in BOOLEAN, Sees(v, su, so),
         NEW u, u = VoiceCC(v, Omni, pedal, down)
  PROVE  /\ Sees(u, IF pedal = "sustain" THEN down ELSE su, IF pedal = "sostenuto" THEN down ELSE so)
         /\ ~v.released /\ u.released => ~Held(u)
<1>1. PICK w : w = PedalSeen(v, pedal, down)
  OBVIOUS
<1>2. /\ w \in VoiceRecord /\ w.type = v.type /\ w.noteIsOff = v.noteIsOff
      /\ w.released = v.released
  BY <1>1, PedalSeenKeeps
<1>3. PICK b \in BOOLEAN :
        b = ((v.released \/ (w.noteIsOff /\ ~region.oneShot /\ ~Held(w)))
               /\ ~(region.checkSustain /\ w.sustain /\ region.cancels /\ w.type = "on"))
  OBVIOUS
<1>4. u = [w EXCEPT !.released = b]
  BY <1>1, <1>3 DEF VoiceCC
<1>5. /\ u.type = v.type /\ u.noteIsOff = v.noteIsOff /\ u.released = b
      /\ u.sustain = w.sustain /\ u.sostenuto = w.sostenuto
  BY <1>2, <1>4 DEF VoiceRecord
<1>6. Held(u) = Held(w)
  BY <1>5 DEF Held
<1>7. region.checkSustain /\ w.sustain => Held(w)
  BY DEF Held
<1>8. u.noteIsOff /\ ~u.released /\ ~region.oneShot => Held(u)
  BY <1>2, <1>3, <1>5, <1>6, <1>7
<1>9. ~v.released /\ u.released => ~Held(u)
  BY <1>3, <1>5, <1>6
<1>10. ASSUME v.type = "on", region.checkSustain
       PROVE  w.sustain = IF pedal = "sustain" THEN down ELSE su
  BY <1>1, <1>10 DEF PedalSeen, Sees, Pedal, VoiceRecord
<1>11. ASSUME v.type = "on", region.checkSostenuto, w.sostenuto = "sustaining"
       PROVE  IF pedal = "sostenuto" THEN down ELSE so
  BY <1>1, <1>11 DEF PedalSeen, Sees, Pedal, VoiceRecord
<1> QED BY <1>5, <1>8, <1>9, <1>10, <1>11 DEF Sees

(* What a message shows the voices of such a region, as it ends: none is   *)
(* released that a pedal holds.                                            *)
SeenNext ==
  \A i \in DOMAIN voices :
    /\ Sees(voices'[i], midi'["sustain"][Omni], midi'["sostenuto"][Omni])
    /\ ~voices[i].released /\ voices'[i].released => ~Held(voices'[i])

OmniInv == Inv /\ PedalsSeen

LEMMA OmniFacts ==
  ASSUME OmniInv, SwitchesAlike, ~region.restricted
  PROVE  /\ region \in Regions /\ region.checkSustain = region.checkSostenuto
         /\ \A i \in DOMAIN voices :
              voices[i] \in VoiceRecord
              /\ Sees(voices[i], midi["sustain"][Omni], midi["sostenuto"][Omni])
         /\ midi["sustain"][Omni] \in BOOLEAN /\ midi["sostenuto"][Omni] \in BOOLEAN
<1>1. /\ region \in Regions /\ voices \in Seq(VoiceRecord)
      /\ midi \in [Pedal -> [Scope -> BOOLEAN]]
  BY DEF OmniInv, Inv, TypeOK
<1>2. midi["sustain"][Omni] \in BOOLEAN /\ midi["sostenuto"][Omni] \in BOOLEAN
  BY <1>1 DEF Pedal, Scope
<1>3. region.checkSustain = region.checkSostenuto
  BY <1>1 DEF SwitchesAlike
<1>4. \A i \in DOMAIN voices : Sees(voices[i], midi["sustain"][Omni], midi["sostenuto"][Omni])
  BY DEF OmniInv, PedalsSeen, Down
<1> QED BY <1>1, <1>2, <1>3, <1>4

LEMMA NoteOffSeen ==
  ASSUME OmniInv, SwitchesAlike, ~region.restricted,
         NEW c \in Channel, NEW p \in Pitch, NoteOff(c, p)
  PROVE  Continues(voices') /\ SeenNext
<1>1. PICK id \in Nat : \A i \in DOMAIN voices : voices'[i] = VoiceNoteOff(voices[i], c, p, id)
  BY NoteOffVoices DEF OmniInv
<1>2. midi' = midi
  BY DEF NoteOff
<1>3. Continues(voices')
  BY NoteOffVoices DEF OmniInv
<1>4. ASSUME NEW i \in DOMAIN voices
      PROVE  /\ Sees(voices'[i], midi["sustain"][Omni], midi["sostenuto"][Omni])
             /\ ~voices[i].released /\ voices'[i].released => ~Held(voices'[i])
  BY <1>1, OmniFacts, NoteOffSees
<1> QED BY <1>2, <1>3, <1>4 DEF SeenNext

LEMMA PedalIsSeen ==
  ASSUME OmniInv, SwitchesAlike, ~region.restricted,
         NEW c \in Channel, NEW pedal \in Pedal, NEW down \in BOOLEAN,
         Pressed(c, pedal, down)
  PROVE  Continues(voices') /\ SeenNext
<1>1. Continues(voices') /\ \A i \in DOMAIN voices :
        voices'[i] = VoiceCC(voices[i], Omni, pedal, down)
  BY PedalVoices DEF OmniInv, ScopeOf
<1>2. MidiPedal(c, pedal, down) /\ LayerPedal(c, pedal, down) /\ region' = region
  BY DEF Pressed, PressPedal, LiftSustain, LiftSostenuto
<1>3. midi'[pedal][Omni] = down /\ \A q \in Pedal \ {pedal} : midi'[q] = midi[q]
  BY <1>2, PedalState DEF OmniInv
<1>4. /\ midi'["sustain"][Omni] = IF pedal = "sustain" THEN down ELSE midi["sustain"][Omni]
      /\ midi'["sostenuto"][Omni] = IF pedal = "sostenuto" THEN down ELSE midi["sostenuto"][Omni]
  BY <1>3 DEF Pedal
<1>5. ASSUME NEW i \in DOMAIN voices
      PROVE  /\ Sees(voices'[i], midi'["sustain"][Omni], midi'["sostenuto"][Omni])
             /\ ~voices[i].released /\ voices'[i].released => ~Held(voices'[i])
  BY <1>1, <1>4, OmniFacts, CCSees
<1> QED BY <1>1, <1>5 DEF SeenNext

LEMMA ResetIsSeen ==
  ASSUME OmniInv, SwitchesAlike, ~region.restricted, ResetAllControllers
  PROVE  Continues(voices') /\ SeenNext
<1>1. Continues(voices') /\ \A i \in DOMAIN voices : voices'[i] = Lifted(voices[i])
  BY ResetVoices DEF OmniInv
<1>2. midi'["sustain"][Omni] = FALSE /\ midi'["sostenuto"][Omni] = FALSE
  BY DEF ResetAllControllers, PedalsUp, Pedal, Scope
<1>3. ASSUME NEW i \in DOMAIN voices
      PROVE  /\ Sees(voices'[i], FALSE, FALSE)
             /\ ~voices[i].released /\ voices'[i].released => ~Held(voices'[i])
  <2>1. PICK u : u = VoiceCC(voices[i], Omni, "sustain", FALSE)
    OBVIOUS
  <2>2. voices[i].type = "off" => Untouched(voices[i])
    BY DEF OmniInv, Inv, ReleasesOK
  <2>3. u \in VoiceRecord
    BY <2>1, <2>2, OmniFacts, CCKeeps DEF Pedal
  <2>4. /\ Sees(u, FALSE, midi["sostenuto"][Omni])
        /\ ~voices[i].released /\ u.released => ~Held(u)
    BY <2>1, OmniFacts, CCSees, ZenonT(60) DEF Pedal
  <2>5. voices'[i] = VoiceCC(u, Omni, "sostenuto", FALSE)
    BY <1>1, <2>1 DEF Lifted
  <2>6. Sees(voices'[i], FALSE, FALSE) /\ (~u.released /\ voices'[i].released => ~Held(voices'[i]))
    BY <2>3, <2>4, <2>5, OmniFacts, CCSees DEF Pedal
  <2>7. ~voices[i].released /\ u.released /\ voices'[i].released => ~Held(voices'[i])
    <3>1. ASSUME ~Held(u), Held(voices'[i]) PROVE FALSE
      <4>1. PICK w : w = PedalSeen(u, "sostenuto", FALSE)
        OBVIOUS
      <4>2. w.sustain = u.sustain /\ w.sostenuto \in {u.sostenuto, "up"} /\ w \in VoiceRecord
        BY <2>3, <4>1, OmniFacts DEF PedalSeen, VoiceRecord
      <4>3. voices'[i].sustain = w.sustain /\ voices'[i].sostenuto = w.sostenuto
        BY <2>5, <4>1, <4>2 DEF VoiceCC, VoiceRecord
      <4> QED BY <3>1, <4>2, <4>3 DEF Held
    <3> QED BY <2>4, <3>1
  <2> QED BY <2>6, <2>7
<1> QED BY <1>1, <1>2, <1>3 DEF SeenNext

LEMMA SeenKept ==
  ASSUME OmniInv, region' = region, Continues(voices'), SeenNext
  PROVE  PedalsSeen'
<1>1. ASSUME NEW i \in DOMAIN voices'
      PROVE  Sees(voices[i], midi["sustain"][Omni], midi["sostenuto"][Omni])'
  <2>1. Sees(voices'[i], midi'["sustain"][Omni], midi'["sostenuto"][Omni])
    BY DEF SeenNext, Continues, Untouched, Sees
  <2> QED BY <2>1 DEF Sees, Held
<1> QED BY <1>1 DEF PedalsSeen, Down

LEMMA NoteOnSeen ==
  ASSUME OmniInv, SwitchesAlike, ~region.restricted,
         NEW c \in Channel, NEW p \in Pitch, NoteOn(c, p)
  PROVE  /\ PedalsSeen' /\ \A i \in DOMAIN voices : voices'[i] = voices[i]
<1>1. PICK v : v = AttackVoice(c, p, begun')
  OBVIOUS
<1>2. /\ \A i \in DOMAIN voices : i \in DOMAIN voices' /\ voices'[i] = voices[i]
      /\ \A i \in DOMAIN voices' \ DOMAIN voices : voices'[i] = v
      /\ v.type = "on" /\ ~v.noteIsOff /\ v \in VoiceRecord
  BY <1>1, NoteOnVoices DEF OmniInv
<1>3. UNCHANGED <<region, midi>>
  BY DEF NoteOn
<1>4. Sees(v, midi["sustain"][Omni], midi["sostenuto"][Omni])
  <2>1. region.checkSustain => v.sustain = midi["sustain"][Omni]
    BY <1>1, OmniFacts, RegionFields DEF AttackVoice, Down
  <2>2. v.sostenuto # "sustaining"
    BY <1>1 DEF AttackVoice
  <2> QED BY <1>2, <2>1, <2>2 DEF Sees
<1>5. ASSUME NEW i \in DOMAIN voices'
      PROVE  Sees(voices[i], midi["sustain"][Omni], midi["sostenuto"][Omni])'
  <2>1. Sees(voices'[i], midi["sustain"][Omni], midi["sostenuto"][Omni])
    BY <1>2, <1>4, OmniFacts
  <2> QED BY <2>1, <1>3 DEF Sees, Held
<1> QED BY <1>2, <1>5 DEF PedalsSeen, Down

LEMMA EndVoiceSeen ==
  ASSUME OmniInv, SwitchesAlike, ~region.restricted,
         NEW i \in DOMAIN voices, EndVoice(i)
  PROVE  PedalsSeen'
<1>1. UNCHANGED <<region, midi>>
  BY DEF EndVoice
<1>2. ASSUME NEW j \in DOMAIN voices'
      PROVE  Sees(voices[j], midi["sustain"][Omni], midi["sostenuto"][Omni])'
  <2>1. \E k \in DOMAIN voices : voices'[j] = voices[k]
    BY EndedVoices DEF OmniInv
  <2>2. Sees(voices'[j], midi["sustain"][Omni], midi["sostenuto"][Omni])
    BY <2>1, OmniFacts
  <2> QED BY <2>2, <1>1 DEF Sees, Held
<1> QED BY <1>2 DEF PedalsSeen, Down

(* What a step does to a region without a channel range: the voices play   *)
(* on and see it, or nothing is released.                                  *)
LEMMA OmniNext ==
  ASSUME OmniInv, SwitchesAlike, ~region.restricted, Next
  PROVE  /\ PedalsSeen'
         /\ \/ Continues(voices') /\ SeenNext
            \/ \A i \in DOMAIN voices \cap DOMAIN voices' :
                 \E j \in DOMAIN voices : voices'[i] = voices[j]
<1>1. region' = region /\ region \in Regions
  BY ZenonT(60) DEF Next, NoteOn, NoteOff, PressPedal, LiftSustain, LiftSostenuto, ResetAllControllers,
         AllNotesOff, AllSoundOff, EndVoice, OmniInv, Inv, TypeOK
<1>2. CASE \E c \in Channel, p \in Pitch : NoteOn(c, p)
  BY <1>2, NoteOnSeen
<1>3. CASE \E c \in Channel, p \in Pitch : NoteOff(c, p)
  <2>1. Continues(voices') /\ SeenNext
    BY <1>3, NoteOffSeen
  <2> QED BY <1>1, <2>1, SeenKept
<1>4. CASE \E c \in Channel, pedal \in Pedal, down \in BOOLEAN : Pressed(c, pedal, down)
  <2>1. Continues(voices') /\ SeenNext
    BY <1>4, PedalIsSeen
  <2> QED BY <1>1, <2>1, SeenKept
<1>5. CASE ResetAllControllers
  <2>1. Continues(voices') /\ SeenNext
    BY <1>5, ResetIsSeen
  <2> QED BY <1>1, <2>1, SeenKept
<1>6. CASE AllNotesOff \/ AllSoundOff
  <2>1. voices' = <<>>
    BY <1>6 DEF AllNotesOff, AllSoundOff
  <2> QED BY <2>1 DEF PedalsSeen
<1>7. CASE \E i \in DOMAIN voices : EndVoice(i)
  <2>1. PICK i \in DOMAIN voices : EndVoice(i)
    BY <1>7
  <2>2. \A j \in DOMAIN voices' : \E k \in DOMAIN voices : voices'[j] = voices[k]
    BY <2>1, EndedVoices DEF OmniInv
  <2> QED BY <2>1, <2>2, EndVoiceSeen
<1> QED BY <1>1, <1>2, <1>3, <1>4, <1>5, <1>6, <1>7, StepsOfNext, SMTT(40)

LEMMA OmniInvHolds ==
  ASSUME SwitchesAlike
  PROVE  Spec => []OmniInv
<1>1. Init => OmniInv
  <2>1. Init => PedalsSeen
    BY DEF Init, PedalsSeen
  <2> QED BY <2>1, InitInv DEF OmniInv
<1>2. OmniInv /\ [Next]_vars => OmniInv'
  <2> SUFFICES ASSUME OmniInv, [Next]_vars PROVE OmniInv'
    OBVIOUS
  <2>1. Inv'
    BY NextInv DEF OmniInv
  <2>2. CASE Next /\ ~region.restricted
    BY <2>1, <2>2, OmniNext DEF OmniInv
  <2>3. CASE Next /\ region.restricted
    <3>1. region' = region
      BY <2>3, ZenonT(60) DEF Next, NoteOn, NoteOff, PressPedal, LiftSustain, LiftSostenuto,
                  ResetAllControllers, AllNotesOff, AllSoundOff, EndVoice
    <3> QED BY <2>1, <2>3, <3>1, SMTT(40) DEF OmniInv, PedalsSeen
  <2>4. CASE UNCHANGED vars
    BY <2>1, <2>4 DEF vars, OmniInv, PedalsSeen, Sees, Held, Down
  <2> QED BY <2>2, <2>3, <2>4
<1> QED BY <1>1, <1>2, PTL DEF Spec

(* No order of notes, pedals, resets and endings leaves a note of a region *)
(* without a channel range hanging, if its pedal switches are alike.       *)
THEOREM NoNoteHangs ==
  ASSUME SwitchesAlike
  PROVE  Spec => []HeldByPedal
<1>1. OmniInv => HeldByPedal
  <2> SUFFICES ASSUME OmniInv, ~region.restricted, NEW i \in DOMAIN voices,
                      voices[i].type = "on", voices[i].noteIsOff, ~voices[i].released,
                      ~region.oneShot
               PROVE  \E pedal \in Pedal : Switch(pedal) /\ Down(pedal, Omni)
    BY DEF HeldByPedal
  <2>1. Held(voices[i]) /\ Sees(voices[i], Down("sustain", Omni), Down("sostenuto", Omni))
    BY DEF OmniInv, PedalsSeen, Sees
  <2>2. CASE region.checkSustain /\ voices[i].sustain
    <3>1. Switch("sustain") /\ Down("sustain", Omni)
      BY <2>1, <2>2 DEF Sees, Switch
    <3> QED BY <3>1 DEF Pedal
  <2>3. CASE region.checkSostenuto /\ voices[i].sostenuto = "sustaining"
    <3>1. Switch("sostenuto") /\ Down("sostenuto", Omni)
      BY <2>1, <2>3 DEF Sees, Switch
    <3> QED BY <3>1 DEF Pedal
  <2> QED BY <2>1, <2>2, <2>3 DEF Held
<1> QED BY <1>1, OmniInvHolds, PTL

(* The sustain pedal of such a region holds every note while it is down.   *)
THEOREM PedalHoldsAll ==
  ASSUME SwitchesAlike
  PROVE  Spec => SustainHoldsOmni
<1>1. ASSUME OmniInv, [Next]_vars, NEW i \in DOMAIN voices \cap DOMAIN voices', LetGo(i),
             ~region.restricted
      PROVE  ~Down("sustain", Omni)'
  <2>1. /\ region.checkSustain /\ voices[i].type = "on" /\ voices[i].id = voices'[i].id
        /\ ~voices[i].released /\ voices'[i].released
    BY <1>1 DEF LetGo, Switch
  <2>2. Next
    BY <1>1, <2>1 DEF vars
  <2>3. CASE Continues(voices') /\ SeenNext
    <3>1. voices'[i].type = "on" /\ ~Held(voices'[i])
          /\ Sees(voices'[i], midi'["sustain"][Omni], midi'["sostenuto"][Omni])
      BY <2>1, <2>3 DEF Continues, Same, SeenNext
    <3> QED BY <2>1, <3>1 DEF Sees, Held, Down
  <2>4. CASE \A k \in DOMAIN voices \cap DOMAIN voices' :
               \E j \in DOMAIN voices : voices'[k] = voices[j]
    <3>1. PICK j \in DOMAIN voices : voices'[i] = voices[j]
      BY <2>4
    <3>2. voices[j].type = "on"
      <4>1. voices[j] \in VoiceRecord
        <5>1. voices \in Seq(VoiceRecord)
          BY <1>1 DEF OmniInv, Inv, TypeOK
        <5> QED BY <5>1
      <4>2. voices[j].released
        BY <2>1, <3>1
      <4>3. voices[j].type = "off" => ~voices[j].released
        BY <1>1 DEF OmniInv, Inv, ReleasesOK, Untouched
      <4> QED BY <4>1, <4>2, <4>3 DEF VoiceRecord
    <3>3. i = j
      <4>1. i \in DOMAIN voices /\ voices[i].id = voices[j].id
        BY <2>1, <3>1
      <4>2. IdentitiesOK
        BY <1>1 DEF OmniInv, Inv
      <4> QED BY <2>1, <3>2, <4>1, <4>2 DEF IdentitiesOK
    <3> QED BY <2>1, <3>1, <3>3
  <2> QED BY <1>1, <2>2, <2>3, <2>4, OmniNext
<1>2. OmniInv /\ [Next]_vars =>
        [\A i \in DOMAIN voices \cap DOMAIN voices' :
           LetGo(i) => region.restricted \/ ~Down("sustain", Omni)']_vars
  BY <1>1
<1> QED BY <1>2, OmniInvHolds, PTL DEF Spec, SustainHoldsOmni

-----------------------------------------------------------------------------
(* The release of a note is in one place.                                  *)

Unique(q) ==
  \A i, j \in DOMAIN q : q[i].id = q[j].id /\ q[i].id # NoId => i = j
NoteIds == {n.id : n \in notes}
Queued == IdsOf(sustained) \cup IdsOf(sostenuted)

Once ==
  /\ Unique(sustained) /\ Unique(sostenuted)
  /\ IdsOf(sustained) \cap IdsOf(sostenuted) = {}
  /\ answered \cap Queued = {} /\ NoteIds \cap (answered \cup Queued) = {}
  /\ \A m, n \in notes : m.id = n.id => m = n
  /\ NoteIds \cup answered \cup Queued \subseteq 1 .. begun

OnceInv == Inv /\ Once

LEMMA KeptIds ==
  ASSUME NEW q \in Seq(EntryRecord), Unique(q),
         NEW S \in SUBSET DOMAIN q, NEW T \in SUBSET DOMAIN q, S \cap T = {}
  PROVE  /\ Unique(Kept(q, S)) /\ IdsOf(Kept(q, S)) \subseteq IdsOf(q)
         /\ IdsOf(Kept(q, S)) \cap IdsOf(Kept(q, T)) = {}
<1>1. ASSUME NEW R \in SUBSET DOMAIN q
      PROVE  /\ \A n \in DOMAIN Kept(q, R) : Nth(R, n) \in R /\ Kept(q, R)[n] = q[Nth(R, n)]
             /\ \A m, n \in DOMAIN Kept(q, R) : Nth(R, m) = Nth(R, n) => m = n
  <2>1. \A n \in DOMAIN Kept(q, R) : Nth(R, n) \in R /\ Kept(q, R)[n] = q[Nth(R, n)]
    BY KeptEntries
  <2>2. \A m, n \in DOMAIN Kept(q, R) : Nth(R, m) = Nth(R, n) => m = n
    BY KeptEntries
  <2> QED BY <2>1, <2>2
<1>2. Unique(Kept(q, S))
  <2>1. ASSUME NEW m \in DOMAIN Kept(q, S), NEW n \in DOMAIN Kept(q, S),
               Kept(q, S)[m].id = Kept(q, S)[n].id, Kept(q, S)[m].id # NoId
        PROVE  m = n
    <3>1. /\ Nth(S, m) \in DOMAIN q /\ Kept(q, S)[m] = q[Nth(S, m)]
          /\ Nth(S, n) \in DOMAIN q /\ Kept(q, S)[n] = q[Nth(S, n)]
      BY <1>1
    <3>2. Nth(S, m) = Nth(S, n)
      BY <2>1, <3>1 DEF Unique
    <3> QED BY <1>1, <3>2
  <2> QED BY <2>1 DEF Unique
<1>3. IdsOf(Kept(q, S)) \subseteq IdsOf(q)
  BY <1>1 DEF IdsOf
<1>4. ASSUME NEW x \in IdsOf(Kept(q, S)) \cap IdsOf(Kept(q, T)) PROVE FALSE
  <2>1. PICK m \in DOMAIN Kept(q, S) : x = Kept(q, S)[m].id /\ x # NoId
    BY DEF IdsOf
  <2>2. PICK n \in DOMAIN Kept(q, T) : x = Kept(q, T)[n].id
    BY DEF IdsOf
  <2>3. Nth(S, m) \in S /\ Nth(T, n) \in T /\ q[Nth(S, m)].id = x /\ q[Nth(T, n)].id = x
    BY <1>1, <2>1, <2>2
  <2>4. Nth(S, m) = Nth(T, n)
    BY <2>1, <2>3 DEF Unique
  <2> QED BY <2>3, <2>4
<1> QED BY <1>2, <1>3, <1>4

LEMMA SplitIds ==
  ASSUME NEW q \in Seq(EntryRecord), Unique(q), NEW s
  PROVE  /\ Unique(Of(q, s)) /\ IdsOf(Of(q, s)) \subseteq IdsOf(q)
         /\ Unique(Others(q, s)) /\ IdsOf(Others(q, s)) \subseteq IdsOf(q)
         /\ IdsOf(Of(q, s)) \cap IdsOf(Others(q, s)) = {}
<1>1. PICK S \in SUBSET DOMAIN q : S = At(q, s)
  BY DEF At
<1>2. PICK T \in SUBSET DOMAIN q : T = DOMAIN q \ S
  OBVIOUS
<1>3. S \cap T = {} /\ T \cap S = {}
  BY <1>2
<1>4. Of(q, s) = Kept(q, S) /\ Others(q, s) = Kept(q, T)
  BY <1>1, <1>2 DEF Of, Others
<1>5. /\ Unique(Kept(q, S)) /\ IdsOf(Kept(q, S)) \subseteq IdsOf(q)
      /\ IdsOf(Kept(q, S)) \cap IdsOf(Kept(q, T)) = {}
  BY <1>3, KeptIds
<1>6. Unique(Kept(q, T)) /\ IdsOf(Kept(q, T)) \subseteq IdsOf(q)
  BY <1>3, KeptIds
<1> QED BY <1>4, <1>5, <1>6

LEMMA DelayedIds ==
  ASSUME NEW q \in Seq(EntryRecord), Len(q) <= QueueCapacity, Unique(q),
         NEW es \in Seq(EntryRecord), Unique(es), IdsOf(q) \cap IdsOf(es) = {},
         NEW r, r = DelayAll(q, es)
  PROVE  Unique(r) /\ IdsOf(r) \subseteq IdsOf(q) \cup IdsOf(es)
<1>1. r \in Seq(EntryRecord)
  BY DelayedEntries
<1>2. \A i \in DOMAIN q : i \in DOMAIN r /\ r[i] = q[i]
  BY DelayedEntries
<1>3. \A i \in DOMAIN r \ DOMAIN q : i - Len(q) \in DOMAIN es /\ r[i] = es[i - Len(q)]
  BY DelayedEntries
<1>4. ASSUME NEW i \in DOMAIN r
      PROVE  r[i].id # NoId => r[i].id \in IF i \in DOMAIN q THEN IdsOf(q) ELSE IdsOf(es)
  BY <1>2, <1>3 DEF IdsOf
<1>5. ASSUME NEW i \in DOMAIN r, NEW j \in DOMAIN r, r[i].id = r[j].id, r[i].id # NoId
      PROVE  i = j
  <2>1. i \in Int /\ j \in Int /\ Len(q) \in Int
    BY <1>1
  <2>2. CASE i \in DOMAIN q /\ j \in DOMAIN q
    BY <2>2, <1>2, <1>5 DEF Unique
  <2>3. CASE i \notin DOMAIN q /\ j \notin DOMAIN q
    <3>1. i - Len(q) = j - Len(q)
      BY <2>3, <1>3, <1>5 DEF Unique
    <3> QED BY <3>1, <2>1
  <2>4. CASE (i \in DOMAIN q) # (j \in DOMAIN q)
    BY <2>4, <1>4, <1>5
  <2> QED BY <2>2, <2>3, <2>4
<1>6. Unique(r)
  BY <1>5 DEF Unique
<1>7. ASSUME NEW x \in IdsOf(r) PROVE x \in IdsOf(q) \cup IdsOf(es)
  <2>1. PICK i \in DOMAIN r : x = r[i].id /\ x # NoId
    BY DEF IdsOf
  <2> QED BY <2>1, <1>4
<1> QED BY <1>6, <1>7

LEMMA OneMoreId ==
  ASSUME NEW q \in Seq(EntryRecord), Unique(q), NEW e \in EntryRecord, e.id \notin IdsOf(q)
  PROVE  /\ Unique(Append(q, e)) /\ IdsOf(Append(q, e)) \subseteq IdsOf(q) \cup ({e.id} \ {NoId})
         /\ \A i \in DOMAIN q : q[i].id = NoId =>
              /\ Unique([q EXCEPT ![i] = e])
              /\ IdsOf([q EXCEPT ![i] = e]) \subseteq IdsOf(q) \cup ({e.id} \ {NoId})
<1>1. \A i \in DOMAIN q : q[i].id # NoId => q[i].id \in IdsOf(q)
  BY DEF IdsOf
<1>2. PICK r : r = Append(q, e)
  OBVIOUS
<1>3. r \in Seq(EntryRecord) /\ DOMAIN r = DOMAIN q \cup {Len(q) + 1} /\ Len(q) + 1 \notin DOMAIN q
      /\ r[Len(q) + 1] = e /\ \A i \in DOMAIN q : r[i] = q[i]
  BY <1>2
<1>4. Unique(r)
  BY <1>1, <1>3 DEF Unique
<1>5. IdsOf(r) \subseteq IdsOf(q) \cup ({e.id} \ {NoId})
  BY <1>3 DEF IdsOf
<1>6. ASSUME NEW i \in DOMAIN q, q[i].id = NoId, NEW t, t = [q EXCEPT ![i] = e]
      PROVE  Unique(t) /\ IdsOf(t) \subseteq IdsOf(q) \cup ({e.id} \ {NoId})
  <2>1. DOMAIN t = DOMAIN q /\ \A j \in DOMAIN q : t[j] = IF j = i THEN e ELSE q[j]
    BY <1>6
  <2>2. Unique(t)
    BY <1>1, <2>1 DEF Unique
  <2> QED BY <2>1, <2>2 DEF IdsOf
<1> QED BY <1>2, <1>4, <1>5, <1>6

LEMMA NoIds ==
  /\ IdsOf(<<>>) = {} /\ Unique(<<>>)
  /\ \A es : (\A i \in DOMAIN es : es[i].id = NoId) => IdsOf(es) = {} /\ Unique(es)
BY DEF IdsOf, Unique

LEMMA OnceTypes ==
  ASSUME OnceInv
  PROVE  /\ region \in Regions /\ begun \in Nat /\ notes \subseteq EntryRecord
         /\ sustained \in Seq(EntryRecord) /\ Len(sustained) <= QueueCapacity
         /\ sostenuted \in Seq(EntryRecord) /\ Len(sostenuted) <= QueueCapacity
BY DEF OnceInv, Inv, TypeOK

LEMMA NoteOnOnce ==
  ASSUME OnceInv, NEW c \in Channel, NEW p \in Pitch, NoteOn(c, p)
  PROVE  Once'
<1>1. /\ begun' = begun + 1 /\ UNCHANGED <<sustained, sostenuted, answered>>
      /\ notes' = notes \cup {Entry(c, p, begun')}
  BY DEF NoteOn
<1>2. begun \in Nat /\ begun' \notin 1 .. begun /\ begun' \in 1 .. begun' /\ 1 .. begun \subseteq 1 .. begun'
  BY <1>1, OnceTypes
<1>3. NoteIds' = NoteIds \cup {begun'}
  <2>1. Entry(c, p, begun').id = begun'
    BY DEF Entry
  <2>2. NoteIds' = {n.id : n \in notes \cup {Entry(c, p, begun')}}
    BY <1>1 DEF NoteIds
  <2> QED BY <2>1, <2>2 DEF NoteIds
<1>4. begun' \notin NoteIds \cup answered \cup Queued
  BY <1>2 DEF OnceInv, Once
<1>5. \A m, n \in notes' : m.id = n.id => m = n
  BY <1>1, <1>4 DEF OnceInv, Once, NoteIds, Entry
<1>6. Queued' = Queued
  BY <1>1 DEF Queued, IdsOf
<1>7. Unique(sustained)' /\ Unique(sostenuted)' /\ (IdsOf(sustained) \cap IdsOf(sostenuted) = {})'
  BY <1>1 DEF OnceInv, Once, Unique, IdsOf
<1> QED BY <1>1, <1>2, <1>3, <1>4, <1>5, <1>6, <1>7 DEF OnceInv, Once

(* The note ends: its release is delayed by one pedal, or started.         *)
LEMMA NoteOffPlaces ==
  ASSUME OnceInv, NEW c \in Channel, NEW p \in Pitch, NoteOff(c, p),
         NEW id \in Nat, id = Ended(c, p)
  PROVE  /\ sustained' = sustained \/ sustained' = Append(sustained, Entry(c, p, id))
         /\ \/ sostenuted' = sostenuted
            \/ \E i \in DOMAIN sostenuted :
                 /\ id # NoId /\ sostenuted[i].id = NoId /\ answered' = answered /\ sustained' = sustained
                 /\ sostenuted' = [sostenuted EXCEPT ![i] = Entry(c, p, id)]
         /\ answered' = answered \/ answered' = answered \cup ({id} \ {NoId})
         /\ answered' = answered \/ sustained' = sustained
<1> DEFINE l == layer["release"][ScopeOf(c)]
           captured == l["sostenuto"] /\ Matches(sostenuted, c, p) # {}
<1>1. /\ sustained' = IF ~captured /\ l["sustain"] THEN Delay(sustained, Entry(c, p, id)) ELSE sustained
      /\ sostenuted' = Identified(sostenuted, c, p, id)
      /\ \E plays \in BOOLEAN :
           /\ plays => ~captured /\ ~l["sustain"]
           /\ answered' = IF plays THEN answered \cup ({id} \ {NoId}) ELSE answered
  <2>1. PICK plays \in BOOLEAN :
          /\ plays => ~captured /\ ~l["sustain"]
          /\ answered' = IF plays THEN answered \cup ({id} \ {NoId}) ELSE answered
    <3>1. PICK plays : /\ plays \in BOOLEAN
            /\ plays = (~captured /\ ~l["sustain"] /\ (region.rtDead \/ AttackPlaying(
                 [i \in DOMAIN voices |-> VoiceNoteOff(voices[i], c, p, id)], ScopeOf(c))))
      OBVIOUS
    <3>2. answered' = IF plays THEN answered \cup ({id} \ {NoId}) ELSE answered
      BY <3>1 DEF NoteOff
    <3> QED BY <3>1, <3>2
  <2> QED BY <2>1 DEF NoteOff
<1>2. \/ Identified(sostenuted, c, p, id) = sostenuted
      \/ \E i \in Matches(sostenuted, c, p) :
           /\ id # NoId /\ sostenuted[i].id = NoId
           /\ Identified(sostenuted, c, p, id) = [sostenuted EXCEPT ![i] = Entry(c, p, id)]
  BY OnceTypes, IdentifiedEntry
<1>3. ASSUME NEW i \in Matches(sostenuted, c, p) PROVE captured /\ i \in DOMAIN sostenuted
  <2>1. i \in DOMAIN sostenuted /\ ScopeOf(c) \in {Omni, sostenuted[i].channel}
    BY DEF Matches, InScope
  <2>2. sostenuted[i].channel \in Channel
    <3>1. sostenuted[i] \in EntryRecord
      BY <2>1, OnceTypes
    <3> QED BY <3>1 DEF EntryRecord
  <2>3. ScopeOf(sostenuted[i].channel) = ScopeOf(c)
    BY <2>1, <2>2, OnceTypes, Scopes
  <2>4. l["sostenuto"]
    BY <2>1, <2>3 DEF OnceInv, Inv, SostenutoQueueGuarded
  <2> QED BY <2>1, <2>4
<1> HIDE DEF captured, l
<1> QED BY <1>1, <1>2, <1>3 DEF Delay

LEMMA NoteOffOnce ==
  ASSUME OnceInv, NEW c \in Channel, NEW p \in Pitch, NoteOff(c, p)
  PROVE  Once'
<1>1. PICK id \in Nat : id = Ended(c, p)
  BY OnceTypes, EndedIsNumber
<1>2. PICK e \in EntryRecord : e = Entry(c, p, id) /\ e.id = id
  <2>1. Entry(c, p, id) \in EntryRecord /\ Entry(c, p, id).id = id
    BY DEF Entry, EntryRecord
  <2> QED BY <2>1
<1>3. /\ sustained' = sustained \/ sustained' = Append(sustained, e)
      /\ \/ sostenuted' = sostenuted
         \/ \E i \in DOMAIN sostenuted :
              /\ id # NoId /\ sostenuted[i].id = NoId /\ answered' = answered /\ sustained' = sustained
              /\ sostenuted' = [sostenuted EXCEPT ![i] = e]
      /\ answered' = answered \/ answered' = answered \cup ({id} \ {NoId})
      /\ answered' = answered \/ sustained' = sustained
  BY <1>1, <1>2, NoteOffPlaces
<1>4. notes' = {n \in notes : n.id # id} /\ begun' = begun
  BY <1>1 DEF NoteOff
<1>5. id # NoId => id \in NoteIds
  BY <1>1, OnceTypes, EndedIsNumber DEF NoteIds
<1>6. id \notin answered \cup Queued /\ (id # NoId => id \in 1 .. begun)
  BY <1>5 DEF OnceInv, Once, Queued, IdsOf, NoId
<1>7. NoteIds' \subseteq NoteIds \ {id}
  BY <1>4 DEF NoteIds
<1>8. /\ Unique(sustained) /\ Unique(sostenuted) /\ sustained \in Seq(EntryRecord)
      /\ sostenuted \in Seq(EntryRecord)
      /\ e.id \notin IdsOf(sustained) /\ e.id \notin IdsOf(sostenuted)
  BY <1>2, <1>6, OnceTypes DEF OnceInv, Once, Queued
<1>9. /\ Unique(sustained') /\ IdsOf(sustained') \subseteq IdsOf(sustained) \cup ({id} \ {NoId})
      /\ sustained' = sustained => IdsOf(sustained') = IdsOf(sustained)
  <2>1. /\ Unique(Append(sustained, e))
        /\ IdsOf(Append(sustained, e)) \subseteq IdsOf(sustained) \cup ({e.id} \ {NoId})
    BY <1>8, OneMoreId
  <2> QED BY <1>2, <1>3, <1>8, <2>1
<1>10. /\ Unique(sostenuted') /\ IdsOf(sostenuted') \subseteq IdsOf(sostenuted) \cup ({id} \ {NoId})
       /\ sostenuted' = sostenuted => IdsOf(sostenuted') = IdsOf(sostenuted)
  BY <1>2, <1>3, <1>8, OneMoreId
<1>11. Unique(sustained)' /\ Unique(sostenuted)'
       /\ IdsOf(sustained)' = IdsOf(sustained') /\ IdsOf(sostenuted)' = IdsOf(sostenuted')
  BY <1>9, <1>10 DEF Unique, IdsOf
<1>12. Queued' = IdsOf(sustained') \cup IdsOf(sostenuted')
  BY <1>11 DEF Queued
<1>13. Once
  BY DEF OnceInv
<1>14. IdsOf(sustained') \cap IdsOf(sostenuted') = {}
  BY <1>3, <1>6, <1>9, <1>10, <1>13 DEF Once, Queued
<1>15. answered' \cap Queued' = {}
  BY <1>3, <1>6, <1>9, <1>10, <1>12, <1>13 DEF Once, Queued
<1>16. NoteIds' \cap (answered' \cup Queued') = {}
  BY <1>3, <1>7, <1>9, <1>10, <1>12, <1>13 DEF Once, Queued
<1>17. NoteIds' \cup answered' \cup Queued' \subseteq 1 .. begun
  BY <1>3, <1>6, <1>7, <1>9, <1>10, <1>12, <1>13 DEF Once, Queued
<1>18. \A m, n \in notes' : m.id = n.id => m = n
  BY <1>4, <1>13 DEF Once
<1> QED BY <1>4, <1>11, <1>14, <1>15, <1>16, <1>17, <1>18 DEF Once

(* A step that starts and drops releases, and passes some from the         *)
(* sostenuto queue to the other.                                           *)
LEMMA Drained ==
  ASSUME OnceInv, UNCHANGED <<notes, begun>>,
         Unique(sustained'), Unique(sostenuted'),
         IdsOf(sustained') \cup IdsOf(sostenuted') \cup answered' \subseteq Queued \cup answered,
         IdsOf(sustained') \cap IdsOf(sostenuted') = {},
         answered' \cap (IdsOf(sustained') \cup IdsOf(sostenuted')) = {}
  PROVE  Once'
<1>1. NoteIds' = NoteIds
  BY DEF NoteIds
<1>2. Unique(sustained)' /\ Unique(sostenuted)'
      /\ IdsOf(sustained)' = IdsOf(sustained') /\ IdsOf(sostenuted)' = IdsOf(sostenuted')
  BY DEF Unique, IdsOf
<1>3. Queued' = IdsOf(sustained') \cup IdsOf(sostenuted')
  BY <1>2 DEF Queued
<1>4. Once
  BY DEF OnceInv
<1>5. NoteIds \cap (answered' \cup Queued') = {} /\ NoteIds \cup answered' \cup Queued' \subseteq 1 .. begun
  BY <1>3, <1>4 DEF Once
<1> QED BY <1>1, <1>2, <1>3, <1>4, <1>5 DEF Once

LEMMA OnceFacts ==
  ASSUME OnceInv
  PROVE  /\ Unique(sustained) /\ Unique(sostenuted)
         /\ IdsOf(sustained) \cap IdsOf(sostenuted) = {}
         /\ answered \cap (IdsOf(sustained) \cup IdsOf(sostenuted)) = {}
         /\ Queued = IdsOf(sustained) \cup IdsOf(sostenuted)
BY DEF OnceInv, Once, Queued

LEMMA PressOnce ==
  ASSUME OnceInv, NEW c \in Channel, NEW pedal \in Pedal, PressPedal(c, pedal)
  PROVE  Once'
<1>1. /\ UNCHANGED <<notes, begun, sustained, answered>>
      /\ sostenuted' = sostenuted \/ sostenuted' = DelayAll(sostenuted, Stored(c))
  BY DEF PressPedal
<1>2. Stored(c) \in Seq(EntryRecord) /\ IdsOf(Stored(c)) = {} /\ Unique(Stored(c))
  <2>1. pressed \in [Scope -> [Pitch -> Nat]]
    BY DEF OnceInv, Inv, TypeOK
  <2> QED BY <2>1, StoredEntries, NoIds
<1>3. Unique(sostenuted') /\ IdsOf(sostenuted') \subseteq IdsOf(sostenuted)
  <2>1. CASE sostenuted' = sostenuted
    BY <2>1, OnceFacts
  <2>2. CASE sostenuted' = DelayAll(sostenuted, Stored(c))
    <3>1. IdsOf(sostenuted) \cap IdsOf(Stored(c)) = {}
      BY <1>2
    <3>2. Unique(sostenuted') /\ IdsOf(sostenuted') \subseteq IdsOf(sostenuted) \cup IdsOf(Stored(c))
      BY <1>2, <2>2, <3>1, OnceTypes, OnceFacts, DelayedIds
    <3> QED BY <1>2, <3>2
  <2> QED BY <1>1, <2>1, <2>2
<1>4. Unique(sustained') /\ IdsOf(sustained') = IdsOf(sustained) /\ answered' = answered
  BY <1>1, OnceFacts
<1> QED BY <1>1, <1>3, <1>4, OnceFacts, Drained

LEMMA LiftSustainOnce ==
  ASSUME OnceInv, NEW c, LiftSustain(c)
  PROVE  Once'
<1>1. PICK s : s = ScopeOf(c)
  OBVIOUS
<1>2. PICK due :
        /\ due \in (IF region.checkSustain THEN {Of(sustained, s), <<>>} ELSE {<<>>})
        /\ answered' = answered \cup IdsOf(due)
  BY <1>1 DEF LiftSustain, Due
<1>3. /\ UNCHANGED <<notes, begun, sostenuted>>
      /\ sustained' = IF region.checkSustain THEN Others(sustained, s) ELSE sustained
  BY <1>1 DEF LiftSustain
<1>4. /\ IdsOf(Of(sustained, s)) \subseteq IdsOf(sustained)
      /\ Unique(Others(sustained, s)) /\ IdsOf(Others(sustained, s)) \subseteq IdsOf(sustained)
      /\ IdsOf(Of(sustained, s)) \cap IdsOf(Others(sustained, s)) = {}
  BY OnceTypes, OnceFacts, SplitIds
<1>5. /\ IdsOf(due) \subseteq IdsOf(sustained) /\ IdsOf(due) \cap IdsOf(sustained') = {}
      /\ Unique(sustained') /\ IdsOf(sustained') \subseteq IdsOf(sustained)
  <2>1. CASE region.checkSustain
    BY <2>1, <1>2, <1>3, <1>4, NoIds
  <2>2. CASE ~region.checkSustain
    BY <2>2, <1>2, <1>3, NoIds, OnceFacts
  <2> QED BY <2>1, <2>2
<1>6. Unique(sostenuted') /\ IdsOf(sostenuted') = IdsOf(sostenuted)
  BY <1>3, OnceFacts
<1> QED BY <1>2, <1>3, <1>5, <1>6, OnceFacts, Drained

LEMMA LiftSostenutoOnce ==
  ASSUME OnceInv, NEW c, LiftSostenuto(c)
  PROVE  Once'
<1>1. PICK s : s = ScopeOf(c)
  OBVIOUS
<1>2. PICK passOn \in BOOLEAN :
        passOn = (region.checkSostenuto /\ layer["release"][s]["sustain"])
  OBVIOUS
<1>3. PICK due :
        /\ due \in (IF region.checkSostenuto /\ ~passOn THEN {Of(sostenuted, s), <<>>} ELSE {<<>>})
        /\ answered' = answered \cup IdsOf(due)
  BY <1>1, <1>2 DEF LiftSostenuto, Due
<1>4. /\ UNCHANGED <<notes, begun>>
      /\ sustained' = IF passOn THEN DelayAll(sustained, Of(sostenuted, s)) ELSE sustained
      /\ sostenuted' = IF region.checkSostenuto THEN Others(sostenuted, s) ELSE sostenuted
  BY <1>1, <1>2 DEF LiftSostenuto
<1>5. /\ Unique(Of(sostenuted, s)) /\ IdsOf(Of(sostenuted, s)) \subseteq IdsOf(sostenuted)
      /\ Unique(Others(sostenuted, s)) /\ IdsOf(Others(sostenuted, s)) \subseteq IdsOf(sostenuted)
      /\ IdsOf(Of(sostenuted, s)) \cap IdsOf(Others(sostenuted, s)) = {}
  BY OnceTypes, OnceFacts, SplitIds
<1>6. CASE passOn
  <2>1. Of(sostenuted, s) \in Seq(EntryRecord) /\ IdsOf(sustained) \cap IdsOf(Of(sostenuted, s)) = {}
    BY <1>5, OnceTypes, OnceFacts, KeptOf
  <2>2. /\ Unique(sustained')
        /\ IdsOf(sustained') \subseteq IdsOf(sustained) \cup IdsOf(Of(sostenuted, s))
    <3>1. sustained' = DelayAll(sustained, Of(sostenuted, s))
      BY <1>4, <1>6
    <3> QED BY <1>5, <2>1, <3>1, OnceTypes, OnceFacts, DelayedIds
  <2>3. sostenuted' = Others(sostenuted, s) /\ answered' = answered
    BY <1>2, <1>3, <1>4, <1>6, NoIds
  <2> QED BY <1>4, <1>5, <2>2, <2>3, OnceFacts, Drained
<1>7. CASE ~passOn
  <2>1. sustained' = sustained
    BY <1>4, <1>7
  <2>2. /\ IdsOf(due) \subseteq IdsOf(sostenuted) /\ IdsOf(due) \cap IdsOf(sostenuted') = {}
        /\ Unique(sostenuted') /\ IdsOf(sostenuted') \subseteq IdsOf(sostenuted)
    <3>1. CASE region.checkSostenuto
      BY <3>1, <1>3, <1>4, <1>5, NoIds
    <3>2. CASE ~region.checkSostenuto
      BY <3>2, <1>3, <1>4, NoIds, OnceFacts
    <3> QED BY <3>1, <3>2
  <2> QED BY <1>3, <1>4, <2>1, <2>2, OnceFacts, Drained
<1> QED BY <1>6, <1>7

LEMMA ResetOnce ==
  ASSUME OnceInv, ResetAllControllers
  PROVE  Once'
<1>1. sostenuted' = <<>>
  BY ResetEmpties DEF OnceInv
<1>2. UNCHANGED <<notes, begun, sustained, answered>>
  BY DEF ResetAllControllers
<1>3. Unique(sostenuted') /\ IdsOf(sostenuted') = {}
  BY <1>1, NoIds
<1>4. Unique(sustained') /\ IdsOf(sustained') = IdsOf(sustained) /\ answered' = answered
  BY <1>2, OnceFacts
<1> QED BY <1>2, <1>3, <1>4, OnceFacts, Drained

LEMMA OnceInvHolds == Spec => []OnceInv
<1>1. Init => OnceInv
  <2> SUFFICES ASSUME Init PROVE OnceInv
    OBVIOUS
  <2>1. notes = {} /\ sustained = <<>> /\ sostenuted = <<>> /\ answered = {}
    BY DEF Init
  <2>2. Once
    BY <2>1, NoIds DEF Once, Queued, NoteIds
  <2> QED BY <2>2, InitInv DEF OnceInv
<1>2. OnceInv /\ [Next]_vars => OnceInv'
  <2> SUFFICES ASSUME OnceInv, [Next]_vars PROVE OnceInv'
    OBVIOUS
  <2>1. Inv' /\ region \in Regions
    BY NextInv DEF OnceInv, Inv, TypeOK
  <2>2. CASE Next
    <3>1. CASE \E c \in Channel, p \in Pitch : NoteOn(c, p) \/ NoteOff(c, p)
      BY <2>1, <3>1, NoteOnOnce, NoteOffOnce DEF OnceInv
    <3>2. CASE \E c \in Channel, pedal \in Pedal, down \in BOOLEAN : Pressed(c, pedal, down)
      BY <2>1, <3>2, PressOnce, LiftSustainOnce, LiftSostenutoOnce DEF OnceInv, Pressed
    <3>3. CASE ResetAllControllers
      BY <2>1, <3>3, ResetOnce DEF OnceInv
    <3>4. CASE AllNotesOff \/ AllSoundOff
      <4>1. notes' = {} /\ UNCHANGED <<begun, sustained, sostenuted, answered>>
        BY <3>4 DEF AllNotesOff, AllSoundOff
      <4>2. NoteIds' = {} /\ NoteIds' \subseteq NoteIds
        BY <4>1 DEF NoteIds
      <4> QED BY <2>1, <4>1, <4>2 DEF OnceInv, Once, Queued, Unique, IdsOf
    <3>5. CASE \E i \in DOMAIN voices : EndVoice(i)
      <4>1. UNCHANGED <<notes, begun, sustained, sostenuted, answered>>
        BY <3>5 DEF EndVoice
      <4> QED BY <2>1, <4>1 DEF OnceInv, Once, Queued, Unique, IdsOf, NoteIds
    <3> QED BY <2>1, <2>2, <3>1, <3>2, <3>3, <3>4, <3>5, StepsOfNext
  <2>3. CASE UNCHANGED vars
    BY <2>1, <2>3, SMTT(40) DEF vars, OnceInv, Once, Queued, Unique, IdsOf, NoteIds
  <2> QED BY <2>2, <2>3
<1> QED BY <1>1, <1>2, PTL DEF Spec

LEMMA AtMostOne ==
  ASSUME NEW S, \A x, y \in S : x = y
  PROVE  Cardinality(S) = IF S = {} THEN 0 ELSE 1
<1>1. CASE S = {}
  BY <1>1, FS_EmptySet
<1>2. CASE S # {}
  <2>1. PICK x \in S : TRUE
    BY <1>2
  <2>2. S = {x}
    BY <2>1
  <2> QED BY <1>2, <2>2, FS_Singleton
<1> QED BY <1>1, <1>2

(* The release of a note waits for one pedal, or is started once, whatever *)
(* passes from queue to queue and is dropped for want of room.             *)
THEOREM ReleasesHaveOnePlace == Spec => []QueuesDrainOnce
<1>1. OnceInv => QueuesDrainOnce
  <2> SUFFICES ASSUME OnceInv, NEW id \in 1 .. begun
               PROVE  Cardinality(IdPlaces(id)) + (IF id \in answered THEN 1 ELSE 0)
                        + Cardinality({n \in notes : n.id = id}) <= 1
    BY DEF QueuesDrainOnce
  <2>1. id # NoId
    BY OnceTypes DEF NoId
  <2>2. IdPlaces(id) # {} => id \in Queued
    BY <2>1 DEF IdPlaces, Queued, IdsOf
  <2>3. \A x, y \in IdPlaces(id) : x = y
    <3>1. ASSUME NEW x \in IdPlaces(id), NEW y \in IdPlaces(id) PROVE x = y
      <4>1. CASE \E i, j \in DOMAIN sustained : /\ x = <<"sustain", i>> /\ sustained[i].id = id
                                               /\ y = <<"sustain", j>> /\ sustained[j].id = id
        BY <4>1, <2>1, OnceFacts DEF Unique
      <4>2. CASE \E i, j \in DOMAIN sostenuted : /\ x = <<"sostenuto", i>> /\ sostenuted[i].id = id
                                               /\ y = <<"sostenuto", j>> /\ sostenuted[j].id = id
        BY <4>2, <2>1, OnceFacts DEF Unique
      <4>3. CASE \E i \in DOMAIN sustained, j \in DOMAIN sostenuted :
                   sustained[i].id = id /\ sostenuted[j].id = id
        BY <4>3, <2>1, OnceFacts DEF IdsOf
      <4> QED BY <4>1, <4>2, <4>3 DEF IdPlaces
    <3> QED BY <3>1
  <2>4. \A x, y \in {n \in notes : n.id = id} : x = y
    BY DEF OnceInv, Once
  <2>5. {n \in notes : n.id = id} # {} => id \in NoteIds
    BY DEF NoteIds
  <2>6. /\ ~(id \in answered /\ id \in Queued)
        /\ ~(id \in NoteIds /\ id \in answered) /\ ~(id \in NoteIds /\ id \in Queued)
    BY DEF OnceInv, Once
  <2>7. Cardinality(IdPlaces(id)) = IF IdPlaces(id) = {} THEN 0 ELSE 1
    BY <2>3, AtMostOne
  <2>8. Cardinality({n \in notes : n.id = id}) = IF {n \in notes : n.id = id} = {} THEN 0 ELSE 1
    BY <2>4, AtMostOne
  <2> QED BY <2>2, <2>5, <2>6, <2>7, <2>8
<1> QED BY <1>1, OnceInvHolds, PTL
=============================================================================
