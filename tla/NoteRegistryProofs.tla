------------------------ MODULE NoteRegistryProofs ------------------------
(***************************************************************************)
(* Proofs about NoteRegistry, for every set of sources and pitches, every  *)
(* capacity and every width of the generation counter: the inductive       *)
(* invariant IInv, what it implies, and the refinement of NoteMatching.    *)
(***************************************************************************)
EXTENDS NoteRegistry, FiniteSetTheorems, FunctionTheorems, TLAPS

(* Slots hold numbers already given out; an active one was used before.    *)
Numbered ==
  \A i \in Slot :
    /\ slots[i].sequence < nextSequence
    /\ slots[i].active => slots[i].generation >= 1 /\ slots[i].sequence >= 1

(* No two active notes have the same number.                               *)
Distinct == \A i, j \in ActiveSlots : slots[i].sequence = slots[j].sequence => i = j

(* The generation of a slot tells how often it was reused since an         *)
(* identity was taken from it, until it comes round.                       *)
AgeOf(k) ==
  /\ k.index \in Slot
  /\ k.sequence + k.age < nextSequence
  /\ k.age = 0 => slots[k.index].sequence = k.sequence
  /\ k.age < Generations =>
       \/ slots[k.index].generation = k.generation + k.age
       \/ slots[k.index].generation = k.generation + k.age - (Generations - 1)

Dated(k) == k.epoch <= epoch /\ (k.epoch = epoch => AgeOf(k))
Ages == \A k \in kept : Dated(k)

IInv == TypeOK /\ Numbered /\ Distinct /\ CountsActiveNotes /\ Ages

-----------------------------------------------------------------------------
LEMMA FiniteSlots ==
  ASSUME capacity \in Nat
  PROVE  /\ IsFiniteSet(Slot) /\ Cardinality(Slot) = capacity
         /\ IsFiniteSet(ActiveSlots) /\ Cardinality(ActiveSlots) \in Nat
         /\ Cardinality(ActiveSlots) <= capacity
         /\ Cardinality(ActiveSlots) = capacity => ActiveSlots = Slot
<1>1. IsFiniteSet(Slot) /\ Cardinality(Slot) = capacity
  BY FS_Interval DEF Slot
<1>2. ActiveSlots \in SUBSET Slot
  BY DEF ActiveSlots
<1>3. /\ IsFiniteSet(ActiveSlots) /\ Cardinality(ActiveSlots) <= Cardinality(Slot)
      /\ Cardinality(Slot) = Cardinality(ActiveSlots) => Slot = ActiveSlots
  BY <1>1, <1>2, FS_Subset
<1> QED
  BY <1>1, <1>3, FS_CardinalityType

LEMMA EmptySlotsType ==
  ASSUME NEW n \in Nat
  PROVE  /\ EmptySlots(n) \in [0 .. n - 1 -> SlotRecord]
         /\ \A i \in 0 .. n - 1 : EmptySlots(n)[i].sequence = 0 /\ ~EmptySlots(n)[i].active
<1>1. (CHOOSE s \in Source : TRUE) \in Source
  BY RegistryAssumption
<1>2. (CHOOSE p \in Pitch : TRUE) \in Pitch
  BY RegistryAssumption
<1> DEFINE s0 == CHOOSE s \in Source : TRUE
           p0 == CHOOSE p \in Pitch : TRUE
<1>3. EmptySlots(n) = [i \in 0 .. n - 1 |-> [source |-> s0, noteNumber |-> p0,
                         sequence |-> 0, generation |-> 0, active |-> FALSE]]
  BY DEF EmptySlots
<1> HIDE DEF s0, p0
<1>4. s0 \in Source /\ p0 \in Pitch
  BY <1>1, <1>2 DEF s0, p0
<1> QED
  BY <1>3, <1>4, RegistryAssumption DEF SlotRecord

LEMMA NextGenerationType ==
  ASSUME NEW g \in 0 .. Generations - 1
  PROVE  NextGeneration(g) \in 1 .. Generations - 1
BY RegistryAssumption DEF NextGeneration

LEMMA DeactivatedType ==
  ASSUME TypeOK
  PROVE  /\ Deactivated \in [Slot -> SlotRecord]
         /\ \A i \in Slot : /\ ~Deactivated[i].active
                            /\ Deactivated[i].sequence = slots[i].sequence
                            /\ Deactivated[i].generation = slots[i].generation
BY DEF Deactivated, TypeOK, SlotRecord

-----------------------------------------------------------------------------
(* Initially and after every step the invariant holds.                     *)
LEMMA InitIInv == Init => IInv
<1> SUFFICES ASSUME Init PROVE IInv
  OBVIOUS
<1>1. capacity \in Nat /\ Slot = 0 .. capacity - 1
  BY RegistryAssumption DEF Init, Slot
<1>2. /\ slots \in [Slot -> SlotRecord]
      /\ \A i \in Slot : slots[i].sequence = 0 /\ ~slots[i].active
  BY <1>1, EmptySlotsType DEF Init
<1>3. TypeOK
  BY <1>2 DEF Init, TypeOK
<1>4. Numbered
  BY <1>2 DEF Init, Numbered
<1>5. ActiveSlots = {}
  BY <1>2 DEF ActiveSlots, Active
<1>6. Distinct /\ CountsActiveNotes
  BY <1>5, FS_EmptySet DEF Init, Distinct, CountsActiveNotes
<1>7. Ages
  BY DEF Init, Ages
<1> QED
  BY <1>3, <1>4, <1>6, <1>7 DEF IInv

(* A step that leaves the slots alone.                                     *)
LEMMA SameSlotsStep ==
  ASSUME IInv, UNCHANGED <<capacity, slots, nextSequence, activeCount, epoch>>,
         endedNote' = NoNote \/ UNCHANGED endedNote,
         \A k \in kept' : k \in Identity /\ Dated(k)
  PROVE  IInv'
<1>1. TypeOK'
  BY DEF IInv, TypeOK, Slot
<1>2. Numbered' /\ Distinct' /\ CountsActiveNotes'
  BY DEF IInv, Numbered, Distinct, ActiveSlots, Active, CountsActiveNotes, Slot
<1>3. Ages'
  BY DEF Ages, Dated, AgeOf, Slot
<1> QED
  BY <1>1, <1>2, <1>3 DEF IInv

LEMMA BeginNoteStep ==
  ASSUME IInv, NEW s \in Source, NEW p \in Pitch, BeginNote(s, p)
  PROVE  IInv'
<1> USE DEF IInv, TypeOK, Slot
<1>1. PICK i \in Slot :
        LET g == NextGeneration(slots[i].generation) IN
        /\ FirstFree(i)
        /\ slots' = [slots EXCEPT ![i] = [source |-> s, noteNumber |-> p,
                       sequence |-> nextSequence, generation |-> g, active |-> TRUE]]
        /\ \/ kept' = Aged(i)
           \/ kept' = Aged(i) \cup {Remembered(i, g, nextSequence, "voice")}
  BY DEF BeginNote
<1> DEFINE g == NextGeneration(slots[i].generation)
<1>2. g \in 1 .. Generations - 1
  BY NextGenerationType DEF SlotRecord
<1>3. /\ capacity' = capacity /\ epoch' = epoch /\ nextSequence' = nextSequence + 1
      /\ activeCount' = activeCount + 1 /\ endedNote' = NoNote
  BY DEF BeginNote
<1>4. slots' \in [Slot -> SlotRecord]
  BY <1>1, <1>2, RegistryAssumption DEF SlotRecord
<1>5. ASSUME NEW k \in Aged(i)
      PROVE  k \in Identity /\ Dated(k)'
  <2>1. PICK l \in kept :
          k = [l EXCEPT !.age = IF l.epoch = epoch /\ l.index = i THEN @ + 1 ELSE @]
    BY DEF Aged
  <2>2. l \in Identity /\ l.epoch <= epoch /\ (l.epoch = epoch => AgeOf(l))
    BY DEF Ages, Dated
  <2>3. CASE l.epoch # epoch \/ l.index # i
    <3>1. k = l
      BY <2>1, <2>2, <2>3 DEF Identity
    <3> QED
      BY <2>2, <2>3, <3>1, <1>1, <1>3 DEF Identity, AgeOf, Dated
  <2>4. CASE l.epoch = epoch /\ l.index = i
    <3>1. k = [l EXCEPT !.age = l.age + 1]
      BY <2>1, <2>4
    <3>2. /\ k \in Identity /\ k.epoch = epoch /\ k.index = i /\ k.age = l.age + 1
          /\ k.sequence = l.sequence /\ k.generation = l.generation
      BY <3>1, <2>2, <2>4 DEF Identity
    <3>3. slots'[i].generation = g
      BY <1>1
    <3>4. l.sequence + l.age < nextSequence
      BY <2>2, <2>4 DEF AgeOf
    <3>5. k.sequence + k.age < nextSequence'
      BY <3>2, <3>4, <2>2, <1>3 DEF Identity
    <3>6. ASSUME k.age < Generations
          PROVE  \/ g = k.generation + k.age
                 \/ g = k.generation + k.age - (Generations - 1)
      <4>1. l.age < Generations
        BY <3>6, <3>2, <2>2, RegistryAssumption DEF Identity
      <4>2. \/ slots[i].generation = l.generation + l.age
            \/ slots[i].generation = l.generation + l.age - (Generations - 1)
        BY <4>1, <2>2, <2>4 DEF AgeOf
      <4>3. l.generation \in 1 .. Generations - 1 /\ l.age \in Nat
        BY <2>2 DEF Identity
      <4>4. k.generation = l.generation /\ k.age = l.age + 1
        BY <3>2
      <4>5. slots[i].generation \in 0 .. Generations - 1
        BY DEF SlotRecord
      <4> HIDE DEF g, IInv, TypeOK
      <4>6. g = NextGeneration(slots[i].generation)
        BY DEF g
      <4> QED
        BY <4>2, <4>3, <4>4, <4>5, <4>6, <3>6, RegistryAssumption DEF NextGeneration
    <3> HIDE DEF g
    <3>7. k.age # 0
      BY <3>2, <2>2 DEF Identity
    <3> QED
      BY <3>2, <3>3, <3>5, <3>6, <3>7, <1>3 DEF AgeOf, Dated
  <2> QED
    BY <2>3, <2>4
<1>6. ASSUME NEW k, k = Remembered(i, g, nextSequence, "voice")
      PROVE  k \in Identity /\ Dated(k)'
  <2> HIDE DEF g
  <2>1. slots'[i].sequence = nextSequence /\ slots'[i].generation = g
    BY <1>1 DEF g
  <2> QED
    BY <1>6, <2>1, <1>2, <1>3, RegistryAssumption DEF Remembered, Identity, AgeOf, Dated
<1>7. TypeOK'
  BY <1>1, <1>3, <1>4, <1>5, <1>6
<1>8. Numbered'
  BY <1>1, <1>2, <1>3 DEF Numbered, SlotRecord
<1>9. Distinct'
  BY <1>1, <1>3 DEF Distinct, Numbered, ActiveSlots, Active, SlotRecord
<1>10. Ages'
  BY <1>1, <1>5, <1>6 DEF Ages
<1>11. CountsActiveNotes'
  <2>1. ActiveSlots' = ActiveSlots \cup {i} /\ i \notin ActiveSlots
    BY <1>1, <1>3 DEF ActiveSlots, Active, FirstFree
  <2>2. capacity \in Nat
    BY RegistryAssumption
  <2>3. Cardinality(ActiveSlots') = Cardinality(ActiveSlots) + 1
    BY <2>1, <2>2, FiniteSlots, FS_AddElement
  <2> QED
    BY <2>3, <1>3 DEF CountsActiveNotes
<1> QED
  BY <1>7, <1>8, <1>9, <1>10, <1>11

LEMMA EndNoteStep ==
  ASSUME IInv, NEW s \in Source, NEW p \in Pitch, EndNote(s, p)
  PROVE  IInv'
<1> USE DEF IInv, TypeOK, Slot
<1>1. PICK i \in Slot :
        /\ i \in ActiveSlots
        /\ slots' = [slots EXCEPT ![i].active = FALSE]
        /\ endedNote' = NoteId(i)
        /\ \/ kept' = kept
           \/ kept' = kept \cup {Remembered(i, slots[i].generation, slots[i].sequence, "layer")}
  BY DEF EndNote, Matches
<1>2. /\ capacity' = capacity /\ epoch' = epoch /\ nextSequence' = nextSequence
      /\ activeCount' = activeCount - 1
  BY DEF EndNote
<1>3. slots[i].generation \in 1 .. Generations - 1 /\ slots[i].sequence < nextSequence
  BY <1>1, RegistryAssumption, SMTT(40) DEF Numbered, SlotRecord, ActiveSlots, Active
<1>4. /\ slots' \in [Slot -> SlotRecord]
      /\ \A j \in Slot : /\ slots'[j].sequence = slots[j].sequence
                         /\ slots'[j].generation = slots[j].generation
                         /\ slots'[j].active => slots[j].active
  BY <1>1, ZenonT(60) DEF SlotRecord
<1>5. ASSUME NEW k \in kept PROVE Dated(k)'
  <2>1. k \in Identity /\ Dated(k)
    BY DEF Ages
  <2> QED
    BY <2>1, <1>2, <1>4 DEF Dated, AgeOf, Identity
<1>6. ASSUME NEW k, k = Remembered(i, slots[i].generation, slots[i].sequence, "layer")
      PROVE  k \in Identity /\ Dated(k)'
  BY <1>6, <1>2, <1>3, <1>4 DEF Remembered, Identity, Dated, AgeOf, SlotRecord
<1>7. kept' \subseteq Identity /\ slots' \in [Slot' -> SlotRecord]
  BY <1>1, <1>2, <1>4, <1>6
<1>8. Numbered' /\ Distinct'
  BY <1>2, <1>4 DEF Numbered, Distinct, ActiveSlots, Active
<1>9. Ages'
  BY <1>1, <1>5, <1>6 DEF Ages
<1>10. endedNote' \in [index : Slot', generation : 1 .. Generations - 1]
  BY <1>1, <1>2, <1>3 DEF NoteId
<1>11. CountsActiveNotes' /\ activeCount' \in Nat
  <2>1. ActiveSlots' = ActiveSlots \ {i}
    BY <1>1, <1>2 DEF ActiveSlots, Active, SlotRecord
  <2>2. capacity \in Nat
    BY RegistryAssumption
  <2>3. Cardinality(ActiveSlots') = Cardinality(ActiveSlots) - 1
    BY <1>1, <2>1, <2>2, FiniteSlots, FS_RemoveElement
  <2>4. Cardinality(ActiveSlots) - 1 \in Nat
    <3>1. IsFiniteSet(ActiveSlots') 
      BY <2>1, <2>2, FiniteSlots, FS_RemoveElement
    <3> QED
      BY <2>3, <3>1, FS_CardinalityType
  <2> QED
    BY <2>3, <2>4, <1>2 DEF CountsActiveNotes
<1> QED
  BY <1>2, <1>7, <1>8, <1>9, <1>10, <1>11

(* The registry is emptied; the slots keep their generations.              *)
LEMMA ClearStep ==
  ASSUME IInv, slots' = Deactivated, activeCount' = 0, endedNote' = NoNote,
         kept' \subseteq kept, UNCHANGED <<capacity, nextSequence, epoch>>
  PROVE  IInv'
<1>1. TypeOK'
  BY DeactivatedType DEF IInv, TypeOK, Slot
<1>2. Numbered'
  BY DeactivatedType DEF IInv, Numbered, Slot
<1>3. ActiveSlots' = {}
  BY DeactivatedType DEF IInv, ActiveSlots, Active, Slot
<1>4. Distinct' /\ CountsActiveNotes'
  BY <1>3, FS_EmptySet DEF Distinct, CountsActiveNotes
<1>5. ASSUME NEW k \in kept' PROVE Dated(k)'
  <2>1. Dated(k)
    BY DEF IInv, Ages
  <2> QED
    BY <2>1, DeactivatedType DEF IInv, Dated, AgeOf, Slot
<1>6. Ages'
  BY <1>5 DEF Ages
<1> QED
  BY <1>1, <1>2, <1>4, <1>6 DEF IInv

LEMMA ConfigureStep ==
  ASSUME IInv, NEW c \in Capacities, Configure(c)
  PROVE  IInv'
<1>1. c \in Nat
  BY RegistryAssumption
<1>2. /\ capacity' = c /\ slots' = EmptySlots(c) /\ nextSequence' = 1 /\ activeCount' = 0
      /\ endedNote' = NoNote /\ kept' \subseteq kept /\ epoch' = epoch + 1
  BY DEF Configure, LayersOnly
<1>3. Slot' = 0 .. c - 1
  BY <1>2 DEF Slot
<1>4. /\ slots' \in [Slot' -> SlotRecord]
      /\ \A i \in Slot' : slots'[i].sequence = 0 /\ ~slots'[i].active
  BY <1>1, <1>2, <1>3, EmptySlotsType
<1>5. TypeOK'
  BY <1>2, <1>4 DEF IInv, TypeOK
<1>6. Numbered'
  BY <1>2, <1>4 DEF Numbered
<1>7. ActiveSlots' = {}
  BY <1>4 DEF ActiveSlots, Active
<1>8. Distinct' /\ CountsActiveNotes'
  BY <1>2, <1>7, FS_EmptySet DEF Distinct, CountsActiveNotes
<1>9. ASSUME NEW k \in kept' PROVE Dated(k)'
  <2>1. k \in Identity /\ k.epoch <= epoch /\ epoch \in Nat
    BY <1>2 DEF IInv, TypeOK, Ages, Dated
  <2> QED
    BY <2>1, <1>2 DEF Dated, Identity
<1>10. Ages'
  BY <1>9 DEF Ages
<1> QED
  BY <1>5, <1>6, <1>8, <1>10 DEF IInv

-----------------------------------------------------------------------------
(* The invariant is inductive.                                             *)
LEMMA NextIInv == IInv /\ [Next]_vars => IInv'
<1> SUFFICES ASSUME IInv, [Next]_vars PROVE IInv'
  OBVIOUS
<1>1. ASSUME NEW k \in kept PROVE k \in Identity /\ Dated(k)
  BY DEF IInv, TypeOK, Ages
<1>2. ASSUME NEW s \in Source, NEW p \in Pitch, BeginNote(s, p) PROVE IInv'
  BY <1>2, BeginNoteStep
<1>3. ASSUME NEW s \in Source, NEW p \in Pitch, EndNote(s, p) PROVE IInv'
  BY <1>3, EndNoteStep
<1>4. ASSUME NEW s \in Source, NEW p \in Pitch, EndUnknownNote(s, p) PROVE IInv'
  BY <1>1, <1>4, SameSlotsStep DEF EndUnknownNote
<1>5. ASSUME NEW s \in Source, RefuseNote(s) PROVE IInv'
  BY <1>1, <1>5, SameSlotsStep DEF RefuseNote
<1>6. CASE Clear
  BY <1>6, ClearStep DEF Clear, LayersOnly
<1>7. CASE Reload
  BY <1>7, ClearStep DEF Reload
<1>8. ASSUME NEW c \in Capacities, Configure(c) PROVE IInv'
  BY <1>8, ConfigureStep
<1>9. ASSUME NEW k \in kept, Forget(k) PROVE IInv'
  <2>1. kept' \subseteq kept
    BY <1>9 DEF Forget
  <2> QED
    BY <1>1, <1>9, <2>1, SameSlotsStep DEF Forget
<1>10. ASSUME NEW k \in kept, StartDelayedRelease(k) PROVE IInv'
  <2>1. [k EXCEPT !.client = "voice"] \in Identity
    BY <1>1 DEF Identity
  <2>2. Dated([k EXCEPT !.client = "voice"])
    BY <1>1 DEF Dated, AgeOf, Identity
  <2>3. ASSUME NEW l \in kept' PROVE l \in Identity /\ Dated(l)
    <3>1. CASE l \in kept
      BY <1>1, <3>1
    <3>2. CASE l = [k EXCEPT !.client = "voice"]
      BY <2>1, <2>2, <3>2
    <3> QED
      BY <1>10, <3>1, <3>2 DEF StartDelayedRelease
  <2> QED
    BY <1>10, <2>3, SameSlotsStep DEF StartDelayedRelease
<1>11. CASE UNCHANGED vars
  BY <1>1, <1>11, SameSlotsStep DEF vars
<1> QED
  BY <1>2, <1>3, <1>4, <1>5, <1>6, <1>7, <1>8, <1>9, <1>10, <1>11 DEF Next

THEOREM Invariance == Spec => []IInv
<1> QED
  BY InitIInv, NextIInv, PTL DEF Spec

(* The registry's state has its type, for every width of the counter.      *)
THEOREM TypeCorrect == Spec => []TypeOK
<1>1. IInv => TypeOK
  BY DEF IInv
<1> QED
  BY <1>1, Invariance, PTL

(* activeCount() is the number of outstanding notes.                       *)
THEOREM CountIsExact == Spec => []CountsActiveNotes
<1>1. IInv => CountsActiveNotes
  BY DEF IInv
<1> QED
  BY <1>1, Invariance, PTL

(* A remembered identity that names a slot names its own note until the    *)
(* generation counter has come round.                                      *)
THEOREM GenerationsGuard == Spec => []GenerationGuards
<1>1. IInv => GenerationGuards
  <2> SUFFICES ASSUME IInv, NEW k \in kept, k.epoch = epoch, Contains(k),
                      ~SameNote(k)
               PROVE  nextSequence - k.sequence >= Generations
    BY DEF GenerationGuards
  <2>1. k \in Identity /\ AgeOf(k) /\ nextSequence \in Nat
    BY DEF IInv, TypeOK, Ages, Dated
  <2>2. slots[k.index].generation = k.generation
    BY DEF Contains
  <2>3. k.age # 0
    BY <2>1 DEF AgeOf, SameNote
  <2>4. k.age >= Generations - 1
    BY <2>1, <2>2, <2>3, RegistryAssumption DEF AgeOf, Identity
  <2> QED
    BY <2>1, <2>4, RegistryAssumption DEF AgeOf, Identity
<1> QED
  BY <1>1, Invariance, PTL

-----------------------------------------------------------------------------
(* The refinement: outstanding notes are the active slots, one by one.     *)
Outstands(i) ==
  [source |-> slots[i].source, pitch |-> slots[i].noteNumber, number |-> slots[i].sequence]

LEMMA AsManyOutstanding ==
  ASSUME IInv
  PROVE  Cardinality(Outstanding) = Cardinality(ActiveSlots)
<1> DEFINE f == [i \in ActiveSlots |-> Outstands(i)]
<1>1. Outstanding = {f[i] : i \in ActiveSlots}
  BY DEF Outstanding, Outstands
<1>2. f \in Bijection(ActiveSlots, Outstanding)
  <2>1. \A i, j \in ActiveSlots : f[i] = f[j] => i = j
    BY DEF IInv, Distinct, Outstands
  <2>2. f \in [ActiveSlots -> Outstanding]
    BY <1>1
  <2> HIDE DEF f
  <2> QED
    BY <1>1, <2>1, <2>2, Fun_IsBij
<1>3. ExistsBijection(ActiveSlots, Outstanding)
  BY <1>2 DEF ExistsBijection
<1>4. IsFiniteSet(ActiveSlots)
  BY FiniteSlots, RegistryAssumption DEF IInv, TypeOK
<1> QED
  BY <1>3, <1>4, FS_Bijection

(* The instance's copy of Cardinality is Cardinality.                      *)
LEMMA InstanceCardinality ==
  ASSUME NEW S
  PROVE  Matching!Cardinality(S) = Cardinality(S)
BY DEF Matching!Cardinality, Cardinality

LEMMA PairingInit == Init => Matching!Start
<1> SUFFICES ASSUME Init PROVE Matching!Start
  OBVIOUS
<1>1. ActiveSlots = {}
  BY EmptySlotsType, RegistryAssumption DEF Init, ActiveSlots, Active, Slot
<1> QED
  BY <1>1 DEF Init, Matching!Start, Outstanding, EndedNumber

LEMMA PairingAccept ==
  ASSUME IInv, NEW s \in Source, NEW p \in Pitch, BeginNote(s, p)
  PROVE  Matching!Accept(s, p)
<1>1. PICK i \in Slot :
        /\ i \notin ActiveSlots
        /\ slots' = [slots EXCEPT ![i] = [source |-> s, noteNumber |-> p,
                       sequence |-> nextSequence,
                       generation |-> NextGeneration(slots[i].generation), active |-> TRUE]]
  BY DEF BeginNote, FirstFree
<1>2. /\ capacity' = capacity /\ nextSequence' = nextSequence + 1 /\ endedNote' = NoNote
      /\ s \in ValidSource
  BY DEF BeginNote
<1>3. capacity \in Nat /\ DOMAIN slots = Slot
  BY RegistryAssumption DEF IInv, TypeOK
<1>4. Cardinality(Outstanding) < capacity
  BY <1>1, <1>3, FiniteSlots, AsManyOutstanding
<1>5. ActiveSlots' = ActiveSlots \cup {i}
  BY <1>1, <1>2, <1>3 DEF ActiveSlots, Active, Slot
<1>6. \A j \in ActiveSlots : Outstands(j)' = Outstands(j)
  BY <1>1, <1>3 DEF Outstands, ActiveSlots
<1>7. Outstands(i)' = [source |-> s, pitch |-> p, number |-> nextSequence]
  BY <1>1, <1>3 DEF Outstands
<1>8. Outstanding = {Outstands(j) : j \in ActiveSlots}
  BY DEF Outstanding, Outstands
<1>9. Outstanding' = {Outstands(j)' : j \in ActiveSlots'}
  BY DEF Outstanding, Outstands
<1>10. Outstanding' = Outstanding \cup {[source |-> s, pitch |-> p, number |-> nextSequence]}
  BY <1>5, <1>6, <1>7, <1>8, <1>9
<1>11. EndedNumber' = 0
  BY <1>2 DEF EndedNumber
<1> QED
  BY <1>2, <1>4, <1>10, <1>11, InstanceCardinality DEF Matching!Accept

(* The notes of an address and pitch are the slots that match.             *)
LEMMA MatchingSlots ==
  ASSUME NEW s, NEW p
  PROVE  Matching!Matching(s, p) = {Outstands(i) : i \in {j \in Slot : Matches(j, s, p)}}
BY DEF Matching!Matching, Outstanding, Outstands, Matches, ActiveSlots

LEMMA PairingPair ==
  ASSUME IInv, NEW s \in Source, NEW p \in Pitch, EndNote(s, p)
  PROVE  Matching!Pair(s, p)
<1>1. PICK i \in Slot :
        /\ Matches(i, s, p)
        /\ \A j \in Slot : Matches(j, s, p) => slots[i].sequence <= slots[j].sequence
        /\ slots' = [slots EXCEPT ![i].active = FALSE]
        /\ endedNote' = NoteId(i)
  BY DEF EndNote
<1>2. capacity' = capacity /\ nextSequence' = nextSequence /\ i \in ActiveSlots
  BY <1>1 DEF EndNote, Matches
<1>3. slots \in [Slot -> SlotRecord]
  BY DEF IInv, TypeOK
<1> DEFINE n == Outstands(i)
<1>4. n \in Outstanding
  BY <1>2 DEF Outstanding, Outstands
<1>5. Matching!Oldest(n, s, p)
  <2>1. n \in Matching!Matching(s, p)
    BY <1>1, MatchingSlots
  <2>2. \A m \in Matching!Matching(s, p) : n.number <= m.number
    BY <1>1, MatchingSlots DEF Outstands
  <2> QED
    BY <2>1, <2>2 DEF Matching!Oldest
<1>6. ActiveSlots' = ActiveSlots \ {i}
  BY <1>1, <1>2, <1>3 DEF ActiveSlots, Active, Slot, SlotRecord
<1>7. \A j \in Slot : Outstands(j)' = Outstands(j)
  BY <1>1, <1>3 DEF Outstands, SlotRecord
<1>8. Outstanding = {Outstands(j) : j \in ActiveSlots}
  BY DEF Outstanding, Outstands
<1>9. Outstanding' = {Outstands(j)' : j \in ActiveSlots'}
  BY DEF Outstanding, Outstands
<1>10. Outstanding' = {Outstands(j) : j \in ActiveSlots \ {i}}
  BY <1>6, <1>7, <1>9 DEF ActiveSlots
<1>11. \A j \in ActiveSlots : Outstands(j) = n => j = i
  BY <1>2 DEF IInv, Distinct, Outstands
<1>12. Outstanding' = Outstanding \ {n}
  BY <1>8, <1>10, <1>11
<1>13. EndedNumber' = n.number
  <2>1. slots[i].generation >= 1
    BY <1>2 DEF IInv, Numbered, ActiveSlots, Active
  <2>2. endedNote' # NoNote /\ endedNote'.index = i
    BY <1>1, <2>1 DEF NoteId, NoNote
  <2>3. slots'[i].sequence = slots[i].sequence
    BY <1>1, <1>3 DEF SlotRecord
  <2> QED
    BY <2>2, <2>3 DEF EndedNumber, Outstands
<1> HIDE DEF n
<1> QED
  BY <1>2, <1>4, <1>5, <1>12, <1>13 DEF Matching!Pair

LEMMA NothingOutstanding ==
  ASSUME IInv, slots' = Deactivated, capacity' = capacity
  PROVE  Outstanding' = {}
<1>1. ActiveSlots' = {}
  BY DeactivatedType DEF IInv, ActiveSlots, Active, Slot
<1> QED
  BY <1>1 DEF Outstanding

LEMMA PairingStep == IInv /\ [Next]_vars => [Matching!Step]_(Matching!pairing)
<1> SUFFICES ASSUME IInv, [Next]_vars PROVE Matching!Step \/ UNCHANGED Matching!pairing
  OBVIOUS
<1>1. ASSUME NEW s \in Source, NEW p \in Pitch, BeginNote(s, p) PROVE Matching!Step
  BY <1>1, PairingAccept DEF Matching!Step
<1>2. ASSUME NEW s \in Source, NEW p \in Pitch, EndNote(s, p) PROVE Matching!Step
  BY <1>2, PairingPair DEF Matching!Step
<1>3. ASSUME NEW s \in Source, NEW p \in Pitch, EndUnknownNote(s, p) PROVE Matching!Step
  <2>1. Matching!Matching(s, p) = {}
    BY <1>3, MatchingSlots DEF EndUnknownNote
  <2>2. /\ Outstanding' = Outstanding /\ EndedNumber' = 0
        /\ UNCHANGED <<capacity, nextSequence>>
    BY <1>3 DEF EndUnknownNote, Outstanding, ActiveSlots, Active, Slot, EndedNumber
  <2> QED
    BY <2>1, <2>2 DEF Matching!Step, Matching!Ignore
<1>4. ASSUME NEW s \in Source, RefuseNote(s) PROVE Matching!Step
  <2>1. s \notin ValidSource \/ Cardinality(Outstanding) = capacity
    BY <1>4, AsManyOutstanding, FiniteSlots, RegistryAssumption
       DEF RefuseNote, IInv, TypeOK
  <2>2. /\ Outstanding' = Outstanding /\ EndedNumber' = 0
        /\ UNCHANGED <<capacity, nextSequence>>
    BY <1>4 DEF RefuseNote, Outstanding, ActiveSlots, Active, Slot, EndedNumber
  <2>3. Matching!Refuse(s)
    BY <2>1, <2>2, InstanceCardinality DEF Matching!Refuse
  <2> QED
    BY <2>3 DEF Matching!Step
<1>5. CASE Clear
  BY <1>5, NothingOutstanding DEF Clear, Matching!Step, Matching!EndAll, EndedNumber
<1>6. CASE Reload
  BY <1>6, NothingOutstanding DEF Reload, Matching!Step, Matching!EndAll, EndedNumber
<1>7. ASSUME NEW c \in Capacities, Configure(c) PROVE Matching!Step
  <2>1. ActiveSlots' = {}
    BY <1>7, EmptySlotsType, RegistryAssumption DEF Configure, ActiveSlots, Active, Slot
  <2> QED
    BY <1>7, <2>1 DEF Configure, Outstanding, Matching!Step, Matching!Restart, EndedNumber
<1>8. CASE UNCHANGED <<capacity, slots, nextSequence, endedNote>>
  BY <1>8 DEF Matching!pairing, Outstanding, ActiveSlots, Active, Slot, EndedNumber
<1> QED
  BY <1>1, <1>2, <1>3, <1>4, <1>5, <1>6, <1>7, <1>8
     DEF Next, vars, Forget, StartDelayedRelease

(* A Note Off ends the oldest outstanding Note On of its address and       *)
(* pitch, and a Note On is only refused for a bad address or a full        *)
(* registry: the registry implements NoteMatching.                         *)
THEOREM Refinement == Spec => PairsInOrder
<1> QED
  BY PairingInit, PairingStep, Invariance, PTL DEF Spec, PairsInOrder, Matching!Pairing
=============================================================================
