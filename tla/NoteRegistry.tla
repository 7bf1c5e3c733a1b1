---------------------------- MODULE NoteRegistry ----------------------------
(***************************************************************************)
(* The registry of logical notes (src/sfizz/NoteRegistry.cpp) and the      *)
(* clients that remember its identities: the voices started by a note, and *)
(* the delayed releases a layer queues while a pedal is down.              *)
(*                                                                         *)
(* An identity is a slot index and the generation the slot had.  The       *)
(* generation is a 16-bit counter that skips 0; its width is a parameter.  *)
(***************************************************************************)
EXTENDS Naturals, FiniteSets

CONSTANTS
  Source,       \* source addresses a caller may pass
  ValidSource,  \* those with group and channel below 16
  Pitch,        \* note numbers
  Capacities,   \* sizes the registry may be configured with
  Generations,  \* number of values of the generation counter (2^16)
  MaxNotes,     \* model bound: notes begun after a configuration
  MaxKept,      \* model bound: identities remembered at a time
  MaxEpoch      \* model bound: reconfigurations

ASSUME RegistryAssumption ==
  /\ ValidSource \subseteq Source
  /\ Source # {} /\ Pitch # {}
  /\ Capacities \subseteq Nat
  /\ Generations \in Nat /\ Generations > 2
  /\ MaxNotes \in Nat /\ MaxKept \in Nat /\ MaxEpoch \in Nat

VARIABLES
  capacity,       \* slots_.size()
  slots,          \* slots_
  nextSequence,   \* nextSequence_
  activeCount,    \* activeCount_
  endedNote,      \* what the last call to endNote returned
  epoch,          \* number of configurations: with the sequence, names a note
  kept            \* identities the clients remember

vars == <<capacity, slots, nextSequence, activeCount, endedNote, epoch, kept>>

Slot == 0 .. capacity - 1
Active(i) == slots[i].active
ActiveSlots == {i \in Slot : Active(i)}

NoNote == [index |-> 0, generation |-> 0]
NoteId(i) == [index |-> i, generation |-> slots[i].generation]

(* contains: the identity is valid and names the note now in its slot.     *)
Contains(id) ==
  id.generation # 0 /\ id.index \in Slot /\ Active(id.index)
    /\ slots[id.index].generation = id.generation

(* A remembered identity.  The sequence and the epoch tell which note it   *)
(* was given for, age how often its slot was reused since.                 *)
Remembered(i, g, n, client) ==
  [index |-> i, generation |-> g, sequence |-> n, epoch |-> epoch,
   age |-> 0, client |-> client]

-----------------------------------------------------------------------------
EmptySlots(n) ==
  [i \in 0 .. n - 1 |-> [source |-> CHOOSE s \in Source : TRUE,
                         noteNumber |-> CHOOSE p \in Pitch : TRUE,
                         sequence |-> 0, generation |-> 0, active |-> FALSE]]

(* Mutant: the generation is a toggle. *)
NextGenerationToggle(g) == IF g = 1 THEN 2 ELSE 1

NextGeneration(g) == IF g + 1 = Generations THEN 1 ELSE g + 1

FirstFree(i) == i \in Slot \ ActiveSlots /\ \A j \in Slot \ ActiveSlots : i <= j

Aged(i) == {[k EXCEPT !.age = IF k.epoch = epoch /\ k.index = i THEN @ + 1 ELSE @] : k \in kept}

(* beginNote with a free slot; a note that starts a voice is remembered.   *)
BeginNote(s, p) ==
  /\ nextSequence <= MaxNotes
  /\ s \in ValidSource
  /\ \E i \in Slot :
       LET g == NextGeneration(slots[i].generation) IN
       /\ FirstFree(i)
       /\ slots' = [slots EXCEPT ![i] = [source |-> s, noteNumber |-> p,
                      sequence |-> nextSequence, generation |-> g, active |-> TRUE]]
       /\ \/ kept' = Aged(i)
          \/ /\ Cardinality(kept) < MaxKept
             /\ kept' = Aged(i) \cup {Remembered(i, g, nextSequence, "voice")}
  /\ nextSequence' = nextSequence + 1
  /\ activeCount' = activeCount + 1
  /\ endedNote' = NoNote
  /\ UNCHANGED <<capacity, epoch>>

(* beginNote with a bad address or no free slot: only counted.             *)
RefuseNote(s) ==
  /\ s \notin ValidSource \/ ActiveSlots = Slot
  /\ endedNote' = NoNote
  /\ UNCHANGED <<capacity, slots, nextSequence, activeCount, epoch, kept>>

Matches(i, s, p) == i \in ActiveSlots /\ slots[i].source = s /\ slots[i].noteNumber = p

(* Mutant: last in, first out. *)
EndNoteNewest(s, p) ==
  /\ \E i \in Slot :
       /\ Matches(i, s, p)
       /\ \A j \in Slot : Matches(j, s, p) => slots[i].sequence >= slots[j].sequence
       /\ slots' = [slots EXCEPT ![i].active = FALSE]
       /\ endedNote' = NoteId(i)
  /\ activeCount' = activeCount - 1
  /\ UNCHANGED <<capacity, nextSequence, epoch, kept>>

(* endNote: the oldest active note of the address and pitch.  A layer that *)
(* delays the release of the note remembers its identity.                  *)
EndNote(s, p) ==
  /\ \E i \in Slot :
       /\ Matches(i, s, p)
       /\ \A j \in Slot : Matches(j, s, p) => slots[i].sequence <= slots[j].sequence
       /\ slots' = [slots EXCEPT ![i].active = FALSE]
       /\ endedNote' = NoteId(i)
       /\ \/ UNCHANGED kept
          \/ /\ Cardinality(kept) < MaxKept
             /\ kept' = kept \cup {Remembered(i, slots[i].generation, slots[i].sequence, "layer")}
  /\ activeCount' = activeCount - 1
  /\ UNCHANGED <<capacity, nextSequence, epoch>>

EndUnknownNote(s, p) ==
  /\ \A i \in Slot : ~Matches(i, s, p)
  /\ endedNote' = NoNote
  /\ UNCHANGED <<capacity, slots, nextSequence, activeCount, epoch, kept>>

Deactivated == [i \in Slot |-> [slots[i] EXCEPT !.active = FALSE]]
LayersOnly == {k \in kept : k.client = "layer"}

(* clear, called when all voices were reset (All Sound Off, All Notes Off, *)
(* allSoundOff()); the queues of the layers are left alone.                *)
Clear ==
  /\ slots' = Deactivated
  /\ activeCount' = 0
  /\ endedNote' = NoNote /\ kept' = LayersOnly
  /\ UNCHANGED <<capacity, nextSequence, epoch>>

(* The same on loading a file, which also drops the layers.                *)
Reload ==
  /\ slots' = Deactivated
  /\ activeCount' = 0
  /\ endedNote' = NoNote /\ kept' = {}
  /\ UNCHANGED <<capacity, nextSequence, epoch>>

(* configure, called when the number of voices changes: the voices are     *)
(* made anew, the layers and their queues stay.                            *)
Configure(c) ==
  /\ epoch < MaxEpoch
  /\ capacity' = c /\ slots' = EmptySlots(c)
  /\ nextSequence' = 1 /\ activeCount' = 0
  /\ endedNote' = NoNote /\ kept' = LayersOnly
  /\ epoch' = epoch + 1

(* A voice ends, or a delayed release is started as a voice of its own.    *)
Forget(k) ==
  /\ kept' = kept \ {k}
  /\ UNCHANGED <<capacity, slots, nextSequence, activeCount, endedNote, epoch>>

StartDelayedRelease(k) ==
  /\ k.client = "layer"
  /\ kept' = (kept \ {k}) \cup {[k EXCEPT !.client = "voice"]}
  /\ UNCHANGED <<capacity, slots, nextSequence, activeCount, endedNote, epoch>>

-----------------------------------------------------------------------------
Init ==
  /\ capacity \in Capacities /\ slots = EmptySlots(capacity)
  /\ nextSequence = 1 /\ activeCount = 0
  /\ endedNote = NoNote /\ epoch = 0 /\ kept = {}

Next ==
  \/ \E s \in Source, p \in Pitch : BeginNote(s, p) \/ EndNote(s, p) \/ EndUnknownNote(s, p)
  \/ \E s \in Source : RefuseNote(s)
  \/ Clear \/ Reload
  \/ \E c \in Capacities : Configure(c)
  \/ \E k \in kept : Forget(k) \/ StartDelayedRelease(k)

Spec == Init /\ [][Next]_vars

-----------------------------------------------------------------------------
SlotRecord ==
  [source : Source, noteNumber : Pitch, sequence : Nat,
   generation : 0 .. Generations - 1, active : BOOLEAN]
Identity ==
  [index : Nat, generation : 1 .. Generations - 1, sequence : Nat, epoch : Nat,
   age : Nat, client : {"voice", "layer"}]

TypeOK ==
  /\ capacity \in Capacities
  /\ slots \in [Slot -> SlotRecord]
  /\ nextSequence \in Nat \ {0} /\ activeCount \in Nat
  /\ endedNote = NoNote \/ endedNote \in [index : Slot, generation : 1 .. Generations - 1]
  /\ epoch \in Nat
  /\ kept \subseteq Identity

SameNote(k) == k.epoch = epoch /\ slots[k.index].sequence = k.sequence

(* As long as the registry is not reconfigured, a remembered identity that *)
(* still names a slot names its own note: a reused slot is told apart by   *)
(* its generation until that counter has come round.                       *)
GenerationGuards ==
  \A k \in kept : k.epoch = epoch /\ Contains(k) =>
    SameNote(k) \/ nextSequence - k.sequence >= Generations

(* activeCount() is the number of outstanding notes.                       *)
CountsActiveNotes == activeCount = Cardinality(ActiveSlots)

(* The registry pairs Note Off with Note On first in, first out.           *)
Outstanding ==
  {[source |-> slots[i].source, pitch |-> slots[i].noteNumber,
    number |-> slots[i].sequence] : i \in ActiveSlots}
EndedNumber == IF endedNote = NoNote THEN 0 ELSE slots[endedNote.index].sequence

Matching == INSTANCE NoteMatching WITH
  pending <- Outstanding, next <- nextSequence, ended <- EndedNumber
PairsInOrder == Matching!Pairing

=============================================================================
