------------------------------- MODULE Pedals -------------------------------
(***************************************************************************)
(* Notes held by the sustain and sostenuto pedals: the attack voices of a  *)
(* region (Voice), the releases a trigger=release region delays (Layer),   *)
(* and the order in which the dispatch of a message visits voices, layers  *)
(* and the MIDI state (Synth).  One action per MIDI message: messages are  *)
(* dispatched one at a time by the audio thread.                           *)
(*                                                                         *)
(* Modelled is a pair of regions, one trigger=attack and one               *)
(* trigger=release, that share their key range and pedal opcodes.          *)
(***************************************************************************)
EXTENDS Naturals, Sequences, FiniteSets

CONSTANTS
  Channel,         \* source channels inside the regions' lochan .. hichan
  Omni,            \* the one scope of regions without a channel range
  Pitch,           \* note numbers inside the regions' key range
  Regions,         \* the pairs of regions a behaviour may be about
  QueueCapacity,   \* reserveDelayedReleaseCapacity
  MaxNotes         \* model bound: Note Ons in a behaviour

Region ==
  [restricted : BOOLEAN,      \* isChannelRestricted()
   checkSustain : BOOLEAN, checkSostenuto : BOOLEAN,
   rtDead : BOOLEAN, oneShot : BOOLEAN,
   cancels : BOOLEAN,         \* sustainCancelsRelease, of the synth
   numVoices : Nat,           \* voices of the engine
   sources : SUBSET Channel]  \* the channels the host sends on

ASSUME PedalAssumption ==
  /\ Channel # {} /\ Omni \notin Channel /\ Regions \subseteq Region
  /\ Pitch \subseteq 0 .. 127
  /\ QueueCapacity \in Nat /\ MaxNotes \in Nat

Scope == Channel \cup {Omni}
Pedal == {"sustain", "sostenuto"}
LayerName == {"attack", "release"}

VARIABLES
  region,      \* the pair of regions
  midi,        \* MidiState: is the pedal's CC at or above the threshold
  pressed,     \* MidiState: notes pressed, as a flag (Omni) or a count
  notes,       \* the notes in the registry
  begun,       \* Note Ons so far: the identity of the latest
  voices,      \* the voices playing, in the order they started
  layer,       \* sustainPressed, sostenutoPressed of the two layers
  sustained,   \* delayedSustainReleases_ of the release layer
  sostenuted,  \* delayedSostenutoReleases_ of the release layer
  answered     \* identities a release voice was started for

vars == <<region, midi, pressed, notes, begun, voices, layer,
          sustained, sostenuted, answered>>

NoId == 0
ScopeOf(c) == IF region.restricted THEN c ELSE Omni
Down(pedal, s) == midi[pedal][s]
Switch(pedal) == IF pedal = "sustain" THEN region.checkSustain ELSE region.checkSostenuto

-----------------------------------------------------------------------------
(* Voices.                                                                 *)

(* An attack voice; a pedal already down sustains it, but sostenuto does   *)
(* not.  Restricted regions ask their own layer, others the MIDI state.    *)
AttackVoice(c, p, id) ==
  LET IsDown(pedal) == IF region.restricted THEN layer["attack"][c][pedal]
                                            ELSE Down(pedal, Omni)
  IN [type |-> "on", channel |-> c, pitch |-> p, id |-> id, noteIsOff |-> FALSE,
      released |-> FALSE,
      sustain |-> region.checkSustain /\ IsDown("sustain"),
      sostenuto |-> IF region.checkSostenuto /\ IsDown("sostenuto") THEN "previous" ELSE "up"]

ReleaseVoice(e) ==
  [type |-> "off", channel |-> e.channel, pitch |-> e.pitch, id |-> e.id,
   noteIsOff |-> FALSE, released |-> FALSE, sustain |-> FALSE, sostenuto |-> "up"]

(* Mutant: either pedal alone does not hold. *)
HeldByBoth(v) ==
  /\ region.checkSustain /\ v.sustain
  /\ region.checkSostenuto /\ v.sostenuto = "sustaining"

Held(v) ==
  \/ region.checkSustain /\ v.sustain
  \/ region.checkSostenuto /\ v.sostenuto = "sustaining"

(* The voices that play after those of a sequence were started: as many as *)
(* there are free ones.                                                    *)
Start(vs, new) ==
  vs \o SubSeq(new, 1, IF Len(new) <= region.numVoices - Len(vs) THEN Len(new)
                       ELSE region.numVoices - Len(vs))

(* Voice::registerNoteOff                                                  *)
OwnNote(v, c, p, id) ==
  /\ v.type = "on"
  /\ IF id # NoId /\ v.id # NoId THEN v.id = id
     ELSE v.pitch = p /\ (region.restricted => v.channel = c)

VoiceNoteOff(v, c, p, id) ==
  IF OwnNote(v, c, p, id)
  THEN [v EXCEPT !.noteIsOff = TRUE, !.released = @ \/ (~region.oneShot /\ ~Held(v))]
  ELSE v

(* Voice::registerCC: what the message does to the pedal state of a voice, *)
(* then whether that releases it or cancels its release.                   *)
PedalSeen(v, pedal, down) ==
  CASE pedal = "sostenuto" /\ region.checkSustain ->
         [v EXCEPT !.sostenuto = IF ~down THEN "up" ELSE IF @ = "up" THEN "sustaining" ELSE @]
    [] pedal = "sustain" /\ region.checkSostenuto -> [v EXCEPT !.sustain = down]
    [] OTHER -> v

(* Mutant: the pedals are noted, but nothing is released. *)
VoiceCCForgetful(v, s, pedal, down) ==
  IF s \notin {Omni, v.channel} THEN v ELSE PedalSeen(v, pedal, down)

VoiceCC(v, s, pedal, down) ==
  IF s \notin {Omni, v.channel} THEN v
  ELSE LET u == PedalSeen(v, pedal, down)
           released == v.released \/ (u.noteIsOff /\ ~region.oneShot /\ ~Held(u))
           cancel == region.checkSustain /\ u.sustain /\ region.cancels /\ u.type = "on"
       IN [u EXCEPT !.released = released /\ ~cancel]

(* VoiceManager::playingAttackVoice                                        *)
AttackPlaying(vs, s) ==
  \E i \in DOMAIN vs : vs[i].type = "on" /\ s \in {Omni, vs[i].channel}

-----------------------------------------------------------------------------
(* The release layer.                                                      *)

Entry(c, p, id) == [channel |-> c, pitch |-> p, id |-> id]
InScope(e, s) == s \in {Omni, e.channel}

(* delaySustainRelease, delaySostenutoRelease: a full queue drops it.      *)
Delay(queue, e) == IF Len(queue) >= QueueCapacity THEN queue ELSE Append(queue, e)

(* Delay each entry of a sequence in turn.                                 *)
DelayAll(queue, es) ==
  queue \o SubSeq(es, 1, IF Len(es) <= QueueCapacity - Len(queue) THEN Len(es)
                         ELSE QueueCapacity - Len(queue))

(* The n-th number of a finite set, and the entries at a set of positions. *)
Nth(S, n) == CHOOSE x \in S : Cardinality({y \in S : y <= x}) = n
Kept(queue, S) == [n \in 1 .. Cardinality(S) |-> queue[Nth(S, n)]]

At(queue, s) == {i \in DOMAIN queue : InScope(queue[i], s)}
Of(queue, s) == Kept(queue, At(queue, s))
Others(queue, s) == Kept(queue, DOMAIN queue \ At(queue, s))
Matches(queue, c, p) ==
  {i \in DOMAIN queue : queue[i].pitch = p /\ InScope(queue[i], ScopeOf(c))}

(* The delayed releases of a scope that start a voice when the pedal goes  *)
(* up: none without an attack voice, unless rt_dead.                       *)
Due(queue, vs, s) ==
  IF region.rtDead \/ AttackPlaying(vs, s) THEN Of(queue, s) ELSE <<>>
Voiced(es) == [i \in DOMAIN es |-> ReleaseVoice(es[i])]
IdsOf(es) == {es[i].id : i \in DOMAIN es} \ {NoId}

(* storeSostenutoNotes: an entry for each pitch pressed, without identity. *)
Stored(c) ==
  LET s == ScopeOf(c)
      held == {p \in Pitch : pressed[s][p] > 0}
  IN [n \in 1 .. Cardinality(held) |-> Entry(c, Nth(held, n), NoId)]

-----------------------------------------------------------------------------
(* The messages.                                                           *)

NoteOn(c, p) ==
  /\ begun < MaxNotes
  /\ begun' = begun + 1
  /\ notes' = notes \cup {Entry(c, p, begun')}
  /\ pressed' = [pressed EXCEPT ![Omni][p] = 1, ![c][p] = @ + 1]
  /\ voices' = Start(voices, <<AttackVoice(c, p, begun')>>)
  /\ UNCHANGED <<region, midi, layer, sustained, sostenuted, answered>>

(* The identity endNote returns.                                           *)
Ended(c, p) ==
  LET ids == {n.id : n \in {m \in notes : m.channel = c /\ m.pitch = p}}
  IN IF ids = {} THEN NoId ELSE CHOOSE i \in ids : \A j \in ids : i <= j

(* The sostenuto release of a note gets the identity of the note.          *)
Identified(queue, c, p, id) ==
  LET blank == {i \in Matches(queue, c, p) : queue[i].id = NoId}
  IN IF id = NoId \/ blank = {} THEN queue
     ELSE [queue EXCEPT ![CHOOSE i \in blank : \A j \in blank : i <= j] = Entry(c, p, id)]

(* Layer::registerNoteOff and the voice noteOffDispatch starts.  An entry  *)
(* of the sostenuto queue implies that the pedal is pressed (see           *)
(* SostenutoQueueGuarded), so the branch for a lifted pedal has no case.   *)
NoteOff(c, p) ==
  LET id == Ended(c, p)
      e == Entry(c, p, id)
      vs == [i \in DOMAIN voices |-> VoiceNoteOff(voices[i], c, p, id)]
      l == layer["release"][ScopeOf(c)]
      captured == l["sostenuto"] /\ Matches(sostenuted, c, p) # {}
      plays == ~captured /\ ~l["sustain"] /\ (region.rtDead \/ AttackPlaying(vs, ScopeOf(c)))
  IN /\ notes' = {n \in notes : n.id # id}
     /\ pressed' = [pressed EXCEPT ![Omni][p] = 0, ![c][p] = IF @ > 0 THEN @ - 1 ELSE 0]
     /\ sostenuted' = Identified(sostenuted, c, p, id)
     /\ sustained' = IF ~captured /\ l["sustain"] THEN Delay(sustained, e) ELSE sustained
     /\ voices' = IF plays THEN Start(vs, <<ReleaseVoice(e)>>) ELSE vs
     /\ answered' = IF plays THEN answered \cup ({id} \ {NoId}) ELSE answered
     /\ UNCHANGED <<region, midi, begun, layer>>

MidiPedal(c, pedal, down) ==
  midi' = [midi EXCEPT ![pedal] = [@ EXCEPT ![Omni] = down, ![c] = down]]

(* updateCCState of the release layer.  The attack layer is not notified:  *)
(* ccActivationLists_ only has layers with trigger=release.                *)
LayerPedal(c, pedal, down) ==
  layer' = [layer EXCEPT !["release"][ScopeOf(c)][pedal] = Switch(pedal) /\ down]

PressPedal(c, pedal) ==
  LET stores == pedal = "sostenuto" /\ region.checkSostenuto
                  /\ ~layer["release"][ScopeOf(c)]["sostenuto"]
  IN /\ voices' = [i \in DOMAIN voices |-> VoiceCC(voices[i], ScopeOf(c), pedal, TRUE)]
     /\ sostenuted' = IF stores THEN DelayAll(sostenuted, Stored(c)) ELSE sostenuted
     /\ LayerPedal(c, pedal, TRUE) /\ MidiPedal(c, pedal, TRUE)
     /\ UNCHANGED <<region, pressed, notes, begun, sustained, answered>>

(* Mutant: the releases started stay in the queue. *)
LiftSustainKeeping(c) ==
  LET s == ScopeOf(c)
      vs == [i \in DOMAIN voices |-> VoiceCC(voices[i], s, "sustain", FALSE)]
      due == IF region.checkSustain THEN Due(sustained, vs, s) ELSE <<>>
  IN /\ voices' = Start(vs, Voiced(due))
     /\ answered' = answered \cup IdsOf(due)
     /\ LayerPedal(c, "sustain", FALSE) /\ MidiPedal(c, "sustain", FALSE)
     /\ UNCHANGED <<region, pressed, notes, begun, sustained, sostenuted>>

LiftSustain(c) ==
  LET s == ScopeOf(c)
      vs == [i \in DOMAIN voices |-> VoiceCC(voices[i], s, "sustain", FALSE)]
      due == IF region.checkSustain THEN Due(sustained, vs, s) ELSE <<>>
  IN /\ voices' = Start(vs, Voiced(due))
     /\ answered' = answered \cup IdsOf(due)
     /\ sustained' = IF region.checkSustain THEN Others(sustained, s) ELSE sustained
     /\ LayerPedal(c, "sustain", FALSE) /\ MidiPedal(c, "sustain", FALSE)
     /\ UNCHANGED <<region, pressed, notes, begun, sostenuted>>

(* Mutant: the entries the sustain pedal takes over stay. *)
LiftSostenutoTwice(c) ==
  LET s == ScopeOf(c)
      vs == [i \in DOMAIN voices |-> VoiceCC(voices[i], s, "sostenuto", FALSE)]
      passOn == region.checkSostenuto /\ layer["release"][s]["sustain"]
      due == IF region.checkSostenuto /\ ~passOn THEN Due(sostenuted, vs, s) ELSE <<>>
  IN /\ voices' = Start(vs, Voiced(due))
     /\ answered' = answered \cup IdsOf(due)
     /\ sustained' = IF passOn THEN DelayAll(sustained, Of(sostenuted, s)) ELSE sustained
     /\ sostenuted' = IF passOn THEN sostenuted ELSE Others(sostenuted, s)
     /\ LayerPedal(c, "sostenuto", FALSE) /\ MidiPedal(c, "sostenuto", FALSE)
     /\ UNCHANGED <<region, pressed, notes, begun>>

(* The releases pass to the sustain pedal if that is down.                 *)
LiftSostenuto(c) ==
  LET s == ScopeOf(c)
      vs == [i \in DOMAIN voices |-> VoiceCC(voices[i], s, "sostenuto", FALSE)]
      passOn == region.checkSostenuto /\ layer["release"][s]["sustain"]
      due == IF region.checkSostenuto /\ ~passOn THEN Due(sostenuted, vs, s) ELSE <<>>
  IN /\ voices' = Start(vs, Voiced(due))
     /\ answered' = answered \cup IdsOf(due)
     /\ sustained' = IF passOn THEN DelayAll(sustained, Of(sostenuted, s)) ELSE sustained
     /\ sostenuted' = IF region.checkSostenuto THEN Others(sostenuted, s) ELSE sostenuted
     /\ LayerPedal(c, "sostenuto", FALSE) /\ MidiPedal(c, "sostenuto", FALSE)
     /\ UNCHANGED <<region, pressed, notes, begun>>

PedalsUp == [pedal \in Pedal |-> [s \in Scope |-> FALSE]]
LayersUp == [n \in LayerName |-> [s \in Scope |-> [pedal \in Pedal |-> FALSE]]]

(* Reset All Controllers (with default values below the thresholds): every *)
(* voice sees both pedals lifted, the layers forget the sostenuto queue.   *)
ResetAllControllers ==
  LET Lifted(v) == VoiceCC(VoiceCC(v, Omni, "sustain", FALSE), Omni, "sostenuto", FALSE)
  IN /\ voices' = [i \in DOMAIN voices |-> Lifted(voices[i])]
     /\ midi' = PedalsUp /\ layer' = LayersUp
     /\ sostenuted' = Kept(sostenuted, {i \in DOMAIN sostenuted :
          ~layer["release"][ScopeOf(sostenuted[i].channel)]["sostenuto"]})
     /\ UNCHANGED <<region, pressed, notes, begun, sustained, answered>>

(* All Sound Off, All Notes Off: the pedals and the queues stay.           *)
AllNotesOff ==
  /\ voices' = <<>> /\ notes' = {}
  /\ pressed' = [s \in Scope |-> [p \in Pitch |-> 0]]
  /\ UNCHANGED <<region, midi, begun, layer, sustained, sostenuted, answered>>

(* allSoundOff(): the keys stay pressed as well.                           *)
AllSoundOff ==
  /\ voices' = <<>> /\ notes' = {}
  /\ UNCHANGED <<region, midi, pressed, begun, layer, sustained, sostenuted, answered>>

(* A voice has played its sample or its release, or is stolen.             *)
EndVoice(i) ==
  /\ voices' = [j \in 1 .. Len(voices) - 1 |-> IF j < i THEN voices[j] ELSE voices[j + 1]]
  /\ UNCHANGED <<region, midi, pressed, notes, begun, layer, sustained, sostenuted, answered>>

-----------------------------------------------------------------------------
(* The instrument may be loaded while pedals are down.                     *)
Init ==
  /\ region \in Regions
  /\ \E down \in [Pedal -> BOOLEAN] :
       /\ midi = [pedal \in Pedal |-> [s \in Scope |-> down[pedal]]]
       /\ layer = [n \in LayerName |-> [s \in Scope |->
                     [pedal \in Pedal |-> Switch(pedal) /\ down[pedal]]]]
  /\ pressed = [s \in Scope |-> [p \in Pitch |-> 0]]
  /\ notes = {} /\ begun = 0 /\ voices = <<>>
  /\ sustained = <<>> /\ sostenuted = <<>> /\ answered = {}

Next ==
  \/ \E c \in region.sources, p \in Pitch : NoteOn(c, p) \/ NoteOff(c, p)
  \/ \E c \in region.sources, pedal \in Pedal : PressPedal(c, pedal)
  \/ \E c \in region.sources : LiftSustain(c) \/ LiftSostenuto(c)
  \/ ResetAllControllers \/ AllNotesOff \/ AllSoundOff
  \/ \E i \in DOMAIN voices : EndVoice(i)

Spec == Init /\ [][Next]_vars

-----------------------------------------------------------------------------
VoiceRecord ==
  [type : {"on", "off"}, channel : Channel, pitch : Pitch, id : Nat,
   noteIsOff : BOOLEAN, released : BOOLEAN, sustain : BOOLEAN,
   sostenuto : {"up", "sustaining", "previous"}]
EntryRecord == [channel : Channel, pitch : Pitch, id : Nat]

TypeOK ==
  /\ region \in Regions
  /\ midi \in [Pedal -> [Scope -> BOOLEAN]]
  /\ pressed \in [Scope -> [Pitch -> Nat]]
  /\ notes \subseteq EntryRecord /\ begun \in Nat
  /\ voices \in Seq(VoiceRecord) /\ Len(voices) <= region.numVoices
  /\ layer \in [LayerName -> [Scope -> [Pedal -> BOOLEAN]]]
  /\ sustained \in Seq(EntryRecord) /\ Len(sustained) <= QueueCapacity
  /\ sostenuted \in Seq(EntryRecord) /\ Len(sostenuted) <= QueueCapacity
  /\ answered \subseteq Nat

(* A voice of a region without a channel range sounds on after its key     *)
(* went up only as long as a pedal that the region heeds is down: no order *)
(* of messages leaves a note hanging (as in tests/SynthT.cpp:1042, for a   *)
(* note started after the pedal).                                          *)
HeldByPedal ==
  \A i \in DOMAIN voices :
    LET v == voices[i] IN
    v.type = "on" /\ v.noteIsOff /\ ~v.released /\ ~region.oneShot =>
      region.restricted \/ \E pedal \in Pedal : Switch(pedal) /\ Down(pedal, Omni)

(* The sustain pedal of a region that heeds it holds every note: none is   *)
(* released while that pedal is down, whichever came first (as in          *)
(* tests/SynthT.cpp:1037).                                                 *)
LetGo(i) ==
  /\ Switch("sustain") /\ voices[i].type = "on" /\ voices[i].id = voices'[i].id
  /\ ~voices[i].released /\ voices'[i].released
SustainHolds ==
  [][\A i \in DOMAIN voices \cap DOMAIN voices' :
       LetGo(i) => ~Down("sustain", ScopeOf(voices[i].channel))']_vars

(* The same of regions without a channel range.                            *)
SustainHoldsOmni ==
  [][\A i \in DOMAIN voices \cap DOMAIN voices' :
       LetGo(i) => region.restricted \/ ~Down("sustain", Omni)']_vars

(* Releases wait for the sostenuto pedal only while it is pressed: the     *)
(* assertion of storeSostenutoNotes (Layer.cpp:455), for every scope.      *)
SostenutoQueueGuarded ==
  \A i \in DOMAIN sostenuted :
    layer["release"][ScopeOf(sostenuted[i].channel)]["sostenuto"]

(* The queues drain once: the release of a note is delayed or started, and *)
(* in one place only.                                                      *)
IdPlaces(id) ==
  {<<"sustain", i>> : i \in {j \in DOMAIN sustained : sustained[j].id = id}}
    \cup {<<"sostenuto", i>> : i \in {j \in DOMAIN sostenuted : sostenuted[j].id = id}}
QueuesDrainOnce ==
  \A id \in 1 .. begun :
    Cardinality(IdPlaces(id)) + (IF id \in answered THEN 1 ELSE 0)
      + Cardinality({n \in notes : n.id = id}) <= 1
=============================================================================
