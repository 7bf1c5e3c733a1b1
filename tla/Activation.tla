----------------------------- MODULE Activation -----------------------------
(***************************************************************************)
(* Which layers a message may start: the switches a Layer keeps (key       *)
(* switches, sequence, wheel, pressure, program, controllers), for a layer *)
(* with a channel range once per source channel, the lists Synth visits    *)
(* them through, and the part of MidiState they are compared with.  One    *)
(* action per MIDI message; MPE is off.                                    *)
(*                                                                         *)
(* Left out are velocity, random and timer ranges (they hold), releases    *)
(* and pedals (Pedals), polyphony (Voices) and layers that combine sw_last,*)
(* sw_down and sw_up.                                                      *)
(***************************************************************************)
EXTENDS Integers, Sequences, FiniteSetsExt

CONSTANTS
  Channel,      \* source channels
  Omni,         \* the one scope of layers without a channel range
  Key,          \* note numbers
  Level,        \* values of the wheel, pressure and controllers; 0 at rest
  Program,      \* program numbers; 0 at the start
  Control,      \* controllers the host sends
  None,
  Instruments,  \* the instruments a behaviour may be about
  AllNotes,     \* notes of MidiState::allNotesOff
  MaxHeld       \* model bound: presses that are counted at a time

(* The extended controllers that follow the wheel and the pressures.       *)
WheelCC == 128
PressureCC == 129
PolyCC == 130
Extended == {WheelCC, PressureCC, PolyCC}
AnyControl == Control \cup Extended
Scope == Channel \cup {Omni}

Layer ==
  [restricted : BOOLEAN, channels : SUBSET Channel,  \* lochan .. hichan
   keys : SUBSET Key,
   last : SUBSET Key,      \* sw_last, sw_lolast .. sw_hilast
   down : SUBSET Key, up : SUBSET Key, previous : SUBSET Key,
   sequence : {q \in Nat \X Nat : q[2] \in 1..q[1]},  \* seq_length, seq_position
   positioned : BOOLEAN,   \* usesSequenceSwitches
   trigger : {"attack", "first", "legato"}, onNote : BOOLEAN,
   wheel : SUBSET Level, pressure : SUBSET Level, poly : SUBSET Level,
   programs : SUBSET Program,
   conditions : [AnyControl -> SUBSET Level],  \* loccN .. hiccN
   triggers : [AnyControl -> SUBSET Level],    \* on_loccN .. on_hiccN
   group : Nat, offBy : Nat]                   \* 0: none

ASSUME ActivationAssumption ==
  /\ 0 \in Channel /\ Omni \notin Channel /\ None \notin Key
  /\ Control \cap Extended = {} /\ 0 \in Level /\ 0 \in Program
  /\ AllNotes \in Nat /\ MaxHeld \in Nat
  /\ \A i \in Instruments :
       /\ i.layers \in Seq(Layer) /\ i.default \in Key \cup {None}
       /\ i.sends \subseteq {"key", "wheel", "pressure", "poly", "program", "control", "reset"}
       /\ \A n \in DOMAIN i.layers : \A f, g \in {"last", "down", "up"} :
            f # g => i.layers[n][f] = {} \/ i.layers[n][g] = {}

VARIABLES
  instrument,
  switches,       \* per layer and scope
  currentSwitch,  \* currentSwitch_ (Omni), sourceCurrentSwitch_
  midi,           \* MidiState
  voices,         \* the voices a choke can end
  started,        \* history: what the latest note started voices of
  source,         \* history: the source it is from, if it is of one
  held,           \* history: presses without a release
  silenced,       \* history: notes were silenced while keys stayed down
  centred         \* history: scopes whose wheel a reset moved

vars == <<instrument, switches, currentSwitch, midi, voices, started, source, held,
          silenced, centred>>

L == instrument.layers
ScopesOf(l) == IF l.restricted THEN l.channels ELSE {Omni}
Hears(l, c) == ~l.restricted \/ c \in l.channels    \* isSourceChannelEligible
ScopeOf(l, c) == IF l.restricted THEN c ELSE Omni

-----------------------------------------------------------------------------
(* The switches of a layer.                                                *)

(* Layer::initializeActivations and what finalizeSfzLoad adds.             *)
Initial(l, s, m, default) ==
  [key |-> IF l.last # {} THEN default \in l.last ELSE l.down = {},
   previous |-> l.previous = {},
   sequence |-> ~l.positioned,
   counter |-> 0,
   wheel |-> m.wheel[s] \in l.wheel,
   pressure |-> m.pressure[s] \in l.pressure,
   program |-> m.program[Omni] \in l.programs,
   off |-> {x \in AnyControl : m.controls[s][x] \notin l.conditions[x]}]

Loaded(i, m) ==
  [n \in DOMAIN i.layers |->
     [s \in ScopesOf(i.layers[n]) |-> Initial(i.layers[n], s, m, i.default)]]

(* Layer::isSwitchedOn; a layer with a channel range asks for the program  *)
(* of the source.                                                          *)
SwitchedOn(l, sw, c, m) ==
  LET s == ScopeOf(l, c)
      f == sw[s]
  IN /\ Hears(l, c)
     /\ f.key /\ f.previous /\ f.sequence /\ f.wheel /\ f.pressure /\ f.off = {}
     /\ IF l.restricted THEN m.program[c] \in l.programs ELSE f.program

(* The sequence moves on.                                                  *)
Counted(l, sw, s) ==
  [sw EXCEPT ![s].sequence = (sw[s].counter = l.sequence[2] - 1),
             ![s].counter = (@ + 1) % l.sequence[1]]

(* Layer::setKeySwitched, for the layers whose list holds the key of one   *)
(* of the presses <<channel, key>>.                                        *)
KeySwitched(all, field, presses, on) ==
  [n \in DOMAIN all |->
     LET reached == {ScopeOf(L[n], p[1]) : p \in {q \in presses :
                       Hears(L[n], q[1]) /\ q[2] \in L[n][field]}}
     IN [s \in DOMAIN all[n] |->
           IF s \in reached THEN [all[n][s] EXCEPT !.key = on] ELSE all[n][s]]]

Pressed(all, press) ==
  KeySwitched(KeySwitched(all, "up", {press}, FALSE), "down", {press}, TRUE)

Lifted(all, presses) ==
  KeySwitched(KeySwitched(all, "up", presses, TRUE), "down", presses, FALSE)

IsLast(k) == \E n \in DOMAIN L : k \in L[n].last

(* The layers in reach of a message of channel c that the last key switch  *)
(* selected.                                                               *)
Leaves(n, k, c) ==
  LET s == ScopeOf(L[n], c)
  IN Hears(L[n], c) /\ currentSwitch[s] # k /\ currentSwitch[s] \in L[n].last

(* Mutant: sources share the key switch that is left. *)
SelectedOmni(all, c, k) ==
  LET left(n) == Hears(L[n], c) /\ currentSwitch[Omni] # k /\ currentSwitch[Omni] \in L[n].last
      off == [n \in DOMAIN all |->
                IF left(n) THEN [all[n] EXCEPT ![ScopeOf(L[n], c)].key = FALSE] ELSE all[n]]
  IN IF IsLast(k) THEN KeySwitched(off, "last", {<<c, k>>}, TRUE) ELSE all

(* One key switch is left for another, whose layers are switched on.       *)
Selected(all, c, k) ==
  LET off == [n \in DOMAIN all |->
                IF Leaves(n, k, c)
                THEN [all[n] EXCEPT ![ScopeOf(L[n], c)].key = FALSE] ELSE all[n]]
  IN IF IsLast(k) THEN KeySwitched(off, "last", {<<c, k>>}, TRUE) ELSE all

(* Layer::setPreviousKeySwitched, after the dispatch of a note.            *)
Previous(all, c, k) ==
  [n \in DOMAIN all |->
     IF L[n].previous # {} /\ Hears(L[n], c)
     THEN [all[n] EXCEPT ![ScopeOf(L[n], c)].previous = (k \in L[n].previous)] ELSE all[n]]

-----------------------------------------------------------------------------
(* The dispatch of a message: layers in order, each with what those before *)
(* it have done.  r is [all, voices, started].                             *)

(* Voice::checkOffGroup                                                    *)
Chokes(r, v, l, number, c) ==
  LET own == L[v.layer]
  IN /\ own.restricted => v.channel = c
     /\ own.offBy # 0 /\ own.offBy = l.group
     /\ \/ own.group # l.group
        \/ r.all[v.layer][ScopeOf(own, v.channel)].off # {}
        \/ number # v.number

(* Mutant: a controller releases the notes that it chokes. *)
StartReleasing(r, n, number, c, byNote) ==
  LET choked == {v \in r.voices : Chokes(r, v, L[n], number, c)}
      lifted == {<<v.channel, v.number>> : v \in {w \in choked : w.ofNote}}
  IN [all |-> Lifted(r.all, lifted),
      voices |-> (r.voices \ choked)
                 \cup {v \in {[layer |-> n, channel |-> c, number |-> number, ofNote |-> byNote]} :
                         L[n].offBy # 0},
      started |-> IF byNote THEN r.started \cup {<<n, c, number>>} ELSE r.started]

(* checkOffGroups and startVoice: the note of a voice that is choked by a  *)
(* note counts as released, though its key is down.                        *)
Start(r, n, number, c, byNote) ==
  LET choked == {v \in r.voices : Chokes(r, v, L[n], number, c)}
      lifted == {<<v.channel, v.number>> : v \in {w \in choked : byNote /\ w.ofNote}}
  IN [all |-> Lifted(r.all, lifted),
      voices |-> (r.voices \ choked)
                 \cup {v \in {[layer |-> n, channel |-> c, number |-> number, ofNote |-> byNote]} :
                         L[n].offBy # 0},
      started |-> IF byNote THEN r.started \cup {<<n, c, number>>} ELSE r.started]

Active(l, c, m) == IF l.restricted THEN m.notes[c] ELSE m.active

(* Mutant: the round moves on only for a layer that is switched on. *)
NoteCountedIfOn(all, n, c, m) ==
  LET counted == [all EXCEPT ![n] = Counted(L[n], @, ScopeOf(L[n], c))]
  IN IF all[n][ScopeOf(L[n], c)].off = {} THEN counted ELSE all

NoteCounted(all, n, c, m) == [all EXCEPT ![n] = Counted(L[n], @, ScopeOf(L[n], c))]

(* Mutant: every source counts the notes of all. *)
TriggersOmni(l, c, m) ==
  \/ l.trigger = "attack"
  \/ l.trigger = "first" /\ m.active = 1
  \/ l.trigger = "legato" /\ m.active > 1

Triggers(l, c, m) ==
  \/ l.trigger = "attack"
  \/ l.trigger = "first" /\ Active(l, c, m) = 1
  \/ l.trigger = "legato" /\ Active(l, c, m) > 1

(* Layer::registerNoteOn                                                   *)
RegisterNoteOn(r, n, c, k, m) ==
  LET all == NoteCounted(r.all, n, c, m)
  IN IF ~Hears(L[n], c) THEN r
     ELSE IF /\ SwitchedOn(L[n], all[n], c, m)
             /\ m.poly[<<ScopeOf(L[n], c), k>>] \in L[n].poly
             /\ L[n].onNote /\ Triggers(L[n], c, m)
          THEN Start([r EXCEPT !.all = all], n, k, c, TRUE)
          ELSE [r EXCEPT !.all = all]

NoteOnDispatch(all, c, k, m) ==
  LET after[n \in 0..Len(L)] ==
        IF n = 0 THEN [all |-> all, voices |-> voices, started |-> {}]
        ELSE IF k \in L[n].keys THEN RegisterNoteOn(after[n - 1], n, c, k, m)
        ELSE after[n - 1]
  IN after[Len(L)]

(* Layer::updateCCState                                                    *)
ControlSeen(l, sw, scopes, x, v) ==
  [s \in DOMAIN sw |->
     IF s \notin scopes THEN sw[s]
     ELSE [sw[s] EXCEPT !.off = IF v \in l.conditions[x] THEN @ \ {x} ELSE @ \cup {x}]]

(* Layer::registerCC for the source of the message; a control that is not  *)
(* scoped first reaches the switches of every source.                      *)
RegisterCC(r, n, c, x, v, scoped, k, m) ==
  LET l == L[n]
      reached == IF l.restricted /\ scoped THEN {c} \cap l.channels ELSE ScopesOf(l)
      seen == [r.all EXCEPT ![n] = ControlSeen(l, @, reached, x, v)]
      counted == [seen EXCEPT ![n] = Counted(l, @, ScopeOf(l, c))]
  IN IF ~(Hears(l, c) /\ v \in l.triggers[x] /\ (x = PolyCC => k \in l.keys))
     THEN [r EXCEPT !.all = seen]
     ELSE IF /\ SwitchedOn(l, counted[n], c, m)
             /\ x = PolyCC \/ v # m.controls[ScopeOf(l, c)][x]
          THEN Start([r EXCEPT !.all = counted], n, x, c, FALSE)
          ELSE [r EXCEPT !.all = counted]

CCDispatch(all, c, x, v, scoped, k, m) ==
  LET after[n \in 0..Len(L)] ==
        IF n = 0 THEN [all |-> all, voices |-> voices, started |-> {}]
        ELSE RegisterCC(after[n - 1], n, c, x, v, scoped, k, m)
  IN after[Len(L)]

(* Mutant: what reaches all sources is noted for one of them. *)
ControlStoredOnce(m, c, x, v, scoped) ==
  [m EXCEPT !.controls =
     [s \in Scope |-> IF s \in {Omni, c} THEN [@[s] EXCEPT ![x] = v] ELSE @[s]]]

(* MidiState::ccEvent and sourceCCEvent, after the dispatch.               *)
ControlStored(m, c, x, v, scoped) ==
  [m EXCEPT !.controls =
     [s \in Scope |-> IF s \in {Omni, c} \/ ~scoped THEN [@[s] EXCEPT ![x] = v] ELSE @[s]]]

-----------------------------------------------------------------------------
NoPress == [p \in Channel \X Key |-> 0]
NoNote == [c \in Channel |-> 0]
Sends(kind) == kind \in instrument.sends

Init ==
  /\ instrument \in Instruments
  /\ midi = [wheel |-> [s \in Scope |-> 0], pressure |-> [s \in Scope |-> 0],
             program |-> [s \in Scope |-> 0], poly |-> [p \in Scope \X Key |-> 0],
             controls |-> [s \in Scope |-> [x \in AnyControl |-> 0]],
             counts |-> NoPress, notes |-> NoNote, active |-> 0]
  /\ switches = Loaded(instrument, midi)
  /\ currentSwitch = [s \in Scope |-> instrument.default]
  /\ voices = {} /\ started = {} /\ source = None
  /\ held = NoPress /\ silenced = FALSE /\ centred = {}

(* What a dispatch leaves of the state.                                    *)
Dispatched(r, c) ==
  switches' = r.all /\ voices' = r.voices /\ started' = r.started /\ source' = c

(* The note is a key switch, of some source and of this one.               *)
IsSwitch(c, k) == \E n \in DOMAIN L : k \in L[n].last /\ Hears(L[n], c)

(* MidiState::noteOnEvent and sourceNoteOnEvent                            *)
NoteCountedOn(c, k) ==
  LET m == [midi EXCEPT !.active = IF IsLast(k) THEN @ ELSE @ + 1]
  IN IF IsSwitch(c, k) THEN m
     ELSE [m EXCEPT !.counts[<<c, k>>] = @ + 1, !.notes[c] = @ + 1]

NoteOn(c, k) ==
  LET m == NoteCountedOn(c, k)
      r == NoteOnDispatch(Pressed(Selected(switches, c, k), <<c, k>>), c, k, m)
  IN /\ Sends("key")
     /\ MapThenSumSet(LAMBDA p : held[p], Channel \X Key) < MaxHeld
     /\ midi' = m
     /\ currentSwitch' = IF IsLast(k) THEN [currentSwitch EXCEPT ![Omni] = k, ![c] = k]
                         ELSE currentSwitch
     /\ Dispatched([r EXCEPT !.all = Previous(@, c, k)], c)
     /\ held' = [held EXCEPT ![<<c, k>>] = @ + 1]
     /\ UNCHANGED <<instrument, silenced, centred>>

Fewer(n) == IF n = 0 THEN 0 ELSE n - 1

(* MidiState::noteOffEvent and sourceNoteOffEvent                          *)
NoteCountedOff(c, k) ==
  LET m == [midi EXCEPT !.active = IF IsLast(k) THEN @ ELSE Fewer(@)]
  IN IF IsSwitch(c, k) \/ midi.counts[<<c, k>>] = 0 THEN m
     ELSE [m EXCEPT !.counts[<<c, k>>] = @ - 1, !.notes[c] = Fewer(@)]

NoteOff(c, k) ==
  /\ Sends("key")
  /\ midi' = NoteCountedOff(c, k)
  /\ Dispatched([all |-> Lifted(switches, {<<c, k>>}), voices |-> voices, started |-> {}], c)
  /\ held' = [held EXCEPT ![<<c, k>>] = Fewer(@)]
  /\ silenced' = (silenced /\ held' # NoPress)
  /\ UNCHANGED <<instrument, currentSwitch, centred>>

(* Controllers 120 and 123; the switches are left alone.                   *)
AllNotesOff(c) ==
  /\ Sends("key")
  /\ midi' = [midi EXCEPT !.counts = NoPress, !.notes = NoNote,
                          !.active = IF @ > AllNotes THEN @ - AllNotes ELSE 0]
  /\ Dispatched([all |-> switches, voices |-> {}, started |-> {}], None)
  /\ silenced' = (held # NoPress)
  /\ UNCHANGED <<instrument, currentSwitch, held, centred>>

(* performHdcc                                                             *)
PerformHdcc(all, c, x, v, scoped, k, m) ==
  /\ midi' = ControlStored(m, c, x, v, scoped)
  /\ Dispatched(CCDispatch(all, c, x, v, scoped, k, m), c)
  /\ UNCHANGED <<instrument, currentSwitch, held, silenced>>

ControlChange(c, x, v) ==
  /\ Sends("control") /\ PerformHdcc(switches, c, x, v, TRUE, None, midi)
  /\ UNCHANGED centred

Automate(x, v) ==
  /\ Sends("control") /\ midi' = ControlStored(midi, 0, x, v, FALSE)
  /\ Dispatched(CCDispatch(switches, 0, x, v, FALSE, None, midi), None)
  /\ UNCHANGED <<instrument, currentSwitch, held, silenced, centred>>

(* Mutant: a message reaches every source of a layer that hears it. *)
RegisteredEverywhere(field, c, v) ==
  [n \in DOMAIN L |->
     IF Hears(L[n], c)
     THEN [s \in ScopesOf(L[n]) |-> [switches[n][s] EXCEPT ![field] = v \in L[n][field]]]
     ELSE switches[n]]

(* What a message of channel c does to one switch of the layers it reaches.*)
Registered(field, c, v) ==
  [n \in DOMAIN L |->
     IF Hears(L[n], c)
     THEN [switches[n] EXCEPT ![ScopeOf(L[n], c)][field] = v \in L[n][field]] ELSE switches[n]]

Wheel(c, v) ==
  /\ Sends("wheel")
  /\ PerformHdcc(Registered("wheel", c, v), c, WheelCC, v, FALSE, None,
              [midi EXCEPT !.wheel[Omni] = v, !.wheel[c] = v])
  /\ centred' = centred \ {Omni, c}

Pressure(c, v) ==
  /\ Sends("pressure")
  /\ PerformHdcc(Registered("pressure", c, v), c, PressureCC, v, FALSE, None,
              [midi EXCEPT !.pressure[Omni] = v, !.pressure[c] = v])
  /\ UNCHANGED centred

PolyPressure(c, k, v) ==
  /\ Sends("poly")
  /\ PerformHdcc(switches, c, PolyCC, v, FALSE, k,
              [midi EXCEPT !.poly[<<Omni, k>>] = v, !.poly[<<c, k>>] = v])
  /\ UNCHANGED centred

(* Every layer hears of the program; those with a channel range do not ask *)
(* for what they heard.                                                    *)
ProgramChange(to, c, p) ==
  /\ Sends("program")
  /\ midi' = [midi EXCEPT !.program = [s \in Scope |-> IF s \in to THEN p ELSE @[s]]]
  /\ Dispatched([all |-> [n \in DOMAIN L |-> [s \in ScopesOf(L[n]) |->
                            [switches[n][s] EXCEPT !.program = p \in L[n].programs]]],
                 voices |-> voices, started |-> {}], None)
  /\ UNCHANGED <<instrument, currentSwitch, held, silenced, centred>>

(* resetAllControllers: the layers hear of the controllers, but not of the *)
(* wheel.                                                                  *)
ResetAllControllers(c) ==
  /\ Sends("reset")
  /\ midi' = [midi EXCEPT !.wheel = [s \in Scope |-> 0],
                          !.controls = [s \in Scope |-> [x \in AnyControl |-> 0]]]
  /\ Dispatched([all |-> [n \in DOMAIN L |-> [s \in ScopesOf(L[n]) |->
                            [switches[n][s] EXCEPT !.off =
                               {x \in AnyControl : 0 \notin L[n].conditions[x]}]]],
                 voices |-> voices, started |-> {}], None)
  /\ centred' = Scope
  /\ UNCHANGED <<instrument, currentSwitch, held, silenced>>

(* The same file is loaded again: the MIDI state stays, its notes do not.  *)
Reload ==
  LET m == [midi EXCEPT !.counts = NoPress, !.notes = NoNote, !.active = 0,
                        !.poly = [p \in Scope \X Key |-> IF p[1] = Omni THEN @[p] ELSE 0]]
  IN /\ midi' = m
     /\ Dispatched([all |-> Loaded(instrument, m), voices |-> {}, started |-> {}], None)
     /\ currentSwitch' = [s \in Scope |-> instrument.default]
     /\ silenced' = (held # NoPress) /\ centred' = {}
     /\ UNCHANGED <<instrument, held>>

(* A voice is done, or stolen.                                             *)
VoiceEnds(v) ==
  /\ voices' = voices \ {v} /\ started' = {} /\ source' = None
  /\ UNCHANGED <<instrument, switches, currentSwitch, midi, held, silenced, centred>>

Next ==
  \/ \E c \in Channel, k \in Key : NoteOn(c, k) \/ NoteOff(c, k)
  \/ \E c \in Channel : AllNotesOff(c) \/ ResetAllControllers(c)
  \/ \E c \in Channel, x \in Control, v \in Level : ControlChange(c, x, v)
  \/ \E x \in Control, v \in Level : Automate(x, v)
  \/ \E c \in Channel, v \in Level : Wheel(c, v) \/ Pressure(c, v)
  \/ \E c \in Channel, k \in Key, v \in Level : PolyPressure(c, k, v)
  \/ \E p \in Program : ProgramChange(Scope, None, p)
  \/ \E c \in Channel, p \in Program : ProgramChange({Omni, c}, c, p)
  \/ Reload
  \/ \E v \in voices : VoiceEnds(v)

Spec == Init /\ [][Next]_vars

-----------------------------------------------------------------------------
(* Properties.                                                             *)

(* A layer with sw_last is switched on for a source exactly while its key  *)
(* switch is the latest one: of any channel, or of the source if the layer *)
(* has a channel range.  A note leaves the layers of one list and enters   *)
(* those of another, for two sets of scopes at once.                       *)
KeySwitchIsLatest ==
  \A n \in DOMAIN L : L[n].last # {} =>
    \A s \in ScopesOf(L[n]) : switches[n][s].key <=> currentSwitch[s] \in L[n].last

(* A note of key k in scope s, which plays or has just begun, is choked by *)
(* one that has begun: of a layer that its own layer is off by, and of     *)
(* another group or key, unless a controller has switched its layer off.   *)
Cut(all, begun, s, k) ==
  \E t \in begun, v \in voices \cup {[layer |-> u[1], channel |-> u[2], number |-> u[3],
                                     ofNote |-> TRUE] : u \in begun} :
    LET own == L[v.layer]
    IN /\ v.ofNote /\ v.number = k /\ s \in {Omni, v.channel}
       /\ own.offBy # 0 /\ own.offBy = L[t[1]].group
       /\ own.restricted => v.channel = t[2]
       /\ \/ own.group # L[t[1]].group \/ k # t[3]
          \/ all[v.layer][ScopeOf(own, v.channel)].off # {}

(* A switch of the keys given goes on only with a press of one in scope,   *)
(* and is on after it; it is off after a Note Off of one, or a load, even  *)
(* if another is down.  Only a note that chokes one of their notes may     *)
(* switch it off besides, or leave it off, while the key is down.          *)
FollowsKeys(keys, s, old, new) ==
  LET pressed == \E c \in Channel, k \in keys :
                   s \in {Omni, c} /\ held'[<<c, k>>] > held[<<c, k>>]
      released == \E c \in Channel, k \in keys : s \in {Omni, c} /\ NoteOff(c, k)
      cut == \E k \in keys : Cut(switches, started', s, k)
  IN /\ pressed => new \/ cut
     /\ (new /\ ~old) => pressed
     /\ new => ~released /\ ~Reload
     /\ (old /\ ~new) => released \/ Reload \/ cut

(* sw_down is on from the press of one of its keys to a Note Off or a choke*)
(* of one, and sw_up is off so long: through stray Note Offs of other keys,*)
(* silenced notes, and what a controller chokes, whose keys stay pressed.  *)
SwitchesFollowKeys ==
  [][\A n \in DOMAIN L : \A s \in ScopesOf(L[n]) :
       /\ L[n].down # {} =>
            FollowsKeys(L[n].down, s, switches[n][s].key, switches'[n][s].key)
       /\ L[n].up # {} =>
            FollowsKeys(L[n].up, s, ~switches[n][s].key, ~switches'[n][s].key)]_vars

(* Keys held in a scope beside the press of k, but for key switches.       *)
OtherPresses(s, c, k) ==
  \E p \in Channel \X Key :
    /\ s \in {Omni, p[1]} /\ ~IsSwitch(p[1], p[2])
    /\ held[p] > IF p = <<c, k>> THEN 1 ELSE 0

(* trigger=legato starts a voice only if its source (or any, without a     *)
(* channel range) holds another note, and trigger=first of a source only   *)
(* if it does not, or starts on a key switch: counts survive repeated      *)
(* presses, stray releases, key switches, a reload and silenced notes.     *)
FirstOrLegato ==
  \A t \in started :
    LET l == L[t[1]]
        other == OtherPresses(ScopeOf(l, t[2]), t[2], t[3])
    IN /\ l.trigger = "legato" => other
       /\ (l.trigger = "first" /\ l.restricted /\ ~IsSwitch(t[2], t[3])) => (silenced \/ ~other)

(* The layers of a complete round: the same keys, sources and triggers,    *)
(* and every position taken once.                                          *)
Round(n) == {m \in DOMAIN L :
  /\ L[m].positioned /\ L[m].keys = L[n].keys /\ L[m].sequence[1] = L[n].sequence[1]
  /\ ScopesOf(L[m]) = ScopesOf(L[n]) /\ L[m].triggers = L[n].triggers}
Complete(n) ==
  /\ L[n].positioned
  /\ \A p \in 1..L[n].sequence[1] : \E m \in Round(n) : L[m].sequence[2] = p
  /\ Cardinality(Round(n)) = L[n].sequence[1]

(* In a complete round exactly one layer is switched on by its sequence    *)
(* after the first message of a source, whatever else switches the layers  *)
(* off: every layer counts every note.                                     *)
RoundsAgree ==
  \A n \in DOMAIN L : Complete(n) =>
    \A s \in ScopesOf(L[n]) :
      /\ \A m \in Round(n) : switches[m][s].counter = switches[n][s].counter
      /\ Cardinality({m \in Round(n) : switches[m][s].sequence}) <= 1
      /\ switches[n][s].counter # 0 => \E m \in Round(n) : switches[m][s].sequence

(* The conditions a layer has noted are those MidiState would give it now, *)
(* for every scope, after resets, automation and a reload too; of the      *)
(* wheel, unless a reset has moved it since its latest message.            *)
ConditionsCurrent ==
  \A n \in DOMAIN L : \A s \in ScopesOf(L[n]) :
    /\ switches[n][s].off = {x \in AnyControl : midi.controls[s][x] \notin L[n].conditions[x]}
    /\ switches[n][s].pressure <=> midi.pressure[s] \in L[n].pressure
    /\ s \in centred \/ (switches[n][s].wheel <=> midi.wheel[s] \in L[n].wheel)
    /\ L[n].restricted \/ (switches[n][s].program <=> midi.program[Omni] \in L[n].programs)

(* A message of one source never changes the switches that a layer with a  *)
(* channel range keeps for another one; but for the extended controllers,  *)
(* and for sw_down and sw_up of a source one of whose notes is choked by   *)
(* the message.                                                            *)
SourcesIsolatedOtherwise ==
  [][source' # None =>
       \A n \in DOMAIN L : L[n].restricted =>
         \A s \in L[n].channels \ {source'} :
           LET new == switches'[n][s]
               old == switches[n][s]
               choked == \E v \in voices \ voices' : v.channel = s
           IN /\ [new EXCEPT !.off = @ \ Extended, !.key = FALSE]
                   = [old EXCEPT !.off = @ \ Extended, !.key = FALSE]
              /\ new.key = old.key \/ (choked /\ L[n].last = {})]_vars
=============================================================================
