------------------------------- MODULE Voices -------------------------------
(***************************************************************************)
(* The voices of the engine: the dispatch of Note On, Note Off and         *)
(* controllers to the layers (Synth), chokes (off_by) and the releases     *)
(* they trigger, polyphony limits and stealing (VoiceManager,              *)
(* VoiceStealing), the registries of active voices (VoiceManager,          *)
(* PolyphonyGroup, RegionSet) and the rings of sister voices               *)
(* (SisterVoiceRing).                                                      *)
(*                                                                         *)
(* A message is dispatched by the audio thread without interruption, but a *)
(* choke dispatches a Note Off of its own from inside the loop over the    *)
(* layers, and that loop may choke again.  Dispatch is therefore a stack   *)
(* of frames and one step handles one voice or one layer; while a frame is *)
(* left, nothing else happens.                                             *)
(***************************************************************************)
EXTENDS Integers, Sequences, FiniteSets

CONSTANTS
  Key, Channel,         \* numbers of notes and controllers, and source channels
  Group, Header,        \* polyphony groups, and the headers regions nest in
  Engine,               \* the registry of all active voices
  Setups,               \* instruments and settings to choose from
  MinOverflow           \* config::minOverflowVoices

VARIABLES
  setup,   \* the instrument that is loaded and the settings of the engine
  voice,   \* state_, region_, triggerEvent_, offed_, initialDelay_, age_ and power
  next,    \* nextSisterVoice_
  prev,    \* previousSisterVoice_
  list,    \* the voices registered with each owner, in order
  stack,   \* the dispatches under way, innermost first
  held,    \* the notes in the registry, oldest first
  latest,  \* velocity of the last Note On of each key
  unmet,   \* the layers whose controller conditions fail, for a source or for all (0)
  begun,   \* Note Ons and starting controllers so far
  block,   \* blocks begun so far
  turns,   \* voices that the block, or allSoundOff, has still to come to
  silencing   \* is it allSoundOff

callback == <<turns, silencing>>
vars == <<setup, voice, next, prev, list, stack, held, latest, unmet, begun, block, callback>>

Layers == setup.layers       \* the regions of the instrument, in order
Limit == setup.limit         \* the polyphony of groups and headers, and of the engine
Stealing == setup.stealing   \* hint_stealing
Mpe == setup.mpe             \* is the MPE profile on
MaxStarts == setup.starts    \* model bounds: messages that start voices, and blocks
MaxBlocks == setup.blocks

NumVoices == Limit[Engine]
None == 0               \* no voice, no group, no region
NoEvent == [type |-> "none", key |-> 0, value |-> 0, source |-> 0, channel |-> 0, id |-> 0]

(* VoiceManager::requireNumVoices keeps overflow voices for the tails.     *)
Least(a, b) == IF a < b THEN a ELSE b
Overflow == LET share == (NumVoices * 3) \div 2
            IN IF share < MinOverflow THEN MinOverflow ELSE share
Voice == 1 .. Least(setup.maxVoices, NumVoices + Overflow)
Owner == Group \cup Header \cup {Engine}

Region ==
  [trigger : {"attack", "release", "cc"}, keys : SUBSET Key,
   group : Group, offBy : Group \cup {None}, parents : Seq(Header),
   polyphony : Nat, notePolyphony : Nat,   \* None: no note_polyphony
   selfMask : BOOLEAN, rtDead : BOOLEAN, restricted : BOOLEAN,
   conditioned : BOOLEAN,                  \* has it conditions on controllers
   disabled : BOOLEAN,                     \* does its sample end at 0
   sampled : BOOLEAN,                      \* may the file pool have no promise for it
   blocks : Nat,                           \* delay, in blocks
   keycenter : Key]                        \* the note of a voice that a controller starts

ASSUME VoicesAssumption ==
  /\ Key \subseteq Nat /\ Channel \subseteq Nat \ {0}
  /\ None \notin Group /\ Group \cap Header = {} /\ Engine \notin Group \cup Header
  /\ MinOverflow \in Nat
  /\ \A s \in Setups :
       /\ s.mpe \in BOOLEAN /\ s.stealing \in {"first", "oldest", "envelope_and_age"}
       /\ s.starts \in Nat /\ s.blocks \in Nat /\ s.channels \subseteq Channel
       /\ s.layers \in Seq(Region) /\ s.values \subseteq Nat /\ s.maxVoices \in Nat \ {0}
       /\ s.limit \in [Owner -> Nat] /\ s.limit[Engine] > 0
       \* This stealer looks at the front of its candidates in any case.
       /\ s.stealing = "envelope_and_age" =>
            /\ \A o \in Owner : s.limit[o] > 0
            /\ \A r \in DOMAIN s.layers : s.layers[r].polyphony > 0

Idle == [state |-> "idle", region |-> None, event |-> NoEvent,
         offed |-> FALSE, waiting |-> 0, fresh |-> FALSE, age |-> 0, loud |-> FALSE]

Event(type, k, x, c, id) ==
  [type |-> type, key |-> k, value |-> x, source |-> c,
   channel |-> IF Mpe THEN c ELSE 0, id |-> id]

(* The registries a voice of a region belongs to, in the order in which    *)
(* their limits are checked.                                               *)
Owners(r) == <<Layers[r].group>> \o Layers[r].parents \o <<Engine>>

OffedOrFree(v) == v.state # "playing" \/ v.offed
Busy == {v \in Voice : voice[v].state # "idle"}
Quiescent == stack = <<>> /\ turns = {}   \* between messages and blocks

-----------------------------------------------------------------------------
(* Voices and their rings.                                                 *)

(* A voice released before its attack has started only waits for cleanup.  *)
Release(v) ==
  IF v.state = "playing" /\ v.waiting > 0 THEN [v EXCEPT !.state = "cleanMeUp"] ELSE v

Off(v) == Release([v EXCEPT !.offed = TRUE])

(* SisterVoiceRing::applyToRing follows the next pointers of a voice.      *)
Ring(v) ==
  LET walk[n \in 0 .. Cardinality(Voice)] == IF n = 0 THEN v ELSE next[walk[n - 1]]
  IN {walk[n] : n \in 0 .. Cardinality(Voice)}

(* Mutant: the voice itself keeps its neighbours. *)
UnlinkedKeeping(links, back, v) == [links EXCEPT ![back[v]] = links[v]]

(* Voice::removeVoiceFromRing on both pointers.                            *)
Unlinked(links, back, v) == [links EXCEPT ![back[v]] = links[v], ![v] = v]

-----------------------------------------------------------------------------
(* Registries.                                                             *)

(* swapAndPopFirst: the last element takes the place of the removed one.   *)
Without(s, v) ==
  IF \A i \in DOMAIN s : s[i] # v THEN s
  ELSE LET at == CHOOSE i \in DOMAIN s : s[i] = v /\ \A j \in 1 .. i - 1 : s[j] # v
       IN SubSeq([s EXCEPT ![at] = s[Len(s)]], 1, Len(s) - 1)

InOwners(o, r) == \E i \in DOMAIN Owners(r) : Owners(r)[i] = o

(* Voices register when they begin to play, and those of a disabled region *)
(* never do.                                                               *)
Joins(o, r) == ~Layers[r].disabled /\ InOwners(o, r)

(* Mutant: a voice leaves its group and the engine, but not its headers. *)
UnregisteredFromGroup(ls, v, r) ==
  [o \in Owner |-> IF o \in {Layers[r].group, Engine} THEN Without(ls[o], v) ELSE ls[o]]

(* VoiceManager::onVoiceStateChanging to idle and to playing.              *)
Unregistered(ls, v, r) == [o \in Owner |-> IF Joins(o, r) THEN Without(ls[o], v) ELSE ls[o]]

Registered(ls, v, r) == [o \in Owner |-> IF Joins(o, r) THEN Append(ls[o], v) ELSE ls[o]]

-----------------------------------------------------------------------------
(* Polyphony.                                                              *)

(* A check adds the voices it stops to those already gone.                 *)
Stealable(gone, s) == {i \in DOMAIN s : ~OffedOrFree(voice[s[i]]) /\ s[i] \notin gone}

(* The stealers: which of two stealable voices of a list comes first; the  *)
(* third one sorts by voiceOrdering.                                       *)
Rank(v) ==
  IF Stealing = "first" THEN <<>>
  ELSE IF Stealing = "oldest" THEN <<-v.age>>
  ELSE <<-v.age, v.event.key, v.event.value,
         [on |-> 2, off |-> 1, cc |-> 0][v.event.type], v.event.channel>>

Before(s, i, j) ==
  LET a == Rank(voice[s[i]])
      b == Rank(voice[s[j]])
  IN IF a = b THEN i < j
     ELSE \E n \in DOMAIN a : a[n] < b[n] /\ \A m \in 1 .. n - 1 : a[m] = b[m]

FirstOf(s, from) == CHOOSE i \in from : \A j \in from \ {i} : Before(s, i, j)

(* stealEnvelopeAndAge: of the voices older than half the age of the       *)
(* oldest, one event after the other, the first whose ring is quiet next   *)
(* to the average; or else the oldest.  Powers are high or low.            *)
Taken(s, from) ==
  LET first == FirstOf(s, from)
      examined ==
        {i \in from : /\ voice[s[i]].age > voice[s[first]].age \div 2
                      /\ \A j \in from : Rank(voice[s[j]]) = Rank(voice[s[i]]) => i <= j}
      quiet == {i \in examined : \A u \in Ring(s[i]) : ~voice[u].loud}
  IN IF Stealing = "envelope_and_age" /\ quiet # {} /\ \E i \in from : voice[s[i]].loud
     THEN FirstOf(s, quiet) ELSE first

(* Mutant: an off-by-one, one voice too many may play. *)
StealLate(gone, s, limit, only, channel) ==
  LET stealable == {i \in Stealable(gone, s) : only = None \/ voice[s[i]].region = only}
  IN IF stealable = {} \/ Cardinality(stealable) <= limit THEN gone
     ELSE gone \cup Ring(s[Taken(s, stealable)])

(* genericPolyphonyCheck, then offAllSisters on the voice it chose: only   *)
(* with the MPE profile on does a voice of the same channel go first.      *)
Steal(gone, s, limit, only, channel) ==
  LET stealable == {i \in Stealable(gone, s) : only = None \/ voice[s[i]].region = only}
      own == {i \in stealable : Mpe /\ voice[s[i]].event.channel = channel}
      from == IF own # {} THEN own ELSE stealable
  IN IF from = {} \/ Cardinality(stealable) < limit THEN gone
     ELSE gone \cup Ring(s[Taken(s, from)])

(* Mutant: a softer note silences a louder one. *)
CheckNoteLoud(r, e) ==
  IF Layers[r].notePolyphony = None THEN {}
  ELSE {v \in Voice : /\ ~OffedOrFree(voice[v]) /\ Layers[voice[v].region].group = Layers[r].group
                       /\ voice[v].event.key = e.key}

(* checkNotePolyphony: as many voices of the note as are too many go, the  *)
(* softest first, but never for a softer note; without self-masking the    *)
(* oldest go first.                                                        *)
CheckNote(r, e) ==
  LET s == list[Engine]
      R == Layers[r]
      same == {i \in Stealable({}, s) : /\ Layers[voice[s[i]].region].group = R.group
                                        /\ voice[s[i]].event.key = e.key}
      maskable == {i \in same : ~R.selfMask \/ voice[s[i]].event.value <= e.value}
      Place(i) == IF R.selfMask THEN voice[s[i]].event.value ELSE -voice[s[i]].age
      Ahead(i, j) == Place(i) < Place(j) \/ (Place(i) = Place(j) /\ i < j)
      excess == Cardinality(same) - (R.notePolyphony - 1)
      gone == {i \in maskable : Cardinality({j \in maskable : Ahead(j, i)}) < excess}
  IN IF R.notePolyphony = None THEN {} ELSE UNION {Ring(s[i]) : i \in gone}

(* The voices stopped by the checks of note, region, group, headers and    *)
(* engine, one after the other.                                            *)
CheckPolyphony(r, e) ==
  LET owners == Owners(r)
      afterRegion == Steal(CheckNote(r, e), list[Engine], Layers[r].polyphony, r, e.channel)
      after[n \in 0 .. Len(owners)] ==
        IF n = 0 THEN afterRegion
        ELSE Steal(after[n - 1], list[owners[n]], Limit[owners[n]], None, e.channel)
  IN after[Len(owners)]

(* Mutant: with no idle voice, the oldest one is taken. *)
FreeVoicesAny(vs) ==
  LET idle == {v \in Voice : vs[v].state = "idle"}
  IN IF idle # {} THEN {v \in idle : \A u \in idle : v <= u}
     ELSE {v \in Voice : \A u \in Voice :
             vs[v].age > vs[u].age \/ (vs[v].age = vs[u].age /\ v <= u)}

(* findFreeVoice: the first idle voice, or else the oldest of those that   *)
(* only fade out.                                                          *)
FreeVoices(vs) ==
  LET idle == {v \in Voice : vs[v].state = "idle"}
      fading == {v \in Voice : OffedOrFree(vs[v])}
  IN IF idle # {} THEN {v \in idle : \A u \in idle : v <= u}
     ELSE {v \in fading : \A u \in fading :
             vs[v].age > vs[u].age \/ (vs[v].age = vs[u].age /\ v <= u)}

-----------------------------------------------------------------------------
(* Dispatch.                                                               *)

(* Layer::isCcSwitchedOn: a restricted layer keeps a state per source.     *)
Condition(r, c) == <<r, IF Layers[r].restricted THEN c ELSE 0>>
SwitchedOn(r, c) == Condition(r, c) \notin unmet

(* The layers a message starts; releases carry the note's own trigger.     *)
Visited(e) ==
  {r \in DOMAIN Layers :
     /\ e.key \in Layers[r].keys /\ SwitchedOn(r, e.source)
     /\ Layers[r].trigger = [on |-> "attack", off |-> "release", cc |-> "cc"][e.type]}

(* A frame: the event, the layers left (the first comes next), the voice   *)
(* the sister ring starts with, and the first voice that checkOffGroups    *)
(* has not yet looked at.                                                  *)
Frame(e) == [event |-> e, left |-> Visited(e), head |-> None, from |-> 1]

(* Mutant: a voice already fading out is choked again. *)
ChokableAgain(v, r, e) ==
  /\ v.state # "idle" /\ v.event.type \in {"on", "cc"}
  /\ Layers[v.region].offBy = Layers[r].group
  /\ \/ Layers[v.region].group # Layers[r].group \/ v.event.key # e.key
     \/ ~SwitchedOn(v.region, v.event.source)

(* Voice::checkOffGroup: does a voice stop for a region started by a note  *)
(* or a controller of this number.                                         *)
Chokable(v, r, e) ==
  /\ v.state # "idle" /\ ~v.offed
  /\ Layers[v.region].restricted => v.event.source = e.source
  /\ v.event.type \in {"on", "cc"}
  /\ Layers[v.region].offBy = Layers[r].group
  /\ \/ Layers[v.region].group # Layers[r].group \/ v.event.key # e.key
     \/ ~SwitchedOn(v.region, v.event.source)

(* A release plays only with an attack voice still there, save rt_dead.    *)
Plays(vs, r, e) ==
  \/ e.type # "off" \/ Layers[r].rtDead
  \/ \E v \in Voice : /\ vs[v].state # "idle" /\ vs[v].event.type = "on"
                      /\ Layers[r].restricted => vs[v].event.source = e.source
                      /\ vs[v].event.key \in Layers[r].keys

Top == stack[1]
FirstLayer(f) == CHOOSE r \in f.left : \A q \in f.left : r <= q
Layer == FirstLayer(Top)
Considered == stack # <<>> /\ Top.left # {}
Admitted == Top.from > 1 \/ Plays(voice, Layer, Top.event)

(* Mutant: the loop steps over the first voice. *)
ToChokeSkipping == {v \in Voice : v > Top.from /\ Chokable(voice[v], Layer, Top.event)}

ToChoke == {v \in Voice : v >= Top.from /\ Chokable(voice[v], Layer, Top.event)}

NoteOn(c, k, x) ==
  LET e == Event("on", k, x, c, begun + 1)
  IN /\ Quiescent /\ begun < MaxStarts
     /\ begun' = begun + 1 /\ latest' = [latest EXCEPT ![k] = x]
     /\ held' = Append(held, e) /\ stack' = <<Frame(e)>>
     /\ UNCHANGED <<voice, next, prev, list, unmet, block, callback>>

(* A controller gets a new value in the range of on_loccN and on_hiccN.    *)
Controller(c, n, x) ==
  LET e == Event("cc", n, x, c, 0)
  IN /\ Quiescent /\ begun < MaxStarts /\ Visited(e) # {}
     /\ begun' = begun + 1 /\ stack' = <<Frame(e)>>
     /\ UNCHANGED <<voice, next, prev, list, held, latest, unmet, block, callback>>

(* Layer::updateCCState: a controller that starts nothing meets or fails   *)
(* the conditions of a layer.                                              *)
Switch(r, c) ==
  /\ Quiescent /\ Layers[r].conditioned
  /\ unmet' = IF SwitchedOn(r, c) THEN unmet \cup {Condition(r, c)} ELSE unmet \ {Condition(r, c)}
  /\ UNCHANGED <<voice, next, prev, list, stack, held, latest, begun, block, callback>>

(* The voices of the note are released, then the releases dispatched.      *)
NoteOff(i) ==
  LET n == held[i]
      e == Event("off", n.key, latest[n.key], n.source, n.id)
  IN /\ Quiescent
     /\ \A j \in 1 .. i - 1 : held[j].key # n.key \/ held[j].source # n.source
     /\ voice' = [v \in Voice |-> IF voice[v].event.type = "on" /\ voice[v].event.id = n.id
                                  THEN Release(voice[v]) ELSE voice[v]]
     /\ held' = SubSeq(held, 1, i - 1) \o SubSeq(held, i + 1, Len(held))
     /\ stack' = <<Frame(e)>>
     /\ UNCHANGED <<next, prev, list, latest, unmet, begun, block, callback>>

(* A release without attack voice is skipped before it chokes anything.    *)
Skip ==
  /\ Considered /\ ~Admitted
  /\ stack' = [stack EXCEPT ![1].left = @ \ {Layer}]
  /\ UNCHANGED <<voice, next, prev, list, held, latest, unmet, begun, block, callback>>

(* checkOffGroups: the next voice to stop; if a note stops a note, its     *)
(* Note Off is dispatched before the loop goes on.                         *)
Choke ==
  /\ Considered /\ Admitted
  /\ ToChoke # {}
  /\ LET v == CHOOSE u \in ToChoke : \A w \in ToChoke : u <= w
         n == voice[v].event
         dispatched == IF n.type = "on" /\ Top.event.type # "cc"
                       THEN <<Frame([n EXCEPT !.type = "off"])>> ELSE <<>>
     IN /\ voice' = [voice EXCEPT ![v] = Off(@)]
        /\ stack' = dispatched \o [stack EXCEPT ![1].from = v + 1]
  /\ UNCHANGED <<next, prev, list, held, latest, unmet, begun, block, callback>>

(* Voice::startVoice: a voice of a disabled region, or one that gets no    *)
(* sample, plays nothing and waits for cleanup, its region and event set.  *)
Outcomes(r) == IF Layers[r].disabled THEN {FALSE} ELSE IF Layers[r].sampled THEN BOOLEAN ELSE {TRUE}

Started(r, e, plays) ==
  [Idle EXCEPT !.state = IF plays THEN "playing" ELSE "cleanMeUp", !.region = r,
     !.event = IF e.type = "cc" THEN [e EXCEPT !.key = Layers[r].keycenter] ELSE e,
     !.waiting = Layers[r].blocks, !.fresh = TRUE]

(* Synth::Impl::startVoice, once the checks have stopped some voices: a    *)
(* free voice, its reset, its start and, if it plays, its place in the ring. *)
StartVoice(r, e, stopped) ==
  LET checked == [v \in Voice |-> IF v \in stopped THEN Off(voice[v]) ELSE voice[v]]
      done == [Top EXCEPT !.left = @ \ {Layer}, !.from = 1]
      Starts(v, plays) ==
        LET head == IF Top.head = None THEN v ELSE Top.head
            lone == Unlinked(next, prev, v)
            back == Unlinked(prev, next, v)
            last == back[head]
            freed == IF v \in Busy THEN Unregistered(list, v, voice[v].region) ELSE list
        IN /\ voice' = [checked EXCEPT ![v] = Started(r, e, plays)]
           /\ list' = Registered(freed, v, r)
           /\ \/ /\ plays
                 /\ next' = [lone EXCEPT ![v] = head, ![last] = v]
                 /\ prev' = [back EXCEPT ![v] = last, ![head] = v]
                 /\ stack' = <<[done EXCEPT !.head = head]>> \o Tail(stack)
              \/ ~plays /\ next' = lone /\ prev' = back /\ stack' = <<done>> \o Tail(stack)
  IN \/ \E v \in FreeVoices(checked), plays \in Outcomes(r) : Starts(v, plays)
     \/ /\ FreeVoices(checked) = {}
        /\ voice' = checked /\ stack' = <<done>> \o Tail(stack)
        /\ UNCHANGED <<next, prev, list>>

Starting == Considered /\ Admitted /\ ToChoke = {}

Start ==
  /\ Starting
  /\ \E stopped \in {CheckPolyphony(Layer, Top.event)} : StartVoice(Layer, Top.event, stopped)
  /\ UNCHANGED <<held, latest, unmet, begun, block, callback>>

Return ==
  /\ stack # <<>> /\ Top.left = {}
  /\ stack' = Tail(stack)
  /\ UNCHANGED <<voice, next, prev, list, held, latest, unmet, begun, block, callback>>

-----------------------------------------------------------------------------
(* The audio callback: the voices in turn.                                 *)

(* Voice::reset, with the listener that takes it off its lists.            *)
Reset(v) ==
  /\ voice' = [voice EXCEPT ![v] = Idle]
  /\ list' = IF v \in Busy THEN Unregistered(list, v, voice[v].region) ELSE list
  /\ next' = Unlinked(next, prev, v) /\ prev' = Unlinked(prev, next, v)

(* Voice::renderBlock: the first block does not add to the age.            *)
Played(v) == [v EXCEPT !.waiting = IF @ > 0 THEN @ - 1 ELSE 0, !.fresh = FALSE,
                       !.age = IF v.fresh THEN 0 ELSE @ + 1]

Turn == CHOOSE v \in turns : \A u \in turns : v <= u

BeginBlock ==
  /\ Quiescent /\ block < MaxBlocks
  /\ block' = block + 1 /\ turns' = Busy
  /\ UNCHANGED <<voice, next, prev, list, stack, held, latest, unmet, begun, silencing>>

(* A voice plays on, as loud as it may be, or is reset: it was released    *)
(* before its attack, or it is past its delay and over.                    *)
RenderVoice ==
  /\ turns # {} /\ ~silencing
  /\ LET v == Turn
     IN /\ turns' = turns \ {v}
        /\ \/ /\ voice[v].state = "playing"
              /\ \E loud \in {FALSE, Stealing = "envelope_and_age"} :
                   voice' = [voice EXCEPT ![v] = [Played(@) EXCEPT !.loud = loud]]
              /\ UNCHANGED <<next, prev, list>>
           \/ voice[v].state = "cleanMeUp" /\ Reset(v)
           \/ voice[v].state = "playing" /\ voice[v].waiting = 0 /\ Reset(v)
  /\ UNCHANGED <<silencing, stack, held, latest, unmet, begun, block>>

(* Synth::allSoundOff.                                                     *)
AllSoundOff ==
  /\ Quiescent /\ Busy # {}
  /\ turns' = Voice /\ silencing' = TRUE /\ held' = <<>>
  /\ UNCHANGED <<voice, next, prev, list, stack, latest, unmet, begun, block>>

SilenceVoice ==
  /\ turns # {} /\ silencing
  /\ Reset(Turn) /\ turns' = turns \ {Turn} /\ silencing' = (turns' # {})
  /\ UNCHANGED <<stack, held, latest, unmet, begun, block>>

(* What the instrument does not use starts nothing.                        *)
Mapped == UNION {Layers[r].keys : r \in DOMAIN Layers}

Init ==
  /\ setup \in Setups
  /\ voice = [v \in Voice |-> Idle]
  /\ next = [v \in Voice |-> v] /\ prev = [v \in Voice |-> v]
  /\ list = [o \in Owner |-> <<>>]
  /\ stack = <<>> /\ held = <<>> /\ latest = [k \in Key |-> 0] /\ unmet = {}
  /\ begun = 0 /\ block = 0 /\ turns = {} /\ silencing = FALSE

Next ==
  /\ UNCHANGED setup
  /\ \/ \E c \in setup.channels, k \in Mapped, x \in setup.values :
          NoteOn(c, k, x) \/ Controller(c, k, x)
     \/ \E i \in DOMAIN held : NoteOff(i)
     \/ \E r \in DOMAIN Layers, c \in setup.channels : Switch(r, c)
     \/ Skip \/ Choke \/ Start \/ Return
     \/ BeginBlock \/ RenderVoice
     \/ AllSoundOff \/ SilenceVoice

Spec == Init /\ [][Next]_vars

-----------------------------------------------------------------------------
(* Properties.                                                             *)

Playing(s) == Cardinality({i \in DOMAIN s : ~OffedOrFree(voice[s[i]])})

RegionPlaying(r) ==
  Cardinality({v \in Voice : ~OffedOrFree(voice[v]) /\ voice[v].region = r})

(* The registries agree with the voices through steals, resets and chokes: *)
(* a voice stands once with its group, its headers and the engine exactly  *)
(* while it is not idle and its region is enabled, and nowhere else.       *)
RegistriesAgree ==
  \A o \in Owner, v \in Voice :
    Cardinality({i \in DOMAIN list[o] : list[o][i] = v})
      = IF voice[v].state # "idle" /\ Joins(o, voice[v].region) THEN 1 ELSE 0

(* However notes, chokes and releases come, no owner and no region has     *)
(* more voices that were not told to stop than its polyphony, though each  *)
(* limit is checked by itself and stops one ring; a limit of zero lets one *)
(* play.                                                                   *)
Allowed(limit) == IF limit = 0 THEN 1 ELSE limit
PolyphonyHeld ==
  /\ \A o \in Owner : Playing(list[o]) <= Allowed(Limit[o])
  /\ \A r \in DOMAIN Layers : RegionPlaying(r) <= Allowed(Layers[r].polyphony)

(* The two pointers of a ring mirror each other, and an idle voice is      *)
(* alone, or stopping a note could reach a voice of another one.           *)
RingsClosed ==
  \A v \in Voice :
    /\ next[prev[v]] = v /\ prev[next[v]] = v
    /\ voice[v].state = "idle" => next[v] = v

(* A choke dispatches a release that may choke again: every level of that  *)
(* recursion has stopped another voice, so it ends.                        *)
RecursionBounded == Len(stack) <= Cardinality(Voice) + 1

(* The owners of a region, and the region itself, that are at their limit. *)
AtLimit(r) == {o \in Owner : InOwners(o, r) /\ Playing(list[o]) >= Limit[o]}
RegionAtLimit(r) == RegionPlaying(r) >= Layers[r].polyphony

(* A sounding voice is cut in favour of another note (and not merely told  *)
(* to stop) only if no voice is idle, none that fades is older, and a      *)
(* limit the new voice is up against has just stopped it or a sister.      *)
Forced(v) ==
  /\ \A u \in Voice : /\ voice[u].state # "idle"
                      /\ OffedOrFree(voice[u]) => voice[u].age <= voice[v].age
  /\ \E u \in Ring(v) :
       \/ Layers[Layer].notePolyphony # None /\ voice[u].event.key = Top.event.key
       \/ voice[u].region = Layer /\ RegionAtLimit(Layer)
       \/ \E o \in AtLimit(Layer) : InOwners(o, voice[u].region)
CutOnlyAtLimit ==
  [][\A v \in Voice :
       (stack # <<>> /\ ~OffedOrFree(voice[v]) /\ voice'[v].event # voice[v].event)
         => Forced(v)]_vars

(* When a region starts, no voice it chokes is left sounding, whatever was *)
(* started by the releases of the notes choked before it.                  *)
ChokesComplete ==
  [][Considered /\ Admitted /\ Len(stack') = Len(stack) /\ stack'[1].left # Top.left =>
       \A v \in Voice : ~Chokable(voice[v], Layer, Top.event)]_vars

(* With self-masking, a note never stops a louder one of its own key for   *)
(* the sake of note_polyphony, when that is the only limit it is against.  *)
LouderSurvives ==
  [][Starting /\ Layers[Layer].selfMask /\ AtLimit(Layer) = {} /\ ~RegionAtLimit(Layer) =>
       \A v \in Voice :
         /\ ~OffedOrFree(voice[v]) /\ next[v] = v
         /\ OffedOrFree(voice'[v]) \/ voice'[v].event # voice[v].event
         => voice[v].event.value <= Top.event.value]_vars
=============================================================================
