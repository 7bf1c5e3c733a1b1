----------------------------- MODULE Expression -----------------------------
(***************************************************************************)
(* Per-note expression under the lower-zone MPE profile: the profile       *)
(* resolver and the values it keeps per member channel (MidiInputAdapter), *)
(* the broadcast of a member's expression to the notes of its channel      *)
(* (dispatchExpression), the bounded timelines of a block (MidiState,      *)
(* ExpressionContext) and what a voice keeps of them after Note Off        *)
(* (Voice).  The audio thread handles one message at a time.               *)
(*                                                                         *)
(* Identities come from the registry of the module NoteRegistry; here a    *)
(* note takes any free slot, with a generation of its own.  A voice stands *)
(* for all the voices of its note: they share one context and freeze it    *)
(* alike.                                                                  *)
(***************************************************************************)
EXTENDS Naturals, Sequences, FiniteSets

CONSTANTS
  Member,        \* member channels in use; 0 is the Manager
  Slot,          \* slots of the registry, each with an expression context
  Kind,          \* "pitch" and "pressure"; timbre is treated like pressure
  Bend, Press,   \* normalized values of messages
  Ranges,        \* pitch bend ranges, in semitones
  DefaultRange,  \* the ranges at first: 2 and 48 semitones
  LastFrame,     \* the last sample offset of a block
  Capacity,      \* noteTimelineEvents
  CallsBetween,  \* does the host set the range only between blocks, with MPE on
  MaxNotes, MaxMessages  \* model bounds: Note Ons and messages in a behaviour

Manager == 0
Absent == 99     \* no value: the presence flag is down
Frame == 0 .. LastFrame

ASSUME ExpressionAssumption ==
  /\ Member \subseteq Nat \ {Manager} /\ Slot \subseteq Nat
  /\ Kind \subseteq {"pitch", "pressure"}
  /\ Bend \subseteq Nat /\ Press \subseteq Nat /\ Ranges \subseteq Nat
  /\ DefaultRange \in [manager : Ranges, member : Ranges]
  /\ \A b \in Bend, r \in Ranges : b * r < Absent
  /\ \A p \in Press : p < Absent
  /\ LastFrame \in Nat /\ Capacity \in Nat \ {0, 1}
  /\ CallsBetween \in BOOLEAN /\ MaxNotes \in Nat /\ MaxMessages \in Nat

VARIABLES
  mpe,       \* mpeEnabled_
  range,     \* the bend ranges of the Manager and of the members
  seed,      \* memberSeeds_: what a note of a channel starts with
  note,      \* the registry's slots
  context,   \* noteExpressionSlots_
  broad,     \* the zone's and the global context
  retired,   \* retiredNoteExpressionOverflowCount_
  voices,    \* the voices, with what they froze
  now,       \* the latest sample offset of this block
  begun, messages

vars == <<mpe, range, seed, note, context, broad, retired, voices, now, begun, messages>>

-----------------------------------------------------------------------------
(* Timelines.                                                              *)

Sentinel(x) == <<[at |-> 0, value |-> x]>>
Last(line) == line[Len(line)].value

(* A context: per kind a timeline, the presence flag, and the events lost. *)
Fresh == [line |-> [k \in Kind |-> Sentinel(0)], has |-> [k \in Kind |-> FALSE], dropped |-> 0]

Earlier(line, d) == Cardinality({i \in DOMAIN line : line[i].at < d})
Taken(line, d) == Earlier(line, d) < Len(line) /\ line[Earlier(line, d) + 1].at = d

(* ExpressionContext::insertEvent into a timeline with room.               *)
Inserted(line, d, x) ==
  LET n == Earlier(line, d)
      e == [at |-> d, value |-> x]
  IN IF Taken(line, d) THEN [line EXCEPT ![n + 1] = e]
     ELSE SubSeq(line, 1, n) \o <<e>> \o SubSeq(line, n + 1, Len(line))

Fits(line, d, room) == Taken(line, d) \/ Len(line) < room

(* Mutant: an event at the offset of another is appended after it. *)
InsertUnsorted(c, k, d, x, room) ==
  IF Len(c.line[k]) < room
  THEN [c EXCEPT !.line[k] = Append(@, [at |-> d, value |-> x]), !.has[k] = TRUE]
  ELSE [c EXCEPT !.dropped = @ + 1]

(* pitchEvent and pressureEvent: a full timeline drops and counts it.      *)
Insert(c, k, d, x, room) ==
  IF Fits(c.line[k], d, room)
  THEN [c EXCEPT !.line[k] = Inserted(@, d, x), !.has[k] = TRUE]
  ELSE [c EXCEPT !.dropped = @ + 1]

(* flushEvents at the end of a block.                                      *)
Flushed(c) == [c EXCEPT !.line = [k \in Kind |-> Sentinel(Last(c.line[k]))]]

-----------------------------------------------------------------------------
(* The profile.                                                            *)

NoSeed == [bend |-> Absent, pitch |-> Absent, pressure |-> Absent]
SeedOf(s, k) == IF k = "pitch" THEN s.pitch ELSE s.pressure
RangeOf(c) == IF c = Manager THEN range.manager ELSE range.member

(* What a channel's message stands for: bends are given in semitones only  *)
(* with the profile on.                                                    *)
Resolved(c, k, x) == IF k = "pitch" /\ mpe THEN x * RangeOf(c) ELSE x

(* Mutant: pressure is broadcast and not kept for later notes. *)
KeptPitchOnly(c, k, x) ==
  IF ~mpe \/ k # "pitch" THEN seed
  ELSE [seed EXCEPT ![c].bend = x, ![c].pitch = Resolved(c, k, x)]

(* resolvePitch keeps the bend of any channel, resolvePressure a member's. *)
Kept(c, k, x) ==
  IF ~mpe THEN seed
  ELSE IF k = "pitch" THEN [seed EXCEPT ![c].bend = x, ![c].pitch = Resolved(c, k, x)]
  ELSE IF c = Manager THEN seed ELSE [seed EXCEPT ![c].pressure = x]

OfMember(s, c) == note[s].active /\ note[s].source = c

(* dispatchExpression: to the notes of a member, or to a broad context.    *)
Broadcast(cs, c, k, d, x) ==
  [s \in Slot |-> IF OfMember(s, c) THEN Insert(cs[s], k, d, x, Capacity) ELSE cs[s]]

(* The compatibility accessors keep the plain value in the global context, *)
(* with the profile on too; the zone's context takes the resolved one.     *)
ToGlobal(k, d, x) == [broad EXCEPT !.global = Insert(@, k, d, x, LastFrame + 2)]
ToBroad(k, d, x) ==
  IF mpe
  THEN [ToGlobal(k, d, x) EXCEPT !.zone = Insert(@, k, d, Resolved(Manager, k, x), LastFrame + 2)]
  ELSE ToGlobal(k, d, x)

-----------------------------------------------------------------------------
(* Voices.                                                                 *)

Id(s) == [slot |-> s, generation |-> note[s].generation]

(* getExpressionContext for a note: nothing once its slot is not its own.  *)
Attached(v) == note[v.id.slot].active /\ context[v.id.slot].generation = v.id.generation

(* What a voice hears of its own note: a frozen timeline goes first.       *)
Hears(v, k) ==
  IF v.frozen[k] # <<>> THEN Last(v.frozen[k])
  ELSE IF Attached(v) /\ context[v.id.slot].has[k] THEN Last(context[v.id.slot].line[k])
  ELSE Absent

(* Mutant: only the event at the start of the block is kept. *)
FrozenFirst(v, d) ==
  [v EXCEPT !.off = TRUE,
     !.frozen = [k \in Kind |->
       IF v.frozen[k] = <<>> /\ Attached(v) /\ context[v.id.slot].has[k]
       THEN SubSeq(context[v.id.slot].line[k], 1, 1) ELSE v.frozen[k]]]

(* Voice::freezeNoteExpression at the offset of the Note Off.              *)
Frozen(v, d) ==
  [v EXCEPT !.off = TRUE,
     !.frozen = [k \in Kind |->
       IF v.frozen[k] = <<>> /\ Attached(v) /\ context[v.id.slot].has[k]
       THEN SubSeq(context[v.id.slot].line[k], 1, Earlier(context[v.id.slot].line[k], d + 1))
       ELSE v.frozen[k]]]

(* History: what the player last sent to a note while it was held, and the *)
(* kinds of which the timeline was too full for the latest.                *)
Told(v, k, x, d) ==
  [v EXCEPT !.own[k] = x,
            !.behind = IF Fits(context[v.id.slot].line[k], d, Capacity) THEN @ \ {k} ELSE @ \cup {k}]

-----------------------------------------------------------------------------
(* Messages.                                                               *)

(* Offsets do not go back within a block.                                  *)
At(d) == d >= now /\ now' = d

Message(c, k, x, d) ==
  /\ messages < MaxMessages /\ messages' = messages + 1 /\ At(d)
  /\ seed' = Kept(c, k, x)
  /\ IF mpe /\ c # Manager
     THEN /\ context' = Broadcast(context, c, k, d, Resolved(c, k, x))
          /\ voices' = {IF v.source = c /\ ~v.off THEN Told(v, k, Resolved(c, k, x), d) ELSE v
                        : v \in voices}
          /\ UNCHANGED broad
     ELSE /\ broad' = ToBroad(k, d, x)
          /\ UNCHANGED <<context, voices>>
  /\ UNCHANGED <<mpe, range, note, retired, begun>>

(* hdNoteOn: the context of the slot starts afresh, from the seed if the   *)
(* profile is on.                                                          *)
Seeded(c) ==
  LET With(x, k) == IF mpe /\ c # Manager /\ SeedOf(seed[c], k) # Absent
                    THEN Insert(x, k, 0, SeedOf(seed[c], k), Capacity) ELSE x
      first == IF "pitch" \in Kind THEN With(Fresh, "pitch") ELSE Fresh
  IN IF "pressure" \in Kind THEN With(first, "pressure") ELSE first

NoteOn(c, s, d) ==
  LET g == note[s].generation + 1
      x == Seeded(c)
  IN /\ begun < MaxNotes /\ begun' = begun + 1 /\ ~note[s].active /\ At(d)
     /\ note' = [note EXCEPT ![s] = [active |-> TRUE, generation |-> g, source |-> c]]
     /\ retired' = retired + context[s].dropped
     /\ context' = [context EXCEPT ![s] = [generation |-> g, line |-> x.line,
                                           has |-> x.has, dropped |-> 0]]
     /\ voices' = voices \cup
          {[id |-> [slot |-> s, generation |-> g], source |-> c, zone |-> mpe,
            off |-> FALSE, behind |-> {},
            frozen |-> [k \in Kind |-> <<>>],
            own |-> [k \in Kind |-> IF mpe /\ c # Manager THEN SeedOf(seed[c], k) ELSE Absent]]}
     /\ UNCHANGED <<mpe, range, seed, broad, messages>>

NoteOff(s, d) ==
  /\ note[s].active /\ At(d)
  /\ voices' = {IF v.id = Id(s) THEN Frozen(v, d) ELSE v : v \in voices}
  /\ note' = [note EXCEPT ![s].active = FALSE]
  /\ UNCHANGED <<mpe, range, seed, context, broad, retired, begun, messages>>

(* The seeds under new ranges, as setPitchBendRange rescales them.         *)
Rescaled(manager, member) ==
  [c \in Member \cup {Manager} |->
     IF seed[c].bend = Absent THEN seed[c]
     ELSE [seed[c] EXCEPT !.pitch = seed[c].bend * (IF c = Manager THEN manager ELSE member)]]

(* reapplyResolvedPitch, with the profile on: every channel that has sent  *)
(* a bend sends it again at an offset, in the new range.                   *)
Reapplied(d, seeds) ==
  /\ context' = [s \in Slot |->
       IF mpe /\ note[s].active /\ note[s].source # Manager /\ seeds[note[s].source].bend # Absent
       THEN Insert(context[s], "pitch", d, seeds[note[s].source].pitch, Capacity)
       ELSE context[s]]
  /\ broad' = IF mpe /\ seeds[Manager].bend # Absent
              THEN [broad EXCEPT !["zone"] =
                     Insert(@, "pitch", d, seeds[Manager].pitch, LastFrame + 2)]
              ELSE broad
  /\ voices' = {IF mpe /\ v.source # Manager /\ ~v.off /\ seeds[v.source].bend # Absent
                THEN Told(v, "pitch", seeds[v.source].pitch, d) ELSE v : v \in voices}

(* RPN 0 on a channel: a bend range, reapplied at the message's offset; the*)
(* seeds follow only with the profile on.                                  *)
RpnRange(c, r, d) ==
  LET ranges == IF c = Manager THEN [range EXCEPT !.manager = r] ELSE [range EXCEPT !.member = r]
      seeds == IF mpe THEN Rescaled(ranges.manager, ranges.member) ELSE seed
  IN /\ "pitch" \in Kind /\ ranges # range /\ At(d)
     /\ messages < MaxMessages /\ messages' = messages + 1
     /\ range' = ranges /\ seed' = seeds
     /\ Reapplied(d, seeds)
     /\ UNCHANGED <<mpe, note, retired, begun>>

(* Synth::setMPEPitchBendRange reapplies at offset zero.                   *)
SetRange(manager, member) ==
  /\ "pitch" \in Kind /\ messages < MaxMessages /\ messages' = messages + 1
  /\ CallsBetween => now = 0 /\ mpe
  /\ range' = [manager |-> manager, member |-> member]
  /\ seed' = Rescaled(manager, member)
  /\ Reapplied(0, seed')
  /\ UNCHANGED <<mpe, note, retired, now, begun>>

(* RPN 6 on the Manager's channel; voices and notes go on.                 *)
RpnMpe(on) ==
  /\ mpe # on /\ mpe' = on
  /\ messages < MaxMessages /\ messages' = messages + 1
  /\ UNCHANGED <<range, seed, note, context, broad, retired, voices, now, begun>>

(* resetAllControllers: from the Manager, or any channel without MPE.      *)
ResetControllers ==
  /\ messages < MaxMessages /\ messages' = messages + 1
  /\ seed' = [c \in Member \cup {Manager} |-> NoSeed]
  /\ context' = [s \in Slot |-> [generation |-> context[s].generation, line |-> Fresh.line,
                                 has |-> Fresh.has, dropped |-> 0]]
  /\ broad' = [zone |-> Fresh,
               global |-> IF "pitch" \in Kind
                          THEN Insert(broad.global, "pitch", now, 0, LastFrame + 2)
                          ELSE broad.global]
  /\ voices' = {IF v.off THEN v ELSE [v EXCEPT !.own = [k \in Kind |-> Absent],
                                               !.behind = {}] : v \in voices}
  /\ UNCHANGED <<mpe, range, note, retired, now, begun>>

(* allSoundOff, also when the host switches the profile off.               *)
Silenced ==
  /\ voices' = {} /\ note' = [s \in Slot |-> [note[s] EXCEPT !.active = FALSE]]

AllSoundOff ==
  /\ voices # {} /\ Silenced
  /\ UNCHANGED <<mpe, range, seed, context, broad, retired, now, begun, messages>>

SetMpe(on) ==
  /\ messages < MaxMessages /\ messages' = messages + 1
  /\ mpe # on /\ mpe' = on
  /\ IF on THEN UNCHANGED <<voices, note>> ELSE Silenced
  /\ UNCHANGED <<range, seed, context, broad, retired, now, begun>>

(* The end of a block: timelines collapse to their last value, as do the   *)
(* frozen ones; voices of released notes may end.                          *)
Render(ended) ==
  /\ \A v \in ended : v.off
  /\ context' = [s \in Slot |-> [context[s] EXCEPT !.line = Flushed(context[s]).line]]
  /\ broad' = [b \in DOMAIN broad |-> Flushed(broad[b])]
  /\ voices' = {[v EXCEPT !.frozen = [k \in Kind |->
                  IF v.frozen[k] = <<>> THEN <<>> ELSE Sentinel(Last(v.frozen[k]))]]
                : v \in voices \ ended}
  /\ now' = 0
  /\ UNCHANGED <<mpe, range, seed, note, retired, begun, messages>>

Init ==
  /\ mpe = TRUE /\ range = DefaultRange
  /\ seed = [c \in Member \cup {Manager} |-> NoSeed]
  /\ note = [s \in Slot |-> [active |-> FALSE, generation |-> 0, source |-> Manager]]
  /\ context = [s \in Slot |-> [generation |-> 0, line |-> Fresh.line, has |-> Fresh.has,
                                dropped |-> 0]]
  /\ broad = [zone |-> Fresh, global |-> Fresh]
  /\ retired = 0 /\ voices = {} /\ now = 0 /\ begun = 0 /\ messages = 0

Next ==
  \/ \E c \in Member \cup {Manager}, d \in Frame :
       \/ \E x \in Bend : "pitch" \in Kind /\ Message(c, "pitch", x, d)
       \/ \E x \in Press : "pressure" \in Kind /\ Message(c, "pressure", x, d)
       \/ \E s \in Slot : NoteOn(c, s, d)
       \/ \E r \in Ranges : RpnRange(c, r, d)
  \/ \E s \in Slot, d \in Frame : NoteOff(s, d)
  \/ \E manager, member \in Ranges : SetRange(manager, member)
  \/ \E on \in BOOLEAN : RpnMpe(on) \/ SetMpe(on)
  \/ ResetControllers \/ AllSoundOff
  \/ \E ended \in SUBSET voices : Render(ended)

Spec == Init /\ [][Next]_vars

-----------------------------------------------------------------------------
(* Properties.                                                             *)

Contexts == {context[s] : s \in Slot} \cup {broad.zone, broad.global}

(* Every timeline, a released voice's too, starts at the block's first     *)
(* frame, never goes back in time and stays within what was allocated for  *)
(* it: what linearEnvelope assumes of the events it reads.                 *)
Ordered(line) ==
  /\ line[1].at = 0
  /\ \A i \in 1 .. Len(line) - 1 : line[i].at < line[i + 1].at
TimelinesOrdered ==
  /\ \A x \in Contexts, k \in Kind : Ordered(x.line[k])
  /\ \A s \in Slot, k \in Kind : Len(context[s].line[k]) <= Capacity
  /\ \A v \in voices, k \in Kind : v.frozen[k] # <<>> => Ordered(v.frozen[k])

(* A voice hears what was sent to its own note while it was held, and goes *)
(* on hearing the last of it after the Note Off: not what is sent to later *)
(* notes of its channel, to other members, or to a note in the same slot.  *)
(* A full timeline leaves it behind in that kind only, and no longer than  *)
(* until an event of the kind finds room again; what is lost is counted.   *)
VoiceKeepsOwn ==
  \A v \in voices :
    /\ \A k \in Kind : k \notin v.behind => Hears(v, k) = v.own[k]
    /\ v.behind # {} /\ ~v.off => context[v.id.slot].dropped > 0

(* A held note begun with the profile on has the member's last expression, *)
(* whether it came before the note or after, and in the present range, or  *)
(* is behind in a kind whose latest event was dropped.                     *)
NoteFollowsMember ==
  \A v \in voices, k \in Kind :
    mpe /\ v.zone /\ v.source # Manager /\ ~v.off /\ k \notin v.behind
      => Hears(v, k) = SeedOf(seed[v.source], k)

=============================================================================
