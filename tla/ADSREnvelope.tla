---------------------------- MODULE ADSREnvelope ----------------------------
(***************************************************************************)
(* The amplitude envelope of a voice (ADSREnvelope) under the notes, chokes*)
(* and pedals that start, release and resume it (Voice, ModMatrix), block  *)
(* by block.  A block is rendered in segments: one step is one turn of the *)
(* loop of getBlockInternal, and takes as many frames as the stage, the    *)
(* chunk and the release allow.                                            *)
(*                                                                         *)
(* Levels are whole numbers from 0 to Full; an exponential stage multiplies*)
(* the level by a rate of 0, for a time of zero, or one half.              *)
(***************************************************************************)
EXTENDS VoiceBlocks

CONSTANTS
  Patches,       \* envelopes: dynamic, one-shot generator, and their shapes
  Full,          \* the level 1.0
  Threshold,     \* egReleaseThreshold
  FreeThreshold, \* sustainFreeRunningThreshold
  VirtuallyZero, \* config::virtuallyZero
  Transition,    \* egTransitionTime, in frames
  CancelInDelay  \* may a release be cancelled before the delay is over

Stage == {"delay", "attack", "hold", "decay", "sustain", "release", "fadeout", "done"}
Held == {"delay", "attack", "hold", "decay", "sustain"}  \* before Release
Level == 0 .. Full
Shape == [delay : Nat, attack : 1 .. Full, hold : Nat, decay : {0, 1}, sustain : Level,
          start : Level, release : {0, 1}]

ASSUME EnvelopeAssumption ==
  /\ Full \in Nat \ {0} /\ Threshold \in Level \ {0, Full} /\ FreeThreshold \in Level
  /\ VirtuallyZero \in Nat /\ Transition \in Nat \ {0}
  /\ CancelInDelay \in BOOLEAN
  /\ \A p \in Patches : /\ p.dynamic \in BOOLEAN /\ p.oneShot \in BOOLEAN
                        /\ p.shapes \subseteq Shape

VARIABLE eg    \* the envelope's fields

vars == <<blocks, eg>>

-----------------------------------------------------------------------------
(* The envelope's parameters, which controllers move if it is dynamic.     *)

(* updateValues at an offset of the block; a dynamic shape is any.         *)
Updated(e, s, offset) ==
  [e EXCEPT !.delay = IF e.state = "delay" THEN offset + s.delay ELSE @,
            !.attackStep = s.attack, !.decayRate = s.decay, !.releaseRate = s.release,
            !.hold = s.hold, !.sustain = s.sustain, !.start = s.start]

(* reset keeps the last transition of the voice.                           *)
Reset(e, s, p, offset) ==
  [Updated([e EXCEPT !.state = "delay"], s, offset) EXCEPT
     !.dynamic = p.dynamic, !.releaseDelay = 0, !.shouldRelease = FALSE,
     !.freeRunning = s.sustain <= FreeThreshold \/ p.oneShot, !.level = s.start]

(* A level after some frames of an exponential stage.                      *)
Faded(x, rate, n) == IF n = 0 THEN x ELSE IF rate = 0 THEN 0 ELSE x \div 2^n

(* The frames for which such a stage stays above a level.                  *)
Above(x, rate, floor, size) == Cardinality({n \in 1 .. size : Faded(x, rate, n) > floor})

(* Mutant: a transition that leads away from its level. *)
SlopeUp(height) == (height + Transition - 1) \div Transition

(* A transition down from a height, as a change for each frame.            *)
Slope(height) == -((height + Transition - 1) \div Transition)

-----------------------------------------------------------------------------
(* Messages.                                                               *)

Released(e) == e.state \notin Held \/ e.shouldRelease

NoteOn(p, s, d) ==
  /\ Begins(p, d, s.delay)
  /\ eg' = Reset(eg, s, p, d)

(* Mutant: the offset of the message is left out. *)
ReleaseNow(d, off, rate) ==
  /\ Releases(d, eg.delay)
  /\ eg' = [eg EXCEPT !.shouldRelease = TRUE, !.releaseDelay = 0,
                      !.releaseRate = IF off THEN rate ELSE @, !.dynamic = @ /\ ~off]

(* Voice::Impl::release ends a voice whose delay is not over; off, the end *)
(* of a choked or stolen voice, first sets the time of the release.        *)
Release(d, off, rate) ==
  /\ Releases(d, eg.delay)
  /\ eg' = [eg EXCEPT !.shouldRelease = TRUE, !.releaseDelay = d,
                      !.releaseRate = IF off THEN rate ELSE @, !.dynamic = @ /\ ~off]

(* The sustain pedal, under hint_sustain_cancels_release.                  *)
CancelRelease(d) ==
  /\ Resumes(d, Released(eg), TRUE)
  /\ CancelInDelay \/ eg.delay <= 0
  /\ eg' = [eg EXCEPT !.state = "sustain", !.shouldRelease = FALSE, !.releaseDelay = -1]

-----------------------------------------------------------------------------
(* Rendering.                                                              *)

(* getBlock: all of the block at once, or in chunks if dynamic.            *)
Block ==
  /\ BeginsBlock(eg.dynamic)
  /\ \E s \in patch.shapes : eg' = IF eg.dynamic THEN Updated(eg, s, 0) ELSE eg

NextChunk ==
  /\ BeginsChunk
  /\ \E s \in patch.shapes : eg' = Updated(eg, s, frames - rest)

(* A release that is due takes effect in this frame or in the next.        *)
Due(e) == e.shouldRelease /\ e.delay <= 0

Size(e, n) ==
  IF e.shouldRelease /\ e.releaseDelay > 0 THEN Least(n, e.releaseDelay)
  ELSE IF Due(e) /\ e.releaseDelay = 0 /\ e.delay = 0 THEN 1 ELSE n

(* Mutant: a release that takes effect in the next frame is forgotten. *)
EnteredOnce(e) ==
  IF Due(e) /\ e.releaseDelay = 0
  THEN [e EXCEPT !.state = IF e.delay < 0 THEN "release" ELSE @, !.releaseDelay = -1]
  ELSE e

Entered(e) ==
  IF Due(e) /\ e.releaseDelay = 0
  THEN [e EXCEPT !.state = IF e.delay < 0 THEN "release" ELSE @, !.releaseDelay = -1]
  ELSE IF Due(e) /\ e.releaseDelay = -1 /\ e.state \in Held
  THEN [e EXCEPT !.state = "release"]
  ELSE e

Rendering(stage) == left > 0 /\ Entered(eg).state = stage

(* A countdown loop takes one off even when it finds nothing left.         *)
Counted(n, size) == Least(size, Greatest(n, 0))
Spent(n, size) == IF n >= size THEN n - size ELSE Least(n, 0) - 1

(* The end of a turn: the frames rendered count towards the release.       *)
Advance(e, count) ==
  /\ eg' = IF e.shouldRelease THEN [e EXCEPT !.releaseDelay = Greatest(-1, @ - count)] ELSE e
  /\ Renders(count, eg.shouldRelease, -2)

InDelay ==
  LET e == Entered(eg)
      size == Size(eg, left)
      spent == Spent(e.delay, size)
      count == Counted(e.delay, size)
  IN /\ Rendering("delay")
     /\ Advance([e EXCEPT !.level = IF count > 0 THEN e.start ELSE @, !.delay = spent,
                          !.state = IF spent <= 0 THEN "attack" ELSE @], count)

InAttack ==
  LET e == Entered(eg)
      size == Size(eg, left)
      below == Greatest(Full - 1 - e.level, 0) \div e.attackStep
  IN /\ Rendering("attack")
     /\ IF below >= size
        THEN Advance([e EXCEPT !.level = @ + size * e.attackStep], size)
        ELSE Advance([e EXCEPT !.level = Full, !.state = "hold"], below)

InHold ==
  LET e == Entered(eg)
      size == Size(eg, left)
      spent == Spent(e.hold, size)
  IN /\ Rendering("hold")
     /\ Advance([e EXCEPT !.hold = spent, !.state = IF spent <= 0 THEN "decay" ELSE @],
                Counted(e.hold, size))

InDecay ==
  LET e == Entered(eg)
      size == Size(eg, left)
      count == Above(e.level, e.decayRate, e.sustain, size)
      x == Faded(e.level, e.decayRate, Least(count + 1, size))
      level == Greatest(e.sustain, x)
  IN /\ Rendering("decay")
     /\ IF x <= e.sustain + VirtuallyZero
        THEN Advance([e EXCEPT !.state = "sustain", !.level = level,
                               !.delta = Slope(level - e.sustain)], count)
        ELSE Advance([e EXCEPT !.level = x], count)

(* The frames a transition takes to come down to the sustain level.        *)
Settling(e, size) ==
  Cardinality({n \in 0 .. size - 1 : e.level + n * e.delta > e.sustain})

(* Mutant: a free-running envelope waits for a release of its own. *)
InSustainWaiting ==
  LET e == Entered(eg)
      size == Size(eg, left)
  IN /\ Rendering("sustain")
     /\ IF ~e.shouldRelease /\ e.freeRunning
        THEN Advance(e, 0)
        ELSE Advance([e EXCEPT !.level = @ + Settling(e, size) * e.delta], size)

InSustain ==
  LET e == Entered(eg)
      size == Size(eg, left)
  IN /\ Rendering("sustain")
     /\ IF ~e.shouldRelease /\ e.freeRunning
        THEN Advance([e EXCEPT !.shouldRelease = TRUE], 0)
        ELSE Advance([e EXCEPT !.level = @ + Settling(e, size) * e.delta], size)

(* The last level above the threshold is where the fadeout begins.         *)
InRelease ==
  LET e == Entered(eg)
      size == Size(eg, left)
      count == Above(e.level, e.releaseRate, Threshold, size)
      level == Faded(e.level, e.releaseRate, count)
  IN /\ Rendering("release")
     /\ IF count = size
        THEN Advance([e EXCEPT !.level = level], size)
        ELSE Advance([e EXCEPT !.level = level, !.state = "fadeout",
                               !.delta = Slope(Greatest(Threshold, level))], count)

InFadeout ==
  LET e == Entered(eg)
      size == Size(eg, left)
      count == Cardinality({n \in 1 .. size : e.level + n * e.delta > 0})
  IN /\ Rendering("fadeout")
     /\ IF count = size
        THEN Advance([e EXCEPT !.level = @ + size * e.delta], size)
        ELSE Advance([e EXCEPT !.level = 0, !.state = "done"], count)

InDone ==
  /\ Rendering("done")
  /\ Advance([Entered(eg) EXCEPT !.level = 0], Size(eg, left))

Segment ==
  InDelay \/ InAttack \/ InHold \/ InDecay \/ InSustain \/ InRelease \/ InFadeout \/ InDone

EndBlock == EndsBlock(eg.state = "done") /\ UNCHANGED eg

EgInit ==
  eg = [state |-> "done", level |-> 0, delay |-> 0, attackStep |-> 1, decayRate |-> 0,
        releaseRate |-> 0, hold |-> 0, start |-> 0, sustain |-> 0, releaseDelay |-> 0,
        shouldRelease |-> FALSE, freeRunning |-> FALSE, dynamic |-> FALSE, delta |-> 0]

EgRender == Block \/ NextChunk \/ Segment \/ EndBlock
EgNext ==
  \/ \E d \in Offsets :
       \/ \E p \in Patches : \E s \in p.shapes : NoteOn(p, s, d)
       \/ \E off \in BOOLEAN, rate \in {0, 1} : Release(d, off, rate)
       \/ CancelRelease(d)
  \/ EgRender

-----------------------------------------------------------------------------
(* Properties.                                                             *)

(* A release takes effect when its offset and the delay of the note are    *)
(* over, or one frame later: never before, and never much later, however   *)
(* blocks, chunks and stages fall.                                         *)
ReleaseOnTime ==
  eg.shouldRelease /\ eg.state \in Held /\ voice = "playing" => wait >= -1
ReleaseNotEarly ==
  [][rendering /\ eg.state \in Held /\ eg'.state \notin Held => patch.dynamic \/ wait <= 0]_vars

(* Once released, the level never rises while it is above silence.         *)
ReleaseFalls ==
  [][left > 0 /\ Entered(eg).state \notin Held => eg'.level <= Greatest(eg.level, 0)]_vars
=============================================================================
