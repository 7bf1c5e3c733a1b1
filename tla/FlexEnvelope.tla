---------------------------- MODULE FlexEnvelope ----------------------------
(***************************************************************************)
(* An envelope given by points (FlexEnvelope), as the amplitude envelope of*)
(* a voice: the region has an egN_ampeg.  A block, or a chunk of a dynamic *)
(* envelope, first skips the trigger offset; then every turn of the loop of*)
(* process takes up a release that is due, moves on to the next stage, or  *)
(* renders the frames up to the end of the stage or to the release.        *)
(*                                                                         *)
(* Times are whole frames, levels whole numbers, and stages are linear.    *)
(***************************************************************************)
EXTENDS VoiceBlocks

CONSTANTS
  FlexPatches,   \* dynamic, freely running, the sustain stage and the points
  Highest,       \* the highest level
  Longest        \* the longest time of a stage

(* Controllers may make a time negative. *)
FlexPoint == [time : {t \in Int : t <= Longest}, level : 0 .. Highest]

ASSUME FlexAssumption ==
  /\ Highest \in Nat /\ Longest \in Nat
  /\ \A p \in FlexPatches :
       /\ p.dynamic \in BOOLEAN /\ p.oneShot \in BOOLEAN /\ p.sustain \in Nat
       /\ p.stages \in Nat /\ p.delay \in Nat  \* the region's delay, in frames
       /\ p.shapes # {} /\ p.shapes \subseteq [0 .. p.stages - 1 -> FlexPoint]

VARIABLE flex    \* the envelope's fields

flexVars == <<blocks, flex>>

None == -1    \* no release is asked for

FlexFinished(e) == e.stage >= patch.stages
Sustained(e) == e.stage = patch.sustain

-----------------------------------------------------------------------------
(* Stages.  The controllers that move the points are a choice of shape, at *)
(* the entry of a stage and, if the envelope is dynamic, in every chunk.   *)

(* updateCurrentTimeAndLevel, which does nothing past the last stage.      *)
Read(e, s) ==
  IF e.stage \in DOMAIN s
  THEN [e EXCEPT !.target = s[e.stage].level, !.length = s[e.stage].time]
  ELSE e

(* Mutant: a stage begins at the level the one before it was to reach. *)
AdvanceToStageTarget(e, stage, s) ==
  IF stage \in DOMAIN s
  THEN Read([e EXCEPT !.stage = stage, !.source = e.target, !.time = 0], s)
  ELSE [e EXCEPT !.stage = stage]

AdvanceToStage(e, stage, s) ==
  IF stage \in DOMAIN s
  THEN Read([e EXCEPT !.stage = stage, !.source = e.level, !.time = 0], s)
  ELSE [e EXCEPT !.stage = stage]

(* Mutant: the sustain stage ends like any other. *)
CompleteSustained(e) == e.time >= e.length

(* A stage ends at its time unless it sustains the note.                   *)
Complete(e) == (~Sustained(e) \/ e.freeRunning) /\ e.time >= e.length

LevelAt(e, time) ==
  IF e.length < 0 THEN e.source
  ELSE IF time >= e.length THEN e.target
  ELSE e.source + ((e.target - e.source) * time) \div e.length

-----------------------------------------------------------------------------
(* Messages.                                                               *)

(* configure and start.                                                    *)
FlexNoteOn(p, d) ==
  /\ Begins(p, d, p.delay)
  /\ \E s \in p.shapes :
       flex' = AdvanceToStage(
                 [flex EXCEPT !.freeRunning = p.oneShot, !.isReleased = FALSE, !.level = 0,
                              !.time = 0, !.delay = d + p.delay, !.untilRelease = None, !.late = 0],
                 0, s)

FlexRelease(d) ==
  /\ Releases(d, flex.delay)
  /\ flex' = [flex EXCEPT !.untilRelease = d, !.late = flex.delay]

(* A release to come is cancelled before one that has happened.            *)
FlexCancelRelease(d) ==
  /\ Resumes(d, flex.isReleased, flex.untilRelease = None)
  /\ \E s \in patch.shapes :
       flex' = IF flex.untilRelease # None THEN [flex EXCEPT !.untilRelease = None]
               ELSE [AdvanceToStage([flex EXCEPT !.isReleased = FALSE], patch.sustain, s)
                       EXCEPT !.target = flex.level]

-----------------------------------------------------------------------------
(* Rendering.                                                              *)

FlexBlock ==
  /\ BeginsBlock(patch.dynamic)
  /\ \E s \in patch.shapes : flex' = IF patch.dynamic THEN Read(flex, s) ELSE flex

FlexNextChunk ==
  /\ BeginsChunk
  /\ \E s \in patch.shapes : flex' = Read(flex, s)

FlexRenders(e, count) ==
  /\ flex' = e
  /\ Renders(count, flex.untilRelease # None, -1 - flex.late)

(* The frames skipped are not counted towards the release.                 *)
FlexSkip ==
  LET skipped == Least(left, flex.delay) IN
  /\ left > 0 /\ flex.delay > 0
  /\ FlexRenders([flex EXCEPT !.delay = @ - skipped], skipped)

Turning == left > 0 /\ flex.delay = 0 /\ ~FlexFinished(flex)

FlexIsDue == flex.untilRelease = 0
FastForward == flex.isReleased /\ flex.stage <= patch.sustain

FlexDue ==
  /\ Turning /\ FlexIsDue
  /\ FlexRenders([flex EXCEPT !.isReleased = TRUE, !.untilRelease = None], 0)

(* On release, fast forward past the sustain stage.                        *)
FlexFastForward ==
  /\ Turning /\ ~FlexIsDue /\ FastForward
  /\ \E s \in patch.shapes : FlexRenders(AdvanceToStage(flex, flex.stage + 1, s), 0)

FlexComplete ==
  /\ Turning /\ ~FlexIsDue /\ ~FastForward /\ Complete(flex)
  /\ \E s \in patch.shapes :
       FlexRenders(
         AdvanceToStage(IF flex.length = 0 THEN [flex EXCEPT !.level = flex.target] ELSE flex,
                        flex.stage + 1, s), 0)

(* Frames are rendered to the end of the stage and not past the release.   *)
(* The time of a sustained stage goes on, to no effect once it is over; it *)
(* is not counted further than the longest time.                           *)
FlexRun ==
  LET most == IF flex.untilRelease = None THEN left ELSE Least(left, flex.untilRelease)
      count == IF Sustained(flex) THEN most ELSE Least(most, flex.length - flex.time)
  IN /\ Turning /\ ~FlexIsDue /\ ~FastForward /\ ~Complete(flex)
     /\ FlexRenders([flex EXCEPT !.time = Least(flex.time + count, Longest),
                                 !.level = LevelAt(flex, flex.time + count),
                                 !.untilRelease = IF @ = None THEN @ ELSE @ - count], count)

FlexSilence == left > 0 /\ flex.delay = 0 /\ FlexFinished(flex) /\ FlexRenders(flex, left)

FlexEndBlock == EndsBlock(FlexFinished(flex)) /\ UNCHANGED flex

FlexInit ==
  flex = [stage |-> 0, level |-> 0, time |-> 0, source |-> 0, target |-> 0, length |-> 0,
          delay |-> 0, untilRelease |-> None, isReleased |-> FALSE, freeRunning |-> FALSE,
          late |-> 0]

FlexRender ==
  \/ FlexBlock \/ FlexNextChunk \/ FlexSkip \/ FlexDue \/ FlexFastForward
  \/ FlexComplete \/ FlexRun \/ FlexSilence \/ FlexEndBlock

FlexNext ==
  \/ \E d \in Offsets :
       \/ \E p \in FlexPatches : FlexNoteOn(p, d)
       \/ FlexRelease(d)
       \/ FlexCancelRelease(d)
  \/ FlexRender

-----------------------------------------------------------------------------
(* Properties.                                                             *)

(* A release takes effect when its offset is over, or later by as much of  *)
(* the trigger offset as was left when it was asked for: never early.      *)
FlexReleaseOnTime ==
  flex.untilRelease # None /\ ~FlexFinished(flex) /\ voice = "playing" => wait >= -flex.late
FlexReleaseNotEarly ==
  [][flex.isReleased' /\ ~flex.isReleased => wait <= 0]_flexVars

(* The level never jumps: a release or a resumption in the middle of a     *)
(* stage goes on from the level the voice has, with the slope of the stage.*)
FlexContinuous ==
  [][LET height == Greatest(flex.target - flex.source, flex.source - flex.target)
         change == Greatest(flex'.level - flex.level, flex.level - flex'.level)
     IN left > 0 /\ flex'.stage = flex.stage /\ flex.length > 0 /\ ~patch.dynamic
          => change * flex.length <= (left - left') * height + flex.length - 1]_flex
=============================================================================
