------------------------------ MODULE Playback ------------------------------
(***************************************************************************)
(* The place of a voice in its sample: which frame it reads for each frame *)
(* of a block (Voice::Impl::fillWithData), through loops, the end of       *)
(* loops, repeated one-shots and the end of the sample.                    *)
(*                                                                         *)
(* A frame of the sample is Grain ticks; a voice moves by sample.step      *)
(* ticks per frame, so that part, the fraction of a frame, is whole.       *)
(***************************************************************************)
EXTENDS Integers

CONSTANT Grain

ASSUME PlaybackAssumption == Grain \in Nat \ {0}

Least(a, b) == IF a < b THEN a ELSE b
Most(a, b) == IF a > b THEN a ELSE b

(* Region::shouldLoop *)
Loops(sample) == sample.mode \in {"sustain", "continuous"}

(* A voice moves forward, and no loop ends before it starts.               *)
Plausible(sample) ==
  /\ {sample.offset, sample.end, sample.frames, sample.start, sample.loopEnd} \subseteq Int
  /\ sample.fade \in Int /\ {sample.loops, sample.count, sample.step} \subseteq Nat
  /\ Loops(sample) => sample.start <= sample.loopEnd

(* Mutant: the last frame of the loop is not counted. *)
LoopSizeWithoutEnd(sample) == sample.loopEnd - sample.start
(* Voice::Impl::updateLoopInformation *)
LoopSize(sample) == sample.loopEnd + 1 - sample.start
FadeStart(sample) == sample.loopEnd + 1 - Least(sample.start, sample.fade)

CountReached(sample, restarts) == sample.loops > 0 /\ restarts >= sample.loops

ShouldLoop(sample, p, released) ==
  /\ sample.loopEnd < sample.frames /\ ~CountReached(sample, p.restarts)
  /\ sample.mode = "continuous" \/ (sample.mode = "sustain" /\ ~released)

(* Voice::startVoice *)
SampleSize(sample) == sample.end - sample.offset - 1
LastFrame(sample) == Least(sample.end, sample.frames) - 1

(* Ticks from the beginning, the loop not closed: a voice that has just    *)
(* started reads its first frame where it stands.                          *)
TickOf(sample, p, i) ==
  p.position * Grain + p.part + (IF p.age = 0 THEN i - 1 ELSE i) * sample.step
IndexOf(sample, p, i) == TickOf(sample, p, i) \div Grain

(* The next frame of a block while a voice loops, or after a loop that was *)
(* closed often enough.                                                    *)
LoopStep(sample, p, i, last) ==
  LET size == LoopSize(sample)
      index == IndexOf(sample, p, i) - size * last.closed
      over == Most(index - sample.loopEnd, 0)
      times == (over + size - 1) \div size
      wrapped == index - size * times
      closed == last.closed + times
  IN IF ~last.looping THEN [last EXCEPT !.index = Least(index, LastFrame(sample))]
     ELSE [index |-> wrapped, closed |-> closed,
           looping |-> ~(wrapped < last.index /\ CountReached(sample, p.restarts + closed)),
           fades |-> last.fades \/ wrapped >= Most(sample.start, FadeStart(sample))]

LoopPass(sample, p, n) ==
  LET f[i \in 0 .. n] ==
        IF i = 0 THEN [index |-> 0, closed |-> 0, looping |-> TRUE, fades |-> FALSE]
        ELSE LoopStep(sample, p, i, f[i - 1])
  IN f[n]

(* The next frame of a one shot, some of which repeat, or of a loop that   *)
(* has ended.                                                              *)
StraightStep(sample, p, i, last) ==
  LET index == IndexOf(sample, p, i) - SampleSize(sample) * last.repeats
      again == p.count + last.repeats < sample.count /\ ~Loops(sample)
  IN IF last.over \/ (index >= LastFrame(sample) /\ ~again)
     THEN [index |-> LastFrame(sample), repeats |-> last.repeats, over |-> TRUE]
     ELSE IF index >= LastFrame(sample)
          THEN [index |-> index - SampleSize(sample), repeats |-> last.repeats + 1, over |-> FALSE]
          ELSE [last EXCEPT !.index = index]

StraightPass(sample, p, n) ==
  LET f[i \in 0 .. n] ==
        IF i = 0 THEN [index |-> 0, repeats |-> 0, over |-> FALSE]
        ELSE StraightStep(sample, p, i, f[i - 1])
  IN f[n]

(* Where a voice stands when a region's voice starts.                      *)
Started(sample, delay) ==
  [position |-> sample.offset, part |-> 0, age |-> 0, trigger |-> delay,
   restarts |-> 0, count |-> 1, ended |-> FALSE,
   travel |-> sample.offset * Grain, played |-> 0]

(* The place after n frames.  At the last frame the fraction stays just    *)
(* below a whole.  travel and played are histories.                        *)
Played(sample, p, n, released) ==
  LET loop == LoopPass(sample, p, n)
      straight == StraightPass(sample, p, n)
      looping == ShouldLoop(sample, p, released)
      index == IF looping THEN loop.index ELSE straight.index
      atEnd == IF looping THEN ~loop.looping /\ index = LastFrame(sample) ELSE straight.over
  IN [p EXCEPT
        !.position = index,
        !.part = IF atEnd THEN Grain - 1 ELSE TickOf(sample, p, n) % Grain,
        !.restarts = IF looping THEN @ + loop.closed ELSE @,
        !.count = IF looping THEN @ ELSE @ + straight.repeats,
        !.ended = @ \/ (~looping /\ straight.over),
        !.travel = @ + TickOf(sample, p, n) - (p.position * Grain + p.part),
        !.played = @ + n]

(* Voice::renderBlock, after the block: the trigger's delay is taken off   *)
(* once.                                                                   *)
Aged(p, n) ==
  [p EXCEPT !.age = IF p.trigger = 0 - 1 THEN @ + n ELSE Least(@ + n - p.trigger, 0),
            !.trigger = 0 - 1]
=============================================================================
