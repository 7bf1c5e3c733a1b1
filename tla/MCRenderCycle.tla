---------------------------- MODULE MCRenderCycle ----------------------------
(* Instances of RenderCycle for TLC.                                       *)
EXTENDS RenderCycle

Pool == [mono |-> 6, stereo |-> 4, index |-> 4]   \* Config.h
Nothing == <<0, "none", 0>>

Controller == [kind |-> "cycle", region |-> 0, subs |-> 0, number |-> 0, beats |-> FALSE]
Envelope(r) == [Controller EXCEPT !.kind = "voice", !.region = r]
Lfo(r, n, subs, inBeats) ==
  [Envelope(r) EXCEPT !.number = n, !.subs = subs, !.beats = inBeats]
Fed(s) == [source |-> s, depth |-> Nothing]

Plain == [offset |-> 0, end |-> 9, frames |-> 9, mode |-> "one_shot", start |-> 0,
          loopEnd |-> 8, fade |-> 0, loops |-> 0, count |-> 0, step |-> 2]
Noise == [kind |-> "noise", stereo |-> FALSE, filters |-> 0, equalizers |-> 0,
          notePitch |-> FALSE, delay |-> 0, releases |-> TRUE, sample |-> Plain]
Sampler(sample) == [Noise EXCEPT !.kind = "sample", !.sample = sample]

Scenario(regions, sources, feeds) ==
  [regions |-> regions, sources |-> sources, feeds |-> feeds,
   blocks |-> 2, notes |-> 2, messages |-> 0, sizes |-> {2}, delays |-> {0}, owners |-> {1}]

(* Voices of one region, with all that a pool can be asked for at a time:  *)
(* an oscillator in unison, and a filter whose cutoff an LFO moves, of     *)
(* which an envelope changes the frequency.                                *)
Unison ==
  Scenario(<<[Noise EXCEPT !.kind = "unison", !.filters = 1, !.notePitch = TRUE]>>,
    <<Controller, Envelope(1), Lfo(1, 1, 1, FALSE), Lfo(1, 2, 1, FALSE)>>,
    (<<1, "masterAmplitude", 0>> :> {Fed(2)} @@ <<1, "detune", 0>> :> {Fed(1)}
     @@ <<1, "pitch", 0>> :> {[source |-> 3, depth |-> <<1, "pitchDepth", 0>>], Fed(1)}
     @@ <<1, "pitchDepth", 0>> :> {Fed(1)}
     @@ <<1, "cutoff", 1>> :> {Fed(2), Fed(4)} @@ <<1, "frequency", 2>> :> {Fed(1), Fed(2)}))

(* Two regions that take turns: a stereo sample and an oscillator with a   *)
(* modulator.  An LFO of the second moves the width, which only stereo     *)
(* regions have.                                                           *)
Regions2 ==
  [Scenario(<<[Sampler([Plain EXCEPT !.mode = "continuous", !.start = 3, !.loopEnd = 5, !.fade = 2])
               EXCEPT !.stereo = TRUE, !.notePitch = TRUE, !.equalizers = 1],
              [Noise EXCEPT !.kind = "modulated"]>>,
    <<Controller, Envelope(1), Lfo(1, 1, 1, FALSE), Envelope(2), Lfo(2, 1, 1, FALSE)>>,
    (<<1, "masterAmplitude", 0>> :> {Fed(2)} @@ <<1, "pitch", 0>> :> {Fed(3)}
     @@ <<1, "eqGain", 1>> :> {Fed(3), Fed(1)} @@ <<1, "position", 0>> :> {Fed(1)}
     @@ <<2, "masterAmplitude", 0>> :> {Fed(4)} @@ <<2, "width", 0>> :> {Fed(5)}
     @@ <<2, "modDepth", 0>> :> {Fed(4), Fed(1)} @@ <<2, "frequency", 1>> :> {Fed(1)}))
   EXCEPT !.delays = {0, 1}, !.sizes = {3}]

(* A sample, alone, with an LFO on its pitch and a note that is delayed    *)
(* beyond a block.                                                         *)
Alone(sample) ==
  [Scenario(<<[Sampler(sample) EXCEPT !.delay = 3]>>, <<Envelope(1), Lfo(1, 1, 1, FALSE)>>,
    (<<1, "masterAmplitude", 0>> :> {Fed(1)} @@ <<1, "pitch", 0>> :> {Fed(2)}))
   EXCEPT !.blocks = 6, !.notes = 1, !.sizes = {2, 5}, !.delays = {0, 1}]

Looped == [Plain EXCEPT !.start = 2, !.loopEnd = 4, !.fade = 1]
Samples ==
  { [Plain EXCEPT !.frames = 0], [Plain EXCEPT !.step = 3], [Plain EXCEPT !.offset = 2, !.frames = 7],
    [Plain EXCEPT !.offset = 1, !.end = 5, !.count = 3, !.step = 1],
    [Looped EXCEPT !.mode = "sustain", !.step = 3],
    [Looped EXCEPT !.mode = "sustain", !.loops = 2, !.step = 1],
    [Looped EXCEPT !.mode = "continuous", !.step = 7],
    [Looped EXCEPT !.mode = "continuous", !.loops = 3, !.step = 3] }

(* An LFO in beats, and a host.                                            *)
Synced ==
  [Scenario(<<Noise>>, <<Controller, Lfo(1, 1, 2, TRUE)>>,
    (<<1, "amplitude", 0>> :> {Fed(2)} @@ <<1, "beats", 1>> :> {Fed(1)}))
   EXCEPT !.blocks = 3, !.notes = 1, !.messages = 3, !.sizes = {1, 3}]

(* An oscillator that nobody asks for, as the region is mono, and an       *)
(* envelope, registered before it, that moves its frequency.               *)
Unheard ==
  Scenario(<<Noise>>, <<Envelope(1), Envelope(1), Lfo(1, 1, 1, FALSE)>>,
    (<<1, "masterAmplitude", 0>> :> {Fed(1)} @@ <<1, "width", 0>> :> {Fed(3)}
     @@ <<1, "frequency", 1>> :> {Fed(2)}))

AllPatches == {Unison, Regions2, Synced, Unheard} \union {Alone(s) : s \in Samples}

(* A member's controller moves the cutoff of two notes.                    *)
TwoNotes ==
  [Scenario(<<[Noise EXCEPT !.filters = 1]>>, <<Controller, Envelope(1)>>,
    (<<1, "masterAmplitude", 0>> :> {Fed(2)} @@ <<1, "cutoff", 1>> :> {Fed(1)}))
   EXCEPT !.owners = {1, 2}]
Shared == {TwoNotes}
Steady == {[Alone(Plain) EXCEPT !.regions[1].delay = 0]}
=============================================================================
