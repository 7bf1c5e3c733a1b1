----------------------------- MODULE RenderCycle -----------------------------
(***************************************************************************)
(* Synth::renderBlock: the voices take turns in a block; each runs its     *)
(* stages, which share the modulation matrix, the beat clock and the pool  *)
(* of buffers.  Between blocks voices start and are released, and the host *)
(* moves the clock.                                                        *)
(***************************************************************************)
EXTENDS ModMatrix, Playback, FiniteSets

CONSTANTS
  Voice,         \* 1 .. the number of voices, in the order of the list
  Patches,       \* instruments, and what happens to them
  MovedFrames    \* config::playheadMovedFrames

ASSUME RenderAssumption ==
  /\ Voice \subseteq Nat \ {0}
  /\ \A p \in Patches :
       /\ p.sizes \subseteq Size /\ p.delays \subseteq Nat
       /\ Len(p.sources) \in Nat /\ DOMAIN p.sources = 1 .. Len(p.sources)
       /\ WellConnected(p)
       /\ Nobody \notin DOMAIN p.regions
       /\ \A r \in DOMAIN p.regions :
            LET region == p.regions[r]
            IN /\ {region.filters, region.equalizers, region.delay} \subseteq Nat
               /\ region.kind \in {"noise", "single", "unison", "modulated", "sample"}
               /\ region.kind = "sample" => Plausible(region.sample)

VARIABLES
  voice,         \* the voices
  waiting,       \* voices the block has still to come to
  playheadMoved, \* playheadMoved_
  left           \* blocks, notes and messages of the host still to come

vars == <<matrix, clock, voice, waiting, playheadMoved, left>>

Region(r) == patch.regions[r]
Busy == {v \in Voice : voice[v].busy}
First(V) == CHOOSE v \in V : \A w \in V : v <= w

-----------------------------------------------------------------------------
(* The stages of a voice.                                                  *)
Mono == Take("mono")
Index == Take("index")
Target(r, name) == Ask(<<r, name, 0>>)

(* Mutant: the scratch buffer is held as long as the pitch. *)
PitchEnvelopeKept(r) ==
  (IF Region(r).notePitch THEN <<Mono>> ELSE <<>>) \o <<Target(r, "pitch")>>
PitchEnvelope(r) ==
  (IF Region(r).notePitch THEN <<Scratch(1)>> ELSE <<>>) \o <<Target(r, "pitch")>>

(* Voice::Impl::fillWithGenerator *)
FillWithGenerator(r) ==
  LET oscillator ==
        [single |-> <<Mono>>,
         unison |-> <<Mono, Mono, Mono, Target(r, "detune")>>,
         modulated |-> <<Mono, Mono, Target(r, "detune"), Target(r, "modDepth")>>]
  IN IF Region(r).kind = "noise" THEN <<>>
     ELSE <<Mono>> \o PitchEnvelope(r) \o <<Mono>> \o oscillator[Region(r).kind]

Released(v) == voice[v].released \/ voice[v].play.ended

(* Voice::Impl::fillWithData, for n frames after the voice's delay; it     *)
(* reads, and takes, nothing if the promise has an empty source.  That a   *)
(* voice of a sample has a promise is seen to by startVoice.               *)
FillWithData(v, n) ==
  LET r == voice[v].region
      sample == Region(r).sample
      loops == ShouldLoop(sample, voice[v].play, Released(v))
      fades == loops /\ LoopPass(sample, voice[v].play, n).fades
  IN IF n = 0 \/ sample.frames = 0 THEN <<>>
     ELSE <<Mono, Index, Mono>> \o PitchEnvelope(r) \o <<Give("mono")>>
          \o (IF loops THEN <<Index, Index>> ELSE <<>>)
          \o (IF fades THEN <<Mono, Mono, Index>> ELSE <<>>) \o <<Play>>

AmpStage(r) ==
  <<Mono, Target(r, "masterAmplitude"), Target(r, "amplitude"), Target(r, "volume"), Scratch(2)>>
PanStage(r) ==
  <<Mono, Target(r, "pan")>>
  \o (IF Region(r).stereo THEN <<Target(r, "width"), Target(r, "position")>> ELSE <<>>)
FilterStage(r, i) ==
  <<Mono, Mono, Mono, Ask(<<r, "cutoff", i>>), Ask(<<r, "resonance", i>>), Ask(<<r, "gain", i>>)>>
EqualizerStage(r, i) ==
  <<Mono, Mono, Mono, Ask(<<r, "eqFrequency", i>>), Ask(<<r, "eqBandwidth", i>>), Ask(<<r, "eqGain", i>>)>>

(* Voice::renderBlock, and ModMatrix::endVoice after it.                   *)
Stages(v) ==
  LET r == voice[v].region
      data == IF Region(r).kind = "sample"
              THEN FillWithData(v, Most(frames - voice[v].delay, 0)) ELSE FillWithGenerator(r)
      filters == [i \in 1 .. Region(r).filters |-> FilterStage(r, i)]
                 \o [i \in 1 .. Region(r).equalizers |-> EqualizerStage(r, i)]
      stages == <<data, AmpStage(r)>>
                \o (IF Region(r).stereo THEN <<PanStage(r)>> \o filters
                    ELSE filters \o <<PanStage(r)>>)
  IN [i \in DOMAIN stages |-> Frame("stage", i, stages[i], {})] \o <<Discards(r)>>

-----------------------------------------------------------------------------
(* Between blocks.                                                         *)
Spend(what) == left[what] > 0 /\ left' = [left EXCEPT ![what] = @ - 1]

StartVoice(v, r, delay, note) ==
  /\ ~cycle /\ Spend("notes")
  /\ v \notin Busy /\ v = First(Voice \ Busy)
  /\ voice' = [voice EXCEPT ![v] =
       [busy |-> TRUE, region |-> r, note |-> note, released |-> FALSE,
        delay |-> delay + Region(r).delay, play |-> Started(Region(r).sample, delay)]]
  /\ UNCHANGED <<matrix, clock, waiting, playheadMoved>>

ReleaseVoice(v) ==
  /\ ~cycle /\ v \in Busy /\ ~voice[v].released /\ Region(voice[v].region).releases
  /\ voice' = [voice EXCEPT ![v].released = TRUE]
  /\ UNCHANGED <<matrix, clock, waiting, playheadMoved, left>>

(* Synth::timePosition; the other messages go to the clock as they are.    *)
TimePosition(delay, p) ==
  /\ SetTimePosition(delay, p)
  /\ playheadMoved' = (playheadMoved \/ ({p - client, client - p} \cap 0 .. MovedFrames * speed = {}))

HostMessage ==
  /\ Spend("messages")
  /\ \E d \in Delay :
       \/ /\ UNCHANGED playheadMoved
          /\ \/ \E s \in Speed : SetTempo(d, s)
             \/ \E u \in Unit : SetTimeSignature(d, u)
             \/ \E on \in BOOLEAN : SetPlaying(d, on)
       \/ \E p \in Place : TimePosition(d, p)
  /\ UNCHANGED <<matrix, voice, waiting>>

-----------------------------------------------------------------------------
(* A block.  Its ramp, and the two buffers that it mixes in, stay taken to *)
(* the end.                                                                *)
CallbackBuffers == [mono |-> 1, stereo |-> 2, index |-> 0]

BeginBlock(n) ==
  /\ Spend("blocks")
  /\ used' = [p \in DOMAIN used |-> used[p] + CallbackBuffers[p]]
  /\ BeginCycleOfMatrix /\ BeginCycle(n)
  /\ waiting' = Busy
  /\ playheadMoved' = (playheadMoved /\ ~playing)
  /\ UNCHANGED <<patch, readyTargets, currentVoice, currentRegion, work, short, voice>>

BeginVoice ==
  /\ cycle /\ currentVoice = Nobody /\ waiting # {}
  /\ LET v == First(waiting)
     IN /\ waiting' = waiting \ {v}
        /\ BeginVoiceOfMatrix(v, voice[v].region)
        /\ work' = Stages(v)
  /\ UNCHANGED <<patch, used, made, filled, short, clock, voice, playheadMoved, left>>

Stage ==
  /\ MatrixStep
  /\ UNCHANGED <<clock, voice, waiting, playheadMoved, left>>

AskClock ==
  /\ Doing("clock") /\ GetRunning /\ work' = Resumed
  /\ UNCHANGED <<patch, currentVoice, currentRegion, used, short, buffers,
                 voice, waiting, playheadMoved, left>>

PlaySample ==
  /\ Doing("play") /\ work' = Resumed
  /\ voice' = [voice EXCEPT ![currentVoice].play =
       Played(Region(currentRegion).sample, @, frames - voice[currentVoice].delay,
              Released(currentVoice))]
  /\ UNCHANGED <<patch, currentVoice, currentRegion, used, short, buffers,
                 clock, waiting, playheadMoved, left>>

(* The end of Voice::renderBlock.  A released voice's envelope may be over *)
(* in any block, and the voice free.                                       *)
VoiceDone ==
  /\ currentVoice # Nobody /\ work = <<>>
  /\ currentVoice' = Nobody /\ currentRegion' = Nobody
  /\ \E free \in {FALSE, Released(currentVoice)} :
       voice' = [voice EXCEPT ![currentVoice].busy = ~free,
                              ![currentVoice].delay = Most(@ - frames, 0),
                              ![currentVoice].play = Aged(@, frames)]
  /\ UNCHANGED <<patch, buffers, work, used, short, clock, waiting, playheadMoved, left>>

EndBlock ==
  /\ cycle /\ waiting = {} /\ currentVoice = Nobody
  /\ EndCycleOfMatrix /\ EndCycle
  /\ used' = [p \in DOMAIN used |-> used[p] - CallbackBuffers[p]]
  /\ UNCHANGED <<patch, readySources, readyTargets, currentVoice, currentRegion,
                 work, made, filled, short, voice, waiting, playheadMoved, left>>

(* The scenario is over; no block is ever stuck.                           *)
Over == ~cycle /\ left.blocks = 0 /\ UNCHANGED vars

Idle == [busy |-> FALSE, region |-> Nobody, note |-> Nobody, released |-> FALSE, delay |-> 0,
         play |-> Started([offset |-> 0], 0)]

Init ==
  /\ patch \in Patches /\ MatrixInit /\ ClockInit
  /\ voice = [v \in Voice |-> Idle] /\ waiting = {} /\ playheadMoved = FALSE
  /\ left = [blocks |-> patch.blocks, notes |-> patch.notes, messages |-> patch.messages]

Next ==
  \/ \E v \in Voice : ReleaseVoice(v)
  \/ \E v \in Voice, r \in DOMAIN patch.regions, delay \in patch.delays, note \in patch.owners :
       StartVoice(v, r, delay, note)
  \/ HostMessage
  \/ \E n \in patch.sizes : BeginBlock(n)
  \/ BeginVoice \/ Stage \/ AskClock \/ PlaySample \/ VoiceDone \/ EndBlock
  \/ Over

Spec == Init /\ [][Next]_vars

-----------------------------------------------------------------------------
(* Properties.                                                             *)

(* A ready buffer holds what was made for the voice that reads it: what    *)
(* sources and targets of a region keep of another voice of the region, or *)
(* of the block before, is never taken for this voice's.                   *)
BuffersCurrent ==
  currentVoice # Nobody =>
    /\ \A s \in readySources \cap PerVoice(currentRegion) : made[s] = currentVoice
    /\ \A s \in readySources \cap PerCycle : made[s] # Nobody
    /\ \A t \in readyTargets :
         t[1] = currentRegion =>
           \/ filled[t] = currentVoice
           \/ \E i \in DOMAIN work : work[i].of = "target" /\ work[i].what = t

(* The pool always has the buffer that a stage of a voice, or a generator  *)
(* that it waits for, asks for; and what a block takes comes back, so that *)
(* the next one finds its own.                                             *)
PoolSuffices ==
  /\ ~short
  /\ \A p \in DOMAIN Capacity : used[p] <= Capacity[p]
  /\ ~cycle => \A p \in DOMAIN Capacity : used[p] = 0

(* A generator whose output was discarded, and then asked for by another   *)
(* that is registered after it and whose output is discarded as well.      *)
AskedLate(s) ==
  /\ s \in readySources
  /\ \E d \in PerVoice(currentRegion) \ readySources : d > s /\ IsOscillator(d)

(* Every block moves each generator of a sounding voice on by that block,  *)
(* asked for or not, and once, unless it is asked for too late; and each   *)
(* controller once for all voices.                                         *)
AdvanceOnce ==
  [][ /\ currentVoice # Nobody /\ currentVoice' = Nobody =>
           \A s \in PerVoice(currentRegion) :
             runs'[s] = 1 \/ (runs'[s] = 2 /\ AskedLate(s))
      /\ cycle /\ ~cycle' => \A s \in PerCycle : runs'[s] = 1 ]_vars

(* A voice stands where its steps have led it: behind the loops it closed  *)
(* and the repeats it made, each of its full length, or at the end of the  *)
(* sample; and a loop it plays does not let it past its end.               *)
FramesFollow ==
  \A v \in Busy :
    Region(voice[v].region).kind = "sample" =>
      LET sample == Region(voice[v].region).sample
          p == voice[v].play
          behind == p.restarts * (sample.loopEnd - sample.start + 1)
                    + (p.count - 1) * (sample.end - 1 - sample.offset)
          place == p.travel - behind * Grain
          last == Least(sample.end, sample.frames) - 1
      IN /\ IF p.position = last THEN place >= last * Grain
            ELSE place = p.position * Grain + p.part
         /\ p.restarts > 0 /\ ShouldLoop(sample, p, Released(v)) =>
              p.position \in sample.start .. sample.loopEnd

(* The comment on the first frame of a block says "Take the first sample   *)
(* if the voice just started": a voice that has rendered n frames has gone *)
(* n - 1 steps.                                                            *)
FramesInOrder ==
  \A v \in Busy :
    LET p == voice[v].play
        sample == Region(voice[v].region).sample
    IN p.played > 0 => p.travel = sample.offset * Grain + (p.played - 1) * sample.step

(* What a voice hears of a controller is the expression of its own note.   *)
OwnExpression ==
  currentVoice # Nobody =>
    \A t \in readyTargets : filled[t] = currentVoice =>
      \A c \in patch.feeds[t] :
        c.source \in PerCycle => voice[made[c.source]].note = voice[currentVoice].note
=============================================================================
