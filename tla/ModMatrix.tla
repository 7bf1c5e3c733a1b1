------------------------------ MODULE ModMatrix ------------------------------
(***************************************************************************)
(* The modulation matrix while a voice is rendered.  A voice asks for the  *)
(* modulation of a target; the sources connected to the target are         *)
(* generated, once, into buffers of their own, and a generator may ask for *)
(* targets in turn.  The buffers belong to sources and targets, not to     *)
(* voices: flags say whether they are ready, for this voice (sources and   *)
(* targets of its region) or for this block (controllers).                 *)
(*                                                                         *)
(* The call stack is a sequence of frames; what a function has left to do  *)
(* is a sequence of instructions, of which one is taken per step.  The     *)
(* buffers that functions work in come from the pool of the synth.         *)
(***************************************************************************)
EXTENDS BeatClock, SequencesExt

CONSTANT
  Capacity     \* buffers in the pool: "mono" and "stereo" audio, and "index"

VARIABLES
  patch,         \* sources in the order of registration, and who feeds whom
  readySources, readyTargets,       \* those whose bufferReady is set
  currentVoice, currentRegion,      \* currentVoiceId_, currentRegionId_
  work,          \* the call stack of the voice's rendering
  used,          \* buffers taken from the pool
  (* History. *)
  made,          \* the voice for which a source was made in this block
  filled,        \* the voice for which a target was filled in this block
  runs,          \* generator calls for this voice, or this block
  short          \* has the pool had no buffer to give

buffers == <<readySources, readyTargets, made, filled, runs>>
matrix == <<patch, readySources, readyTargets, currentVoice, currentRegion,
            work, used, made, filled, runs, short>>

Nobody == 0
Sources == DOMAIN patch.sources
Targets == DOMAIN patch.feeds   \* those that registerTarget has seen
PerCycle == {s \in Sources : patch.sources[s].kind = "cycle"}
PerVoice(r) == {s \in Sources : patch.sources[s].kind = "voice" /\ patch.sources[s].region = r}
IsOscillator(s) == patch.sources[s].subs > 0

(* Region::parseLFOOpcodeV2 and its like: what moves an oscillator, the    *)
(* depth of a connection, or the detuning of a wavetable, is a controller  *)
(* or an envelope, and asks nobody.                                        *)
WellConnected(p) ==
  LET moved == {t \in DOMAIN p.feeds : \E c \in p.feeds[t] : p.sources[c.source].subs > 0}
  IN /\ \A t \in moved : t[2] \notin {"detune", "modDepth"}
     /\ \A t \in DOMAIN p.feeds :
          \A c \in p.feeds[t] : c.source \in DOMAIN p.sources /\ c.depth \notin moved
     /\ \A s \in DOMAIN p.sources :
          LET lfo == p.sources[s]
          IN /\ lfo.subs \in Nat /\ (lfo.kind = "cycle" => lfo.subs = 0)
             /\ lfo.subs > 0 =>
                  moved \cap {<<lfo.region, n, lfo.number>> : n \in {"beats", "frequency", "phase"}} = {}

-----------------------------------------------------------------------------
(* Functions as instructions.                                              *)
Take(p) == <<"take", p>>         \* getBuffer, getIndexBuffer
Give(p) == <<"give", p>>         \* the end of a buffer's scope
Scratch(k) == <<"scratch", k>>   \* k buffers between two instructions
Ask(t) == <<"ask", t>>           \* getModulation
Run(s) == <<"run", s>>           \* generate, unless the source is ready
Discard(s) == <<"discard", s>>   \* generateDiscarded, unless it is ready
Clock == <<"clock", "beats">>    \* getRunningBeatPosition
Play == <<"play", "sample">>     \* the sample, and the place it leaves

Frame(of, what, todo, left) ==
  [of |-> of, what |-> what, todo |-> todo, left |-> left,
   held |-> [p \in DOMAIN Capacity |-> 0]]

(* LFO::process and generatePhase; envelopes and controllers ask nobody.   *)
Oscillation(s) ==
  LET lfo == patch.sources[s]
      target(n) == <<lfo.region, n, lfo.number>>
      beat == IF ~(playing /\ lfo.beats) THEN <<>>
              ELSE (IF target("beats") \in Targets THEN <<Scratch(1)>> ELSE <<>>) \o <<Clock>>
      sub == <<Ask(target("beats")), Ask(target("frequency")), Ask(target("phase"))>> \o beat
  IN <<Take("mono")>> \o FlattenSeq([i \in 1 .. lfo.subs |-> sub])

Generator(s) == IF IsOscillator(s) THEN Oscillation(s) ELSE <<>>

-----------------------------------------------------------------------------
Top == Head(work)
Doing(what) == work # <<>> /\ Top.todo # <<>> /\ Head(Top.todo)[1] = what
Arg == Head(Top.todo)[2]
With(f) == <<f>> \o Tail(work)
Onward == [Top EXCEPT !.todo = Tail(@)]
Resumed == With(Onward)
Calling(f) == <<f>> \o Resumed

(* Without a buffer the function returns.                                  *)
TakeBuffer ==
  /\ Doing("take")
  /\ IF used[Arg] < Capacity[Arg]
     THEN /\ used' = [used EXCEPT ![Arg] = @ + 1]
          /\ work' = With([Onward EXCEPT !.held[Arg] = @ + 1])
          /\ UNCHANGED short
     ELSE work' = With([Top EXCEPT !.todo = <<>>]) /\ short' = TRUE /\ UNCHANGED used
  /\ UNCHANGED <<patch, currentVoice, currentRegion, buffers>>

GiveBuffer ==
  /\ Doing("give")
  /\ used' = [used EXCEPT ![Arg] = @ - 1]
  /\ work' = With([Onward EXCEPT !.held[Arg] = @ - 1])
  /\ UNCHANGED <<patch, currentVoice, currentRegion, buffers, short>>

(* Without a scratch buffer the function goes on without it.               *)
UseScratch ==
  /\ Doing("scratch")
  /\ work' = Resumed /\ short' = (short \/ used["mono"] + Arg > Capacity["mono"])
  /\ UNCHANGED <<patch, currentVoice, currentRegion, used, buffers>>

(* ModMatrix::getModulation: a target of this region is ready from now on, *)
(* and filled by the sources connected to it, in any order.                *)
GetModulation ==
  /\ Doing("ask")
  /\ IF Arg \in Targets /\ Arg[1] = currentRegion /\ Arg \notin readyTargets
     THEN /\ readyTargets' = readyTargets \union {Arg}
          /\ work' = Calling(Frame("target", Arg, <<>>, patch.feeds[Arg]))
     ELSE work' = Resumed /\ UNCHANGED readyTargets
  /\ UNCHANGED <<patch, readySources, currentVoice, currentRegion, used, made, filled, runs, short>>

AddSource ==
  /\ work # <<>> /\ Top.todo = <<>> /\ Top.left # {}
  /\ \E c \in Top.left :
       work' = With([Top EXCEPT !.left = @ \ {c},
                       !.todo = IF c.source \in PerCycle \union PerVoice(currentRegion)
                                THEN <<Run(c.source), Ask(c.depth)>> ELSE <<>>])
  /\ UNCHANGED <<patch, currentVoice, currentRegion, used, short, buffers>>

Generate(what) ==
  /\ Doing(what)
  /\ work' = IF Arg \in readySources THEN Resumed
             ELSE Calling(Frame(what, Arg, Generator(Arg), {}))
  /\ UNCHANGED <<patch, currentVoice, currentRegion, used, short, buffers>>

(* A function returns, and its buffers go back to the pool.  Only a source *)
(* that a target needed is ready then.                                     *)
Return ==
  LET needed == Top.of = "run"
      generated == Top.of \in {"run", "discard"}
  IN /\ work # <<>> /\ Top.todo = <<>> /\ Top.left = {}
     /\ work' = Tail(work)
     /\ used' = [p \in DOMAIN used |-> used[p] - Top.held[p]]
     /\ readySources' = IF needed THEN readySources \union {Top.what} ELSE readySources
     /\ made' = IF needed THEN [made EXCEPT ![Top.what] = currentVoice] ELSE made
     /\ runs' = IF generated THEN [runs EXCEPT ![Top.what] = @ + 1] ELSE runs
     /\ filled' = IF Top.of = "target" THEN [filled EXCEPT ![Top.what] = currentVoice] ELSE filled
     /\ UNCHANGED <<patch, readyTargets, currentVoice, currentRegion, short>>

MatrixStep ==
  \/ TakeBuffer \/ GiveBuffer \/ UseScratch
  \/ GetModulation \/ AddSource
  \/ Generate("run") \/ Generate("discard") \/ Return

-----------------------------------------------------------------------------
(* The turns of the voices in a block.                                     *)
BeginCycleOfMatrix ==
  /\ readySources' = readySources \ PerCycle
  /\ made' = [s \in Sources |-> Nobody] /\ filled' = [t \in Targets |-> Nobody]
  /\ runs' = [s \in Sources |-> IF s \in PerCycle THEN 0 ELSE runs[s]]

(* Mutant: only the sources of the region are made anew. *)
ReadyTargetsKept(r) == readyTargets
ReadyTargetsAt(r) == {t \in readyTargets : t[1] # r}

BeginVoiceOfMatrix(v, r) ==
  /\ currentVoice' = v /\ currentRegion' = r
  /\ readySources' = readySources \ PerVoice(r)
  /\ readyTargets' = ReadyTargetsAt(r)
  /\ runs' = [s \in Sources |-> IF s \in PerVoice(r) THEN 0 ELSE runs[s]]

(* Mutant: what nobody asked for stands still. *)
DiscardsSkipped(r) == Frame("stage", "discards", <<>>, {})
(* ModMatrix::endVoice runs what nobody asked for, in the order of         *)
(* registration.                                                           *)
DiscardAll(r) ==
  LET upTo[n \in 0 .. Len(patch.sources)] ==
        IF n = 0 THEN <<>>
        ELSE IF n \in PerVoice(r) THEN Append(upTo[n - 1], Discard(n)) ELSE upTo[n - 1]
  IN upTo[Len(patch.sources)]
Discards(r) == Frame("stage", "discards", DiscardAll(r), {})

(* ModMatrix::endCycle; the controllers, which ask nobody.                 *)
EndCycleOfMatrix ==
  runs' = [s \in Sources |-> IF s \in PerCycle \ readySources THEN runs[s] + 1 ELSE runs[s]]

MatrixInit ==
  /\ readySources = {} /\ readyTargets = {}
  /\ currentVoice = Nobody /\ currentRegion = Nobody
  /\ work = <<>> /\ used = [p \in DOMAIN Capacity |-> 0]
  /\ made = [s \in Sources |-> Nobody] /\ filled = [t \in Targets |-> Nobody]
  /\ runs = [s \in Sources |-> 0] /\ short = FALSE
=============================================================================
