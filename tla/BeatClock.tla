------------------------------ MODULE BeatClock ------------------------------
(***************************************************************************)
(* The beat clock: what the host says of tempo, signature, position and    *)
(* play state, and the beat position of every frame of a block.  The       *)
(* positions are filled in when somebody first asks for them, or when the  *)
(* block ends.                                                             *)
(*                                                                         *)
(* Positions are whole ticks: bar and beat together, in beats of the       *)
(* signature; BBT only splits them.                                        *)
(***************************************************************************)
EXTENDS Integers

CONSTANTS
  Speed,         \* ticks per frame the host may ask for, and the default
  DefaultSpeed,
  Unit,          \* beat units of time signatures, and the default
  DefaultUnit,
  Place,         \* positions the host may give
  Delay,         \* delays of the host's messages
  Size,          \* sizes of blocks
  Ahead          \* may a delay be longer than the latest block

ASSUME ClockAssumption ==
  /\ Speed \subseteq Int /\ DefaultSpeed \in Int
  /\ Unit \subseteq Nat \ {0} /\ DefaultUnit \in Nat \ {0}
  /\ Place \subseteq Int /\ Delay \subseteq Nat /\ Size \subseteq Nat \ {0}
  /\ Ahead \in BOOLEAN

VARIABLES
  speed,    \* beatsPerSecond_ * samplePeriod_
  unit,     \* timeSig_.beatUnit
  playing,  \* isPlaying_
  host,     \* lastHostPos_
  client,   \* lastClientPos_
  apply,    \* mustApplyHostPos_
  frames,   \* currentCycleFrames_
  fill,     \* currentCycleFill_
  beats,    \* runningBeatPosition_, of the frames filled in
  cycle     \* is a block being rendered

clock == <<speed, unit, playing, host, client, apply, frames, fill, beats, cycle>>

(* BBT::toSignature *)
Converted(b, from, to) == (b * to) \div from

(* The position of a frame that is still to be filled in.                  *)
PositionAt(i) ==
  IF playing
  THEN (IF apply THEN host ELSE client + speed) + (i - fill) * speed
  ELSE IF apply THEN host ELSE client

(* What fillBufferUpTo leaves in lastClientPos_.                           *)
ClientAfter(d) ==
  IF playing
  THEN IF d > fill THEN PositionAt(d - 1) ELSE client
  ELSE IF apply THEN host ELSE client

AppliedAfter(d) == apply /\ playing /\ d <= fill

Filled(d) ==
  /\ beats' = [i \in 0 .. (IF d > fill THEN d ELSE fill) - 1 |->
                 IF i < fill THEN beats[i] ELSE PositionAt(i)]
  /\ fill' = IF d > fill THEN d ELSE fill

FillBufferUpTo(d) ==
  /\ Filled(d)
  /\ client' = ClientAfter(d) /\ apply' = AppliedAfter(d)

-----------------------------------------------------------------------------
(* The host's calls, between two blocks.                                   *)
Between(d) == ~cycle /\ (Ahead \/ d <= fill \/ ~playing)

SetTempo(d, s) ==
  /\ Between(d) /\ FillBufferUpTo(d)
  /\ speed' = s
  /\ UNCHANGED <<unit, playing, host, frames, cycle>>

SetTimeSignature(d, u) ==
  /\ Between(d) /\ Filled(d) /\ apply' = AppliedAfter(d)
  /\ unit' = u
  /\ host' = Converted(host, unit, u)
  /\ client' = Converted(ClientAfter(d), unit, u)
  /\ UNCHANGED <<speed, playing, frames, cycle>>

SetTimePosition(d, p) ==
  /\ Between(d) /\ Filled(d) /\ client' = ClientAfter(d)
  /\ host' = p /\ apply' = TRUE
  /\ UNCHANGED <<speed, unit, playing, frames, cycle>>

SetPlaying(d, on) ==
  /\ Between(d) /\ FillBufferUpTo(d)
  /\ playing' = on
  /\ UNCHANGED <<speed, unit, host, frames, cycle>>

(* When an instrument is loaded; a position to apply stays so.             *)
ClearClock ==
  /\ ~cycle
  /\ speed' = DefaultSpeed /\ unit' = DefaultUnit /\ playing' = FALSE
  /\ host' = 0 /\ client' = 0
  /\ UNCHANGED <<apply, frames, fill, beats, cycle>>

-----------------------------------------------------------------------------
(* A block.                                                                *)
BeginCycle(n) ==
  /\ ~cycle /\ cycle' = TRUE
  /\ frames' = n /\ fill' = 0 /\ beats' = [i \in 0 .. -1 |-> 0]
  /\ UNCHANGED <<speed, unit, playing, host, client, apply>>

(* getRunningBeatNumber, getRunningBeatPosition, getRunningBeatsPerBar     *)
GetRunning ==
  /\ cycle /\ FillBufferUpTo(frames)
  /\ UNCHANGED <<speed, unit, playing, host, frames, cycle>>

(* Mutant: the clock stands still in a block nobody asks it about. *)
EndCycleUnfilled ==
  /\ cycle /\ cycle' = FALSE
  /\ UNCHANGED <<speed, unit, playing, host, client, apply, frames, fill, beats>>

EndCycle ==
  /\ cycle /\ cycle' = FALSE /\ FillBufferUpTo(frames)
  /\ UNCHANGED <<speed, unit, playing, host, frames>>

ClockInit ==
  /\ speed = DefaultSpeed /\ unit = DefaultUnit /\ playing = FALSE
  /\ host = 0 /\ client = 0 /\ apply = FALSE
  /\ frames = 0 /\ fill = 0 /\ beats = [i \in 0 .. -1 |-> 0] /\ cycle = FALSE

HostCall ==
  \E d \in Delay :
    \/ \E s \in Speed : SetTempo(d, s)
    \/ \E u \in Unit : SetTimeSignature(d, u)
    \/ \E p \in Place : SetTimePosition(d, p)
    \/ \E on \in BOOLEAN : SetPlaying(d, on)

ClockNext ==
  \/ HostCall \/ ClearClock
  \/ \E n \in Size : BeginCycle(n)
  \/ GetRunning \/ EndCycle

ClockSpec == ClockInit /\ [][ClockNext]_clock

-----------------------------------------------------------------------------
(* Properties.                                                             *)

(* The lazy clock keeps the promise of Transport: whoever asks for the     *)
(* positions of a block, how often or not at all, each frame moves the     *)
(* position once, and a position the host gives is applied once, in the    *)
(* first frame or, while the transport stands, at once.                    *)
Promised == INSTANCE Transport WITH
  position <- IF apply /\ ~playing THEN host ELSE client,
  moved <- apply /\ playing,
  goal <- IF apply /\ playing THEN host ELSE 0,
  due <- IF cycle THEN frames - fill ELSE 0
CountsEveryFrame == Promised!Spec

(* Types, and what a block has filled in: nothing or all of it.            *)
ClockOK ==
  /\ speed \in Int /\ unit \in Nat \ {0} /\ playing \in BOOLEAN
  /\ host \in Int /\ client \in Int /\ apply \in BOOLEAN
  /\ frames \in Nat /\ fill \in Nat /\ cycle \in BOOLEAN
  /\ cycle => fill \in {0, frames}
=============================================================================
