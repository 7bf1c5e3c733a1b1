----------------------------- MODULE VoiceBlocks -----------------------------
(***************************************************************************)
(* A voice between the messages of the host and the blocks it renders: what*)
(* starting, releasing and resuming a note, and rendering frames, mean to  *)
(* any amplitude envelope.  The modules of the envelopes extend this one.  *)
(***************************************************************************)
EXTENDS Integers, FiniteSets

CONSTANTS
  Sizes,         \* sizes of blocks
  Chunk,         \* processChunkSize
  MaxNotes, MaxEvents  \* model bounds: notes, and releases or cancellations

ASSUME BlocksAssumption ==
  /\ Sizes \subseteq Nat \ {0} /\ Chunk \in Nat \ {0}
  /\ MaxNotes \in Nat /\ MaxEvents \in Nat

VARIABLES
  patch,    \* the region's envelope
  voice,    \* the state of the voice: idle, playing or cleanMeUp
  frames,   \* the size of the block to come
  now,      \* the latest offset of a message in it
  rendering, \* is renderBlock under way
  left,     \* frames left of the span that is being rendered
  rest,     \* frames of the block after that span
  toGo,     \* history: frames until the delay of the note is over
  wait,     \* history: frames until the release is due
  asked,    \* history: has the note been told to end, and not to go on
  begun, events

blocks == <<patch, voice, frames, now, rendering, left, rest, toGo, wait, asked, begun, events>>

Least(a, b) == IF a < b THEN a ELSE b
Greatest(a, b) == IF a < b THEN b ELSE a

At(d) == ~rendering /\ d < frames /\ d >= now /\ now' = d

Begins(p, d, delay) ==
  /\ voice = "idle" /\ begun < MaxNotes /\ begun' = begun + 1 /\ At(d)
  /\ patch' = p /\ voice' = "playing"
  /\ toGo' = d + delay /\ wait' = 0 /\ asked' = FALSE
  /\ UNCHANGED <<frames, rendering, left, rest, events>>

(* Voice::Impl::release ends a voice whose delay is not over.              *)
Releases(d, delay) ==
  /\ voice = "playing" /\ events < MaxEvents /\ events' = events + 1 /\ At(d)
  /\ voice' = IF delay > d THEN "cleanMeUp" ELSE voice
  /\ wait' = Greatest(d, toGo) /\ asked' = TRUE
  /\ UNCHANGED <<patch, frames, rendering, left, rest, toGo, begun>>

(* The sustain pedal, under hint_sustain_cancels_release.                  *)
Resumes(d, released, undone) ==
  /\ voice = "playing" /\ released /\ events < MaxEvents /\ events' = events + 1 /\ At(d)
  /\ wait' = 0 /\ asked' = (asked /\ ~undone)
  /\ UNCHANGED <<patch, voice, frames, rendering, left, rest, toGo, begun>>

(* All of the block at once, or in chunks if the envelope is dynamic.      *)
BeginsBlock(dynamic) ==
  /\ voice # "idle" /\ ~rendering /\ rendering' = TRUE
  /\ left' = IF dynamic THEN Least(Chunk, frames) ELSE frames
  /\ rest' = frames - left'
  /\ UNCHANGED <<patch, voice, frames, now, toGo, wait, asked, begun, events>>

BeginsChunk ==
  /\ left = 0 /\ rest > 0
  /\ left' = Least(Chunk, rest) /\ rest' = rest - left'
  /\ UNCHANGED <<patch, voice, frames, now, rendering, toGo, wait, asked, begun, events>>

(* History counts no further than it has to be told apart. *)
Renders(count, due, lowest) ==
  /\ left' = left - count
  /\ toGo' = Greatest(toGo - count, 0)
  /\ wait' = IF due THEN Greatest(wait - count, lowest) ELSE wait
  /\ UNCHANGED <<patch, voice, frames, now, rendering, rest, asked, begun, events>>

(* A voice whose envelope has finished is cleaned up.                      *)
EndsBlock(finished) ==
  /\ IF voice # "idle" THEN rendering /\ left = 0 /\ rest = 0 ELSE now > 0
  /\ rendering' = FALSE /\ now' = 0 /\ frames' \in Sizes
  /\ voice' = IF voice = "playing" /\ ~finished THEN voice ELSE "idle"
  /\ UNCHANGED <<patch, left, rest, toGo, wait, asked, begun, events>>

BlocksInit ==
  /\ voice = "idle" /\ frames \in Sizes /\ now = 0 /\ rendering = FALSE
  /\ left = 0 /\ rest = 0 /\ toGo = 0 /\ wait = 0 /\ asked = FALSE /\ begun = 0 /\ events = 0

Offsets == {d \in 0 .. Greatest(frames - 1, 0) : d < frames}
=============================================================================
