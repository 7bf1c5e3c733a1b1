----------------------------- MODULE MCVoices -----------------------------
(* Instances of Voices for TLC.                                            *)
EXTENDS Voices

Plain == [trigger |-> "attack", keys |-> Key, group |-> 10, offBy |-> None,
          parents |-> <<>>, polyphony |-> 9, notePolyphony |-> None,
          selfMask |-> TRUE, rtDead |-> FALSE, restricted |-> FALSE, blocks |-> 0, keycenter |-> 60,
          conditioned |-> FALSE, disabled |-> FALSE, sampled |-> FALSE]

(* Two attack regions that choke each other across keys, and a release     *)
(* region that chokes the first; note_polyphony with and without self-masking.    *)
Choking ==
  <<[Plain EXCEPT !.keys = {60}, !.offBy = 11, !.restricted = TRUE,
                    !.notePolyphony = 1, !.selfMask = FALSE],
    [Plain EXCEPT !.keys = {62}, !.group = 11, !.offBy = 10, !.blocks = 1,
                    !.notePolyphony = 1],
    [Plain EXCEPT !.trigger = "release", !.group = 11]>>

(* Two layers of one key under a common header, with limits at all levels. *)
Nested ==
  <<[Plain EXCEPT !.parents = <<20, 21>>, !.keys = {60}],
    [Plain EXCEPT !.parents = <<20, 21>>, !.group = 11],
    [Plain EXCEPT !.parents = <<21>>, !.group = 11, !.keys = {62}, !.polyphony = 1]>>

(* Two layers of a key, and one that a controller of the same number       *)
(* starts, which choke each other; voices of several ages.                 *)
Controlled ==
  <<[Plain EXCEPT !.keys = {60}, !.offBy = 11],
    [Plain EXCEPT !.keys = {60}, !.offBy = 11, !.notePolyphony = 2],
    [Plain EXCEPT !.trigger = "cc", !.keys = {60}, !.group = 11, !.offBy = 10, !.polyphony = 2],
    [Plain EXCEPT !.trigger = "release", !.keys = {60}, !.group = 11]>>

(* A region whose conditions come and go, for each source of its own, one  *)
(* whose sample may be missing and a disabled one, which choke each other, *)
(* or voices of their own group and key where a condition fails.           *)
Failing ==
  <<[Plain EXCEPT !.keys = {60}, !.offBy = 10, !.conditioned = TRUE, !.restricted = TRUE],
    [Plain EXCEPT !.offBy = 11, !.sampled = TRUE, !.blocks = 1],
    [Plain EXCEPT !.keys = {62}, !.group = 11, !.parents = <<20>>, !.offBy = 10, !.disabled = TRUE]>>

Groups == {10, 11}
Headers == {20, 21}
Limits(group, header, engine) ==
  [o \in Groups \cup Headers \cup {30} |->
     IF o \in Groups THEN group ELSE IF o \in Headers THEN header ELSE engine]
Setup(layers, limit, stealing, mpe, values, channels, maxVoices, starts, blocks) ==
  [layers |-> layers, limit |-> limit, stealing |-> stealing, mpe |-> mpe,
   values |-> values, channels |-> channels, maxVoices |-> maxVoices,
   starts |-> starts, blocks |-> blocks]
SetupsMC ==
  {Setup(Choking, Limits(9, 9, 3), "first", FALSE, {1, 2}, {1, 2}, 3, 3, 1),
   Setup(Nested, [Limits(3, 2, 3) EXCEPT ![21] = 3, ![11] = 2], "oldest", TRUE, {1}, {1, 2}, 3, 3, 2),
   Setup(Controlled, Limits(3, 9, 3), "envelope_and_age", FALSE, {1}, {1}, 4, 3, 2),
   Setup(Failing, Limits(2, 1, 3), "oldest", FALSE, {1}, {1, 2}, 3, 3, 1)}
=============================================================================
