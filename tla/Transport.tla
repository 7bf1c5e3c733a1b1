------------------------------ MODULE Transport ------------------------------
(***************************************************************************)
(* What a beat clock promises: between blocks the host changes tempo,      *)
(* signature, position and play state; a block then moves the position by  *)
(* the tempo for each of its frames, once, and a position given while      *)
(* playing is that of the first frame of the block.                        *)
(***************************************************************************)
EXTENDS Integers

VARIABLES
  speed,     \* ticks per frame
  unit,      \* the beat unit of the time signature
  playing,
  position,  \* of the latest frame, in ticks
  moved,     \* has the host given a position to go on from
  goal,      \* that position
  due        \* frames of the block that are not accounted for

transport == <<speed, unit, playing, position, moved, goal, due>>

(* A length in beats of one unit, in beats of another.                     *)
Converted(beats, from, to) == (beats * to) \div from

SetTempo ==
  /\ due = 0 /\ speed' \in Int
  /\ UNCHANGED <<unit, playing, position, moved, goal, due>>

SetSignature ==
  /\ due = 0 /\ unit' \in Int
  /\ position' = Converted(position, unit, unit')
  /\ goal' = IF moved THEN Converted(goal, unit, unit') ELSE 0
  /\ UNCHANGED <<speed, playing, moved, due>>

Locate ==
  /\ due = 0
  /\ IF playing THEN moved' = TRUE /\ goal' \in Int /\ UNCHANGED position
     ELSE position' \in Int /\ UNCHANGED <<moved, goal>>
  /\ UNCHANGED <<speed, unit, playing, due>>

SetPlaying ==
  /\ due = 0 /\ playing' \in BOOLEAN
  /\ position' = IF moved /\ ~playing' THEN goal ELSE position
  /\ moved' = (moved /\ playing')
  /\ goal' = IF playing' THEN goal ELSE 0
  /\ UNCHANGED <<speed, unit, due>>

Begin ==
  /\ due = 0 /\ due' \in Nat \ {0}
  /\ UNCHANGED <<speed, unit, playing, position, moved, goal>>

Advance ==
  /\ due > 0 /\ due' = 0
  /\ position' = IF ~playing THEN position
                 ELSE IF moved THEN goal + (due - 1) * speed ELSE position + due * speed
  /\ moved' = FALSE /\ goal' = 0
  /\ UNCHANGED <<speed, unit, playing>>

Clear ==
  /\ due = 0
  /\ speed' \in Int /\ unit' \in Int /\ playing' = FALSE
  /\ position' = 0 /\ moved' = FALSE /\ goal' = 0 /\ UNCHANGED due

Init ==
  /\ speed \in Int /\ unit \in Int /\ playing = FALSE
  /\ position = 0 /\ moved = FALSE /\ goal = 0 /\ due = 0

Next ==
  \/ SetTempo \/ SetSignature \/ Locate \/ SetPlaying \/ Clear
  \/ Begin \/ Advance

Spec == Init /\ [][Next]_transport
=============================================================================
