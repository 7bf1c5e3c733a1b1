------------------------------ MODULE NoteLife ------------------------------
(***************************************************************************)
(* What an amplitude envelope promises to the note it shapes: the note goes*)
(* on until it is told to end, unless its envelope runs by itself, and once*)
(* told to end it does, unless it is told to go on.                        *)
(***************************************************************************)

VARIABLES
  phase,    \* no note, a note that is held, or one that is told to end
  endless   \* does the envelope go on until it is told to end

note == <<phase, endless>>

Init == phase = "free" /\ endless \in BOOLEAN

Begin == phase = "free" /\ phase' = "held" /\ endless' \in BOOLEAN
TellToEnd == phase = "held" /\ phase' = "ending" /\ UNCHANGED endless
TellToGoOn == phase = "ending" /\ phase' = "held" /\ UNCHANGED endless
End ==
  /\ phase = "ending" \/ (phase = "held" /\ ~endless)
  /\ phase' = "free" /\ UNCHANGED endless

Next == Begin \/ TellToEnd \/ TellToGoOn \/ End

Spec == Init /\ [][Next]_note /\ WF_note(End)
=============================================================================
