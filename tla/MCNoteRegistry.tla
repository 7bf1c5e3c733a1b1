--------------------------- MODULE MCNoteRegistry ---------------------------
(* Instances of NoteRegistry for TLC.                                      *)
EXTENDS NoteRegistry

CONSTANTS member1, member2, beyond
=============================================================================
