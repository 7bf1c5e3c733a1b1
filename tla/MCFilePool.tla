----------------------------- MODULE MCFilePool -----------------------------
(* Instances of FilePool for TLC.                                          *)
EXTENDS FilePool, TLC

CONSTANTS f1, f2, f3, h1, h2, l1, l2

(* One chunk of every file is preloaded.                                   *)
PreloadMC == [f \in File |-> 1]

(* f3 is preloaded entirely; f1 has two more chunks to stream, so that a   *)
(* voice sees spans of two and of three chunks.                            *)
LongMC == [f \in File |-> IF f = f3 THEN 1 ELSE 3]

(* One more chunk in each file.                                            *)
ShortMC == [f \in File |-> 2]

ThreadSymmetry == Permutations(Holder) \cup Permutations(Loader)
=============================================================================
