---------------------------- MODULE MCExpression ----------------------------
(* Instances of Expression for TLC.                                        *)
EXTENDS Expression

(* Bends of zero and full scale under ranges of one and two semitones, and *)
(* a pressure that none of them equals.                                    *)
Pitch == {"pitch"}
Default == [manager |-> 1, member |-> 2]
Both == {"pitch", "pressure"}
=============================================================================
