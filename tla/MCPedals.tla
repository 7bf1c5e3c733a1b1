------------------------------ MODULE MCPedals ------------------------------
(* Instances of Pedals for TLC.                                            *)
EXTENDS Pedals

Opcodes(restricted, sustain, sostenuto, numVoices, sources) ==
  [restricted : restricted, checkSustain : sustain, checkSostenuto : sostenuto,
   rtDead : BOOLEAN, oneShot : BOOLEAN, cancels : BOOLEAN,
   numVoices : {numVoices}, sources : {sources}]

(* Both pedal switches at their default, or both off; three voices.        *)
OneChannel == Opcodes({FALSE}, {TRUE}, {TRUE}, 3, {0}) \cup Opcodes({FALSE}, {FALSE}, {FALSE}, 3, {0})

(* Regions with and without a channel range under two channels, whose      *)
(* releases need an attack voice, and one whose releases do not.           *)
TwoChannels == {r \in Opcodes(BOOLEAN, {TRUE}, {TRUE}, 1, {0, 1}) :
               ~r.oneShot /\ ~r.cancels /\ (r.restricted => ~r.rtDead)}

AllMC == OneChannel \cup TwoChannels
RestrictedMC == {r \in Opcodes({TRUE}, {TRUE}, {TRUE}, 2, {0}) :
                   ~r.oneShot /\ ~r.cancels /\ ~r.rtDead}
=============================================================================
