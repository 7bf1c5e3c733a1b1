---------------------------- MODULE VoiceEnvelope ----------------------------
(***************************************************************************)
(* The amplitude envelope of a voice, of the kind its region asks for: an  *)
(* ADSR envelope, or one with points (Region::flexAmpEG).                  *)
(***************************************************************************)
EXTENDS ADSREnvelope, FlexEnvelope

(* A voice keeps to one kind, as each kind has fields of its own; only an  *)
(* envelope with points has stages.                                        *)
IsFlex == "stages" \in DOMAIN patch

ASSUME KindsAssumption ==
  /\ \A p \in Patches : "stages" \notin DOMAIN p
  /\ \A p \in FlexPatches : "stages" \in DOMAIN p

envelopes == <<blocks, eg, flex>>

Init == patch \in Patches \cup FlexPatches /\ BlocksInit /\ EgInit /\ FlexInit

Render == IF IsFlex THEN FlexRender /\ UNCHANGED eg ELSE EgRender /\ UNCHANGED flex
Next == IF IsFlex THEN FlexNext /\ UNCHANGED eg ELSE EgNext /\ UNCHANGED flex

Spec == Init /\ [][Next]_envelopes

(* The host asks for one block after the other.                            *)
FairSpec == Spec /\ WF_envelopes(Render)

-----------------------------------------------------------------------------
(* Properties.                                                             *)

(* The release of either kind of envelope takes effect in the frame it is  *)
(* due, counted over blocks, chunks and stages: never before, and later at *)
(* most by one frame (ADSR) or by the trigger offset that was left when it *)
(* was asked for (points).                                                 *)
OnTime == ReleaseOnTime /\ FlexReleaseOnTime
NotEarly == ReleaseNotEarly /\ FlexReleaseNotEarly

(* The loops of both envelopes end, though some of their turns render no   *)
(* frame at all.                                                           *)
BlockEnds == left > 0 ~> left = 0

(* An envelope of either kind keeps the promise of NoteLife: a note that is*)
(* held does not end by itself if its envelope sustains, a released one    *)
(* ends whatever stage the release finds it in, unless it is resumed.      *)
Life == INSTANCE NoteLife WITH
  phase <- IF voice = "idle" THEN "free"
           ELSE IF voice = "cleanMeUp" \/ asked THEN "ending" ELSE "held",
  endless <- IF IsFlex THEN patch.sustain < patch.stages /\ ~flex.freeRunning
             ELSE ~eg.freeRunning
KeepsPromise == Life!Spec
=============================================================================
