-------------------------- MODULE RenderCycleProofs --------------------------
(***************************************************************************)
(* The buffers of the modulation matrix belong to the voice that reads     *)
(* them, for all instruments and numbers of voices; every voice stands in  *)
(* its sample where its steps have led it, for all samples, loops, repeats *)
(* and sizes of blocks; and the beat clock implements Transport, alone and *)
(* inside the engine's blocks, for all tempi, signatures, positions and    *)
(* sizes of blocks, if no delay lies beyond the latest block while the     *)
(* transport runs.  Every turn of a voice moves its generators on once, or *)
(* twice what is asked for too late; and a pool of the code's size never   *)
(* runs short of buffers.                                                  *)
(***************************************************************************)
EXTENDS RenderCycle, SequenceTheorems, WellFoundedInduction, TLAPS

-----------------------------------------------------------------------------
(* The call stack.                                                         *)
Fields == {"of", "what", "todo", "left", "held"}
IsStack(s) == \E X : s \in Seq(X) /\ \A f \in X : DOMAIN f = Fields

(* The targets that a stack is filling.                                    *)
Underway(s) == {s[i].what : i \in {j \in DOMAIN s : s[j].of = "target"}}

LEMMA FrameFields ==
  ASSUME NEW of, NEW what, NEW todo, NEW rest
  PROVE  /\ DOMAIN Frame(of, what, todo, rest) = Fields
         /\ Frame(of, what, todo, rest).of = of
         /\ Frame(of, what, todo, rest).what = what
BY DEF Frame, Fields

LEMMA Pushed ==
  ASSUME NEW s, IsStack(s), NEW f, DOMAIN f = Fields
  PROVE  /\ IsStack(<<f>> \o s) /\ <<f>> \o s # <<>>
         /\ Underway(s) \subseteq Underway(<<f>> \o s)
         /\ f.of = "target" => f.what \in Underway(<<f>> \o s)
<1>1. PICK X : s \in Seq(X) /\ \A g \in X : DOMAIN g = Fields
  BY DEF IsStack
<1>2. <<f>> \o s \in Seq(X \union {f})
  BY <1>1
<1>3. IsStack(<<f>> \o s)
  BY <1>1, <1>2 DEF IsStack
<1>4. \A i \in DOMAIN s : i + 1 \in DOMAIN (<<f>> \o s) /\ (<<f>> \o s)[i + 1] = s[i]
  BY <1>1
<1>5. 1 \in DOMAIN (<<f>> \o s) /\ (<<f>> \o s)[1] = f
  BY <1>1
<1>6. <<f>> \o s # <<>>
  BY <1>1
<1>7. Underway(s) \subseteq Underway(<<f>> \o s)
  <2>1. PICK u : u = <<f>> \o s
    OBVIOUS
  <2>2. \A i \in DOMAIN s : i + 1 \in DOMAIN u /\ u[i + 1] = s[i]
    BY <1>4, <2>1
  <2>3. Underway(s) \subseteq Underway(u)
    BY <2>2, Zenon DEF Underway
  <2> QED BY <2>1, <2>3
<1>8. f.of = "target" => f.what \in Underway(<<f>> \o s)
  BY <1>5, Zenon DEF Underway
<1> QED BY <1>3, <1>6, <1>7, <1>8

LEMMA Popped ==
  ASSUME NEW s, IsStack(s), s # <<>>
  PROVE  /\ IsStack(Tail(s)) /\ DOMAIN Head(s) = Fields
         /\ Underway(s) \subseteq Underway(Tail(s))
                          \union (IF Head(s).of = "target" THEN {Head(s).what} ELSE {})
<1>1. PICK X : s \in Seq(X) /\ \A g \in X : DOMAIN g = Fields
  BY DEF IsStack
<1>2. Tail(s) \in Seq(X) /\ Head(s) \in X /\ Head(s) = s[1]
  BY <1>1
<1>3. IsStack(Tail(s))
  BY <1>1, <1>2 DEF IsStack
<1>4. ASSUME NEW i \in DOMAIN s, i # 1
      PROVE  i - 1 \in DOMAIN Tail(s) /\ Tail(s)[i - 1] = s[i]
  BY <1>1, <1>4
<1>5. ASSUME NEW i \in DOMAIN s, s[i].of = "target", i # 1
      PROVE  s[i].what \in Underway(Tail(s))
  BY <1>4, <1>5 DEF Underway
<1> QED BY <1>1, <1>2, <1>3, <1>5 DEF Underway

(* A frame that goes on, with the same function and argument.              *)
LEMMA Replaced ==
  ASSUME IsStack(work), work # <<>>, NEW f, DOMAIN f = Fields,
         f.of = Top.of, f.what = Top.what
  PROVE  /\ IsStack(With(f)) /\ With(f) # <<>>
         /\ Underway(work) \subseteq Underway(With(f))
BY Pushed, Popped DEF With, Top

LEMMA OnwardSame ==
  ASSUME IsStack(work), work # <<>>
  PROVE  DOMAIN Onward = Fields /\ Onward.of = Top.of /\ Onward.what = Top.what
BY Popped DEF Onward, Top, Fields

LEMMA ResumedSame ==
  ASSUME IsStack(work), work # <<>>
  PROVE  IsStack(Resumed) /\ Resumed # <<>> /\ Underway(work) \subseteq Underway(Resumed)
BY OnwardSame, Replaced DEF Resumed

LEMMA Called ==
  ASSUME IsStack(work), work # <<>>, NEW f, DOMAIN f = Fields
  PROVE  /\ IsStack(Calling(f)) /\ Calling(f) # <<>>
         /\ Underway(work) \subseteq Underway(Calling(f))
         /\ f.of = "target" => f.what \in Underway(Calling(f))
BY ResumedSame, Pushed DEF Calling
-----------------------------------------------------------------------------
(* The stages of a voice.                                                  *)
LEMMA FirstIsOne ==
  ASSUME NEW V \in SUBSET Voice, V # {}
  PROVE  First(V) \in V
<1>1. V \subseteq Nat
  BY RenderAssumption DEF RenderAssumption
<1>2. PICK x \in V : \A y \in V : ~(<<y, x>> \in OpToRel(<, Nat))
  BY <1>1, NatLessThanWellFounded, WFMin
<1>3. \A y \in V : ~(y < x)
  BY <1>1, <1>2 DEF OpToRel
<1>4. \A y \in V : x <= y
  BY <1>1, <1>3
<1> QED BY <1>4 DEF First

LEMMA StagesAreFrames ==
  ASSUME patch \in Patches, NEW v, voice[v].region \in DOMAIN patch.regions
  PROVE  IsStack(Stages(v))
<1> DEFINE r == voice[v].region
           data == IF Region(r).kind = "sample"
                   THEN FillWithData(v, Most(frames - voice[v].delay, 0))
                   ELSE FillWithGenerator(r)
           filters == [i \in 1 .. Region(r).filters |-> FilterStage(r, i)]
                      \o [i \in 1 .. Region(r).equalizers |-> EqualizerStage(r, i)]
           rest == IF Region(r).stereo THEN <<PanStage(r)>> \o filters
                   ELSE filters \o <<PanStage(r)>>
           stages == <<data, AmpStage(r)>> \o rest
           framed == [i \in DOMAIN stages |-> Frame("stage", i, stages[i], {})]
           F == {framed[i] : i \in DOMAIN stages} \union {Discards(r)}
           X == {data, AmpStage(r), PanStage(r)}
                \union {FilterStage(r, i) : i \in 1 .. Region(r).filters}
                \union {EqualizerStage(r, i) : i \in 1 .. Region(r).equalizers}
<1>1. Region(r).filters \in Nat /\ Region(r).equalizers \in Nat
  BY RenderAssumption DEF RenderAssumption, Region
<1>2. filters \in Seq(X)
  <2>1. PICK m \in Nat, n \in Nat : m = Region(r).filters /\ n = Region(r).equalizers
    BY <1>1
  <2>2. \A i \in 1 .. m : FilterStage(r, i) \in X
    BY <2>1, Zenon
  <2>3. \A i \in 1 .. n : EqualizerStage(r, i) \in X
    BY <2>1, Zenon
  <2> HIDE DEF X
  <2>4. [i \in 1 .. m |-> FilterStage(r, i)] \in Seq(X)
    BY <2>2
  <2>5. [i \in 1 .. n |-> EqualizerStage(r, i)] \in Seq(X)
    BY <2>3
  <2> QED BY <2>1, <2>4, <2>5
<1>3. stages \in Seq(X)
  <2>1. PanStage(r) \in X /\ data \in X /\ AmpStage(r) \in X
    OBVIOUS
  <2> HIDE DEF X, data, filters
  <2>2. <<PanStage(r)>> \o filters \in Seq(X) /\ filters \o <<PanStage(r)>> \in Seq(X)
    BY <1>2, <2>1
  <2>3. rest \in Seq(X)
    BY <2>2
  <2> HIDE DEF rest
  <2> QED BY <2>1, <2>3
<1>4. /\ framed \in Seq(F)
      /\ <<Discards(r)>> \in Seq(F)
      /\ \A f \in F : DOMAIN f = Fields
  <2> HIDE DEF stages
  <2>1. framed \in Seq(F)
    BY <1>3
  <2>2. \A i \in DOMAIN stages : DOMAIN framed[i] = Fields
    BY FrameFields
  <2>3. DOMAIN Discards(r) = Fields
    BY FrameFields DEF Discards
  <2> QED BY <2>1, <2>2, <2>3
<1>5. framed \o <<Discards(r)>> \in Seq(F)
  <2> HIDE DEF framed, F
  <2> QED BY <1>4
<1>6. Stages(v) = framed \o <<Discards(r)>>
  BY DEF Stages
<1> QED BY <1>4, <1>5, <1>6, ZenonT(60) DEF IsStack

-----------------------------------------------------------------------------
(* The invariant.                                                          *)

(* The voices and the instrument they play.                                *)
VoicesOK ==
  /\ patch \in Patches
  /\ DOMAIN voice = Voice
  /\ \A v \in Voice : DOMAIN voice[v] = DOMAIN Idle
  /\ \A v \in Voice : voice[v].busy => voice[v].region \in DOMAIN patch.regions
  /\ waiting \subseteq Voice
  /\ \A v \in waiting : voice[v].region \in DOMAIN patch.regions
  /\ currentVoice # Nobody => voice[currentVoice].region \in DOMAIN patch.regions

(* Only the voice whose turn it is in a block has work to do.              *)
TurnOK ==
  /\ currentVoice \in Voice \union {Nobody}
  /\ currentVoice # Nobody => cycle
  /\ work # <<>> => currentVoice # Nobody
  /\ IsStack(work)

(* What is ready was made for this voice, or is being made.                *)
SourceCurrent ==
  currentVoice # Nobody =>
    \A s \in readySources \cap PerVoice(currentRegion) : made[s] = currentVoice
TargetCurrent ==
  currentVoice # Nobody =>
    \A t \in readyTargets :
      t[1] = currentRegion => filled[t] = currentVoice \/ t \in Underway(work)
CycleCurrent == \A s \in readySources \cap PerCycle : made[s] # Nobody

BuffersOK ==
  /\ DOMAIN made = Sources /\ DOMAIN filled = Targets
  /\ readyTargets \subseteq Targets
  /\ SourceCurrent /\ TargetCurrent /\ CycleCurrent

IInv == VoicesOK /\ TurnOK /\ BuffersOK

LEMMA Enough == IInv => BuffersCurrent
BY DEF IInv, BuffersOK, SourceCurrent, TargetCurrent, CycleCurrent, Underway, BuffersCurrent

LEMMA Start == Init => IInv
<1> SUFFICES ASSUME Init PROVE IInv
  OBVIOUS
<1>1. VoicesOK
  BY DEF Init, MatrixInit, VoicesOK, Idle
<1>2. IsStack(work)
  <2>1. work \in Seq({})
    BY DEF Init, MatrixInit
  <2> QED BY <2>1 DEF IsStack
<1>3. TurnOK
  BY <1>2 DEF Init, MatrixInit, TurnOK
<1>4. BuffersOK
  BY DEF Init, MatrixInit, BuffersOK, SourceCurrent, TargetCurrent, CycleCurrent
<1> QED BY <1>1, <1>3, <1>4 DEF IInv

-----------------------------------------------------------------------------
(* The steps within a voice's stages.                                      *)
Still ==
  UNCHANGED <<patch, currentVoice, currentRegion, cycle, waiting>>

(* A step that only goes on with the stack keeps the invariant.            *)
LEMMA GoesOn ==
  ASSUME IInv, VoicesOK', Still, UNCHANGED <<readySources, readyTargets, made, filled>>,
         work # <<>>, IsStack(work'), Underway(work) \subseteq Underway(work')
  PROVE  IInv'
<1>2. TurnOK'
  BY DEF IInv, Still, TurnOK
<1>3. Sources' = Sources /\ Targets' = Targets /\ PerCycle' = PerCycle
      /\ \A r : PerVoice(r)' = PerVoice(r)
  BY DEF Still, Sources, Targets, PerCycle, PerVoice
<1>4. SourceCurrent' /\ TargetCurrent' /\ CycleCurrent'
  BY <1>3 DEF IInv, Still, BuffersOK, SourceCurrent, TargetCurrent, CycleCurrent
<1>5. BuffersOK'
  BY <1>3, <1>4 DEF IInv, Still, BuffersOK
<1> QED BY <1>2, <1>5 DEF IInv

LEMMA MatrixStepKeeps ==
  ASSUME IInv, VoicesOK', MatrixStep, Still
  PROVE  IInv'
<1>1. IsStack(work)
  BY DEF IInv, TurnOK
<1>2. ASSUME NEW f, work' = With(f), work # <<>>, DOMAIN f = Fields,
             f.of = Top.of, f.what = Top.what,
             UNCHANGED <<readySources, readyTargets, made, filled>>
      PROVE  IInv'
  BY <1>1, <1>2, Replaced, GoesOn
<1>3. ASSUME work # <<>>, work' = Resumed,
             UNCHANGED <<readySources, readyTargets, made, filled>>
      PROVE  IInv'
  BY <1>1, <1>3, ResumedSame, GoesOn
<1>4. CASE TakeBuffer
  <2>1. UNCHANGED <<readySources, readyTargets, made, filled>> /\ work # <<>>
    BY <1>4 DEF TakeBuffer, buffers, Doing
  <2> DEFINE taken == [Onward EXCEPT !.held[Arg] = @ + 1]
             returning == [Top EXCEPT !.todo = <<>>]
  <2>2. /\ DOMAIN taken = Fields /\ taken.of = Top.of /\ taken.what = Top.what
        /\ DOMAIN returning = Fields /\ returning.of = Top.of /\ returning.what = Top.what
    BY <1>1, <2>1, OnwardSame, Popped DEF Top, Fields
  <2>3. work' = With(taken) \/ work' = With(returning)
    BY <1>4 DEF TakeBuffer
  <2> HIDE DEF taken, returning
  <2> QED BY <1>2, <2>1, <2>2, <2>3
<1>5. CASE GiveBuffer
  <2>1. UNCHANGED <<readySources, readyTargets, made, filled>> /\ work # <<>>
    BY <1>5 DEF GiveBuffer, buffers, Doing
  <2> DEFINE given == [Onward EXCEPT !.held[Arg] = @ - 1]
  <2>2. DOMAIN given = Fields /\ given.of = Top.of /\ given.what = Top.what
    BY <1>1, <2>1, OnwardSame DEF Fields
  <2>3. work' = With(given)
    BY <1>5 DEF GiveBuffer
  <2> HIDE DEF given
  <2> QED BY <1>2, <2>1, <2>2, <2>3
<1>6. CASE UseScratch
  BY <1>3, <1>6 DEF UseScratch, buffers, Doing
<1>7. CASE GetModulation
  <2> DEFINE asked == Arg \in Targets /\ Arg[1] = currentRegion /\ Arg \notin readyTargets
             callee == Frame("target", Arg, <<>>, patch.feeds[Arg])
  <2>1. UNCHANGED <<readySources, made, filled>> /\ work # <<>>
    BY <1>7 DEF GetModulation, Doing
  <2>2. CASE ~asked
    BY <1>3, <1>7, <2>1, <2>2 DEF GetModulation
  <2>3. CASE asked
    <3>1. readyTargets' = readyTargets \union {Arg} /\ work' = Calling(callee) /\ Arg \in Targets
      BY <1>7, <2>3 DEF GetModulation
    <3>2. DOMAIN callee = Fields /\ callee.of = "target" /\ callee.what = Arg
      BY FrameFields
    <3> HIDE DEF callee, asked
    <3>3. /\ IsStack(work') /\ Underway(work) \subseteq Underway(work')
          /\ Arg \in Underway(work')
      BY <1>1, <2>1, <3>1, <3>2, Called
    <3>5. TurnOK'
      BY <2>1, <3>3 DEF IInv, Still, TurnOK
    <3>6. Sources' = Sources /\ Targets' = Targets /\ PerCycle' = PerCycle
          /\ \A r : PerVoice(r)' = PerVoice(r)
      BY DEF Still, Sources, Targets, PerCycle, PerVoice
    <3>7. SourceCurrent' /\ CycleCurrent'
      BY <2>1, <3>6 DEF IInv, Still, BuffersOK, SourceCurrent, CycleCurrent
    <3>8. TargetCurrent'
      BY <2>1, <3>1, <3>3 DEF IInv, Still, BuffersOK, TargetCurrent
    <3>9. BuffersOK'
      BY <2>1, <3>1, <3>6, <3>7, <3>8 DEF IInv, Still, BuffersOK
    <3> QED BY <3>5, <3>9 DEF IInv
  <2> QED BY <2>2, <2>3
<1>8. CASE AddSource
  <2>1. UNCHANGED <<readySources, readyTargets, made, filled>> /\ work # <<>>
    BY <1>8 DEF AddSource, buffers
  <2>2. PICK c \in Top.left :
          work' = With([Top EXCEPT !.left = @ \ {c},
                          !.todo = IF c.source \in PerCycle \union PerVoice(currentRegion)
                                   THEN <<Run(c.source), Ask(c.depth)>> ELSE <<>>])
    BY <1>8 DEF AddSource
  <2> DEFINE added == [Top EXCEPT !.left = @ \ {c},
                          !.todo = IF c.source \in PerCycle \union PerVoice(currentRegion)
                                   THEN <<Run(c.source), Ask(c.depth)>> ELSE <<>>]
  <2>3. DOMAIN added = Fields /\ added.of = Top.of /\ added.what = Top.what
    BY <1>1, <2>1, Popped DEF Top, Fields
  <2>4. work' = With(added)
    BY <2>2
  <2> HIDE DEF added
  <2> QED BY <1>2, <2>1, <2>3, <2>4
<1>9. ASSUME NEW what, Generate(what) PROVE IInv'
  <2>1. UNCHANGED <<readySources, readyTargets, made, filled>> /\ work # <<>>
    BY <1>9 DEF Generate, buffers, Doing
  <2>2. CASE work' = Resumed
    BY <1>3, <2>1, <2>2
  <2>3. CASE work' = Calling(Frame(what, Arg, Generator(Arg), {}))
    BY <1>1, <2>1, <2>3, FrameFields, Called, GoesOn
  <2> QED BY <1>9, <2>2, <2>3 DEF Generate
<1>10. CASE Return
  <2>1. /\ work # <<>> /\ work' = Tail(work) /\ UNCHANGED readyTargets
        /\ readySources' \in {readySources, readySources \union {Top.what}}
        /\ made' \in {made, [made EXCEPT ![Top.what] = currentVoice]}
        /\ Top.what \in readySources' => \/ Top.what \in readySources
                                         \/ made' = [made EXCEPT ![Top.what] = currentVoice]
    BY <1>10 DEF Return
  <2>2. filled' = IF Top.of = "target" THEN [filled EXCEPT ![Top.what] = currentVoice] ELSE filled
    BY <1>10 DEF Return
  <2>3. currentVoice # Nobody /\ IsStack(work')
    BY <1>1, <2>1, Popped DEF IInv, TurnOK
  <2>4. Underway(work) \subseteq Underway(work')
                        \union (IF Top.of = "target" THEN {Top.what} ELSE {})
    BY <1>1, <2>1, Popped DEF Top
  <2>6. TurnOK'
    BY <2>3 DEF IInv, Still, TurnOK
  <2>7. Sources' = Sources /\ Targets' = Targets /\ PerCycle' = PerCycle
        /\ \A r : PerVoice(r)' = PerVoice(r)
    BY DEF Still, Sources, Targets, PerCycle, PerVoice
  <2>8. \A r : PerVoice(r) \subseteq Sources /\ PerCycle \subseteq Sources
    BY DEF PerVoice, PerCycle
  <2>9. SourceCurrent' /\ CycleCurrent'
    BY <2>1, <2>3, <2>7, <2>8 DEF IInv, Still, BuffersOK, SourceCurrent, CycleCurrent
  <2>10. TargetCurrent'
    BY <2>1, <2>2, <2>4, <2>7 DEF IInv, Still, BuffersOK, TargetCurrent
  <2>11. BuffersOK'
    BY <2>1, <2>2, <2>7, <2>9, <2>10 DEF IInv, Still, BuffersOK
  <2> QED BY <2>6, <2>11 DEF IInv
<1> QED BY <1>4, <1>5, <1>6, <1>7, <1>8, <1>9, <1>10 DEF MatrixStep

-----------------------------------------------------------------------------
(* The steps that begin and end turns and blocks.                          *)
LEMMA BeginBlockKeeps == ASSUME IInv, NEW n, BeginBlock(n) PROVE IInv'
<1>1. ~cycle /\ cycle' /\ currentVoice = Nobody /\ currentVoice' = Nobody
  BY DEF BeginBlock, BeginCycle, IInv, TurnOK
<1>2. /\ UNCHANGED <<patch, readyTargets, work, voice>> /\ waiting' = Busy
      /\ readySources' = readySources \ PerCycle
      /\ made' = [s \in Sources |-> Nobody] /\ filled' = [t \in Targets |-> Nobody]
  BY DEF BeginBlock, BeginCycleOfMatrix
<1>3. VoicesOK'
  BY <1>1, <1>2 DEF IInv, VoicesOK, Busy
<1>4. TurnOK'
  BY <1>1, <1>2 DEF IInv, TurnOK
<1>5. Sources' = Sources /\ Targets' = Targets /\ PerCycle' = PerCycle
  BY <1>2 DEF Sources, Targets, PerCycle
<1>6. BuffersOK'
  BY <1>1, <1>2, <1>5 DEF IInv, BuffersOK, SourceCurrent, TargetCurrent, CycleCurrent
<1> QED BY <1>3, <1>4, <1>6 DEF IInv

(* Whatever an earlier voice of the region has left is not ready any more. *)
LEMMA BeginVoiceKeeps == ASSUME IInv, BeginVoice PROVE IInv'
<1> DEFINE v == First(waiting)
           r == voice[v].region
<1>1. waiting # {} /\ waiting \subseteq Voice /\ cycle /\ UNCHANGED <<cycle, patch, made, filled, voice>>
  BY DEF BeginVoice, clock, IInv, VoicesOK
<1>2. v \in waiting /\ v \in Voice /\ v # Nobody
  BY <1>1, FirstIsOne, RenderAssumption DEF RenderAssumption, Nobody
<1>3. /\ waiting' = waiting \ {v} /\ currentVoice' = v /\ currentRegion' = r
      /\ readySources' = readySources \ PerVoice(r)
      /\ readyTargets' = {t \in readyTargets : t[1] # r}
      /\ work' = Stages(v)
  BY DEF BeginVoice, BeginVoiceOfMatrix, ReadyTargetsAt
<1>4. IsStack(work')
  BY <1>2, <1>3, StagesAreFrames DEF IInv, VoicesOK
<1>5. VoicesOK'
  BY <1>1, <1>2, <1>3 DEF IInv, VoicesOK, Idle
<1>6. TurnOK'
  BY <1>1, <1>2, <1>3, <1>4 DEF TurnOK
<1>7. Sources' = Sources /\ Targets' = Targets /\ PerCycle' = PerCycle
  BY <1>1 DEF Sources, Targets, PerCycle
<1>8. SourceCurrent'
  <2>1. PerVoice(currentRegion)' = PerVoice(r)
    BY <1>1, <1>3 DEF PerVoice, Sources
  <2> QED BY <1>3, <2>1 DEF SourceCurrent
<1>9. TargetCurrent'
  BY <1>3 DEF TargetCurrent
<1>10. CycleCurrent'
  BY <1>1, <1>3, <1>7 DEF IInv, BuffersOK, CycleCurrent
<1>11. BuffersOK'
  BY <1>1, <1>3, <1>7, <1>8, <1>9, <1>10 DEF IInv, BuffersOK
<1> QED BY <1>5, <1>6, <1>11 DEF IInv

(* Steps that leave the matrix to itself.                                  *)
LEMMA MatrixKept ==
  ASSUME IInv, VoicesOK', UNCHANGED matrix, currentVoice = Nobody
  PROVE  IInv'
<1>1. UNCHANGED <<patch, readySources, readyTargets, made, filled, currentVoice, currentRegion, work>>
  BY DEF matrix
<1>2. TurnOK'
  BY <1>1 DEF IInv, TurnOK
<1>3. Sources' = Sources /\ Targets' = Targets /\ PerCycle' = PerCycle
  BY <1>1 DEF Sources, Targets, PerCycle
<1>4. BuffersOK'
  BY <1>1, <1>3 DEF IInv, BuffersOK, SourceCurrent, TargetCurrent, CycleCurrent
<1> QED BY <1>2, <1>4 DEF IInv

LEMMA VoiceDoneKeeps == ASSUME IInv, VoiceDone PROVE IInv'
<1>1. /\ currentVoice \in Voice /\ currentVoice # Nobody /\ currentVoice' = Nobody
      /\ UNCHANGED <<patch, readySources, readyTargets, made, filled, cycle, waiting>>
  BY DEF VoiceDone, buffers, clock, IInv, TurnOK
<1>2. PICK free :
        voice' = [voice EXCEPT ![currentVoice].busy = ~free,
                               ![currentVoice].delay = Most(@ - frames, 0),
                               ![currentVoice].play = Aged(@, frames)]
  BY DEF VoiceDone
<1>3. /\ DOMAIN voice' = Voice
      /\ \A v \in Voice : /\ DOMAIN voice'[v] = DOMAIN Idle
                          /\ voice'[v].region = voice[v].region
                          /\ v # currentVoice => voice'[v] = voice[v]
  BY <1>1, <1>2 DEF IInv, VoicesOK, Idle
<1>4. \A w \in Voice : voice'[w].busy => voice'[w].region \in DOMAIN patch.regions
  BY <1>1, <1>3 DEF IInv, VoicesOK
<1>5. VoicesOK'
  BY <1>1, <1>3, <1>4 DEF IInv, VoicesOK
<1>6. TurnOK'
  BY <1>1 DEF VoiceDone, IInv, TurnOK
<1>7. Sources' = Sources /\ Targets' = Targets /\ PerCycle' = PerCycle
  BY <1>1 DEF Sources, Targets, PerCycle
<1>8. BuffersOK'
  BY <1>1, <1>7 DEF IInv, BuffersOK, SourceCurrent, TargetCurrent, CycleCurrent
<1> QED BY <1>5, <1>6, <1>8 DEF IInv

-----------------------------------------------------------------------------
(* Every step.                                                             *)
LEMMA Step == IInv /\ [Next]_vars => IInv'
<1> SUFFICES ASSUME IInv, [Next]_vars PROVE IInv'
  OBVIOUS
<1>1. ASSUME NEW v \in Voice, ReleaseVoice(v) PROVE IInv'
  <2>1. ~cycle /\ currentVoice = Nobody /\ UNCHANGED <<matrix, cycle, waiting>>
    BY <1>1 DEF ReleaseVoice, clock, IInv, TurnOK
  <2>2. voice' = [voice EXCEPT ![v].released = TRUE]
    BY <1>1 DEF ReleaseVoice
  <2>3. VoicesOK'
    BY <2>1, <2>2 DEF IInv, VoicesOK, Idle, matrix
  <2> QED BY <2>1, <2>3, MatrixKept
<1>2. ASSUME NEW v \in Voice, NEW r \in DOMAIN patch.regions, NEW delay, NEW note,
             StartVoice(v, r, delay, note)
      PROVE  IInv'
  <2>1. ~cycle /\ currentVoice = Nobody /\ UNCHANGED <<matrix, cycle, waiting>>
    BY <1>2 DEF StartVoice, clock, IInv, TurnOK
  <2> DEFINE started ==
        [busy |-> TRUE, region |-> r, note |-> note, released |-> FALSE,
         delay |-> delay + Region(r).delay, play |-> Started(Region(r).sample, delay)]
  <2>2. voice' = [voice EXCEPT ![v] = started]
    BY <1>2 DEF StartVoice
  <2>3. DOMAIN started = DOMAIN Idle /\ started.region = r
    BY DEF Idle
  <2> HIDE DEF started
  <2>4. VoicesOK'
    BY <2>1, <2>2, <2>3 DEF IInv, VoicesOK, matrix
  <2> QED BY <2>1, <2>4, MatrixKept
<1>3. CASE HostMessage
  <2>1. UNCHANGED <<matrix, voice, waiting>>
    BY <1>3 DEF HostMessage
  <2>2. ~cycle
    BY <1>3 DEF HostMessage, TimePosition, SetTempo, SetTimeSignature, SetPlaying,
                SetTimePosition, Between
  <2>3. currentVoice = Nobody
    BY <2>2 DEF IInv, TurnOK
  <2>4. VoicesOK'
    BY <2>1 DEF IInv, VoicesOK, Idle, matrix
  <2> QED BY <2>1, <2>3, <2>4, MatrixKept
<1>4. ASSUME NEW n, BeginBlock(n) PROVE IInv'
  BY <1>4, BeginBlockKeeps
<1>5. CASE BeginVoice
  BY <1>5, BeginVoiceKeeps
<1>6. CASE Stage
  <2>1. Still
    BY <1>6 DEF Stage, MatrixStep, TakeBuffer, GiveBuffer, UseScratch, GetModulation, AddSource,
                Generate, Return, clock, Still
  <2>2. VoicesOK'
    BY <1>6, <2>1 DEF Stage, Still, IInv, VoicesOK, Idle
  <2> QED BY <1>6, <2>1, <2>2, MatrixStepKeeps DEF Stage
<1>7. CASE AskClock
  <2>1. /\ work # <<>> /\ work' = Resumed /\ Still
        /\ UNCHANGED <<readySources, readyTargets, made, filled>>
    BY <1>7 DEF AskClock, Doing, GetRunning, Still, buffers
  <2>2. VoicesOK'
    BY <1>7, <2>1 DEF AskClock, Still, IInv, VoicesOK, Idle
  <2> QED BY <2>1, <2>2, ResumedSame, GoesOn DEF IInv, TurnOK
<1>8. CASE PlaySample
  <2>1. /\ work # <<>> /\ work' = Resumed /\ Still
        /\ UNCHANGED <<readySources, readyTargets, made, filled>>
    BY <1>8 DEF PlaySample, Doing, clock, buffers, Still
  <2>2. PICK place : voice' = [voice EXCEPT ![currentVoice].play = place]
    BY <1>8 DEF PlaySample
  <2>3. currentVoice \in Voice
    BY <2>1 DEF IInv, TurnOK
  <2>4. VoicesOK'
    BY <2>1, <2>2, <2>3 DEF Still, IInv, VoicesOK, Idle
  <2> QED BY <2>1, <2>4, ResumedSame, GoesOn DEF IInv, TurnOK
<1>9. CASE VoiceDone
  BY <1>9, VoiceDoneKeeps
<1>10. CASE EndBlock
  <2>1. /\ UNCHANGED <<patch, readySources, readyTargets, currentVoice, currentRegion,
                       work, made, filled, voice, waiting>>
        /\ currentVoice = Nobody
    BY <1>10 DEF EndBlock
  <2>2. VoicesOK' /\ TurnOK'
    BY <2>1 DEF IInv, VoicesOK, Idle, TurnOK
  <2>3. Sources' = Sources /\ Targets' = Targets /\ PerCycle' = PerCycle
    BY <2>1 DEF Sources, Targets, PerCycle
  <2>4. BuffersOK'
    BY <2>1, <2>3 DEF IInv, BuffersOK, SourceCurrent, TargetCurrent, CycleCurrent
  <2> QED BY <2>2, <2>4 DEF IInv
<1>11. CASE UNCHANGED vars
  BY <1>11 DEF vars, clock, matrix, IInv, VoicesOK, Idle, TurnOK, IsStack, BuffersOK,
               SourceCurrent, TargetCurrent, CycleCurrent, Sources, Targets, PerCycle, PerVoice
<1>12. Over => UNCHANGED vars
  BY DEF Over
<1> QED BY <1>1, <1>2, <1>3, <1>4, <1>5, <1>6, <1>7, <1>8, <1>9, <1>10, <1>11, <1>12 DEF Next

(* No voice ever reads a buffer that was made for another voice of its     *)
(* region, or in an earlier block.                                         *)
THEOREM BuffersAreCurrent == Spec => []BuffersCurrent
BY Start, Step, Enough, PTL DEF Spec

-----------------------------------------------------------------------------
(* Recursive functions: what each step keeps, the last value has.          *)
LEMMA Upward ==
  ASSUME NEW N \in Nat, NEW B, 0 \in B, \A n \in 1 .. N : n - 1 \in B => n \in B
  PROVE  \A n \in 0 .. N : n \in B
<1> DEFINE Bad == {n \in 0 .. N : n \notin B}
<1>1. SUFFICES ASSUME Bad # {} PROVE FALSE
  OBVIOUS
<1>2. PICK x \in Bad : \A y \in Bad : ~(<<y, x>> \in OpToRel(<, Nat))
  <2>1. Bad \subseteq Nat
    OBVIOUS
  <2> HIDE DEF Bad
  <2> QED BY <1>1, <2>1, NatLessThanWellFounded, WFMin
<1>3. x \in 1 .. N /\ x - 1 \in 0 .. N /\ x \in Nat /\ x - 1 \in Nat /\ x - 1 < x
  <2>1. x \in 0 .. N /\ x \notin B
    BY <1>2
  <2>2. x # 0
    BY <2>1
  <2> QED BY <2>1, <2>2
<1>4. <<x - 1, x>> \in OpToRel(<, Nat)
  BY <1>3 DEF OpToRel
<1>5. x - 1 \in B
  BY <1>2, <1>3, <1>4
<1> QED BY <1>2, <1>3, <1>5

(* A function that starts at a and moves by the steps F.                   *)
IsRun(g, N, S, a, F) ==
  g \in [0 .. N -> S] /\ g[0] = a /\ \A n \in 1 .. N : g[n] = F[n][g[n - 1]]

LEMMA Recursion ==
  ASSUME NEW N \in Nat, NEW S, NEW a \in S, NEW F \in [1 .. N -> [S -> S]]
  PROVE  \E g : IsRun(g, N, S, a, F)
<1> DEFINE Ran(g, n) == /\ g \in [0 .. n -> S] /\ g[0] = a
                        /\ \A m \in 1 .. n : g[m] = F[m][g[m - 1]]
           Done == {n \in 0 .. N : \E g : Ran(g, n)}
<1>1. 0 \in Done
  <2>1. PICK g : g = [m \in 0 .. 0 |-> a]
    OBVIOUS
  <2>2. Ran(g, 0)
    BY <2>1
  <2> QED BY <2>2
<1>2. ASSUME NEW n \in 1 .. N, n - 1 \in Done PROVE n \in Done
  <2>1. PICK g : Ran(g, n - 1)
    BY <1>2
  <2>2. PICK h : h = [m \in 0 .. n |-> IF m = n THEN F[n][g[n - 1]] ELSE g[m]]
    OBVIOUS
  <2>3. n - 1 \in 0 .. n - 1 /\ n \in Nat
    OBVIOUS
  <2>4. g[n - 1] \in S /\ F[n] \in [S -> S] /\ F[n][g[n - 1]] \in S
    BY <2>1, <2>3
  <2>5. h \in [0 .. n -> S]
    <3>1. ASSUME NEW m \in 0 .. n, m # n PROVE g[m] \in S
      <4>1. m \in 0 .. n - 1
        BY <2>3, <3>1
      <4> QED BY <2>1, <4>1
    <3> QED BY <2>2, <2>4, <3>1
  <2>6. h[0] = a
    BY <2>1, <2>2, <2>3
  <2>7. ASSUME NEW m \in 1 .. n PROVE h[m] = F[m][h[m - 1]]
    <3>1. m \in 0 .. n /\ m - 1 \in 0 .. n /\ m - 1 # n /\ h[m - 1] = g[m - 1]
      BY <2>2, <2>3
    <3>2. CASE m = n
      BY <2>2, <3>1, <3>2
    <3>3. CASE m # n
      <4>1. m \in 1 .. n - 1 /\ h[m] = g[m]
        BY <2>2, <2>3, <3>1, <3>3
      <4> QED BY <2>1, <3>1, <4>1
    <3> QED BY <3>2, <3>3
  <2>8. Ran(h, n)
    BY <2>5, <2>6, <2>7
  <2>9. n \in 0 .. N
    OBVIOUS
  <2> HIDE DEF Run
  <2> QED BY <2>8, <2>9
<1>3. N \in Done
  <2>1. \A n \in 0 .. N : n \in Done
    <3> HIDE DEF Done
    <3> QED BY <1>1, <1>2, Upward
  <2> QED BY <2>1
<1>4. PICK g : Ran(g, N)
  BY <1>3
<1>5. IsRun(g, N, S, a, F)
  BY <1>4 DEF IsRun
<1> QED BY <1>5

(* Steps that lead from pairs in Q to pairs in Q can all be taken.         *)
Leads(N, Q, U, F) ==
  \A n \in 1 .. N : \A r \in U : <<n - 1, r>> \in Q => F[n][r] \in U /\ <<n, F[n][r]>> \in Q
Passes(g, N, Q, U, a, F) ==
  /\ g = [n \in 0 .. N |-> IF n = 0 THEN a ELSE F[n][g[n - 1]]]
  /\ \A n \in 0 .. N : g[n] \in U /\ <<n, g[n]>> \in Q

LEMMA Passing ==
  ASSUME NEW N \in Nat, NEW Q, NEW U, NEW a \in U, <<0, a>> \in Q, NEW F, Leads(N, Q, U, F)
  PROVE  \E g : Passes(g, N, Q, U, a, F)
<1> DEFINE G == [n \in 1 .. N |-> [r \in U |-> IF <<n - 1, r>> \in Q THEN F[n][r] ELSE a]]
<1>1. G \in [1 .. N -> [U -> U]]
  BY DEF Leads
<1>2. PICK g : IsRun(g, N, U, a, G)
  <2> HIDE DEF G
  <2> QED BY <1>1, Recursion
<1>3. g \in [0 .. N -> U] /\ g[0] = a /\ \A n \in 1 .. N : g[n] = G[n][g[n - 1]]
  BY <1>2 DEF IsRun
<1> DEFINE Right == {n \in 0 .. N : <<n, g[n]>> \in Q}
<1>4. 0 \in Right
  BY <1>3
<1>5. ASSUME NEW n \in 1 .. N, n - 1 \in Right
      PROVE  n \in Right /\ g[n] = F[n][g[n - 1]]
  <2>1. n - 1 \in 0 .. N /\ n \in 0 .. N /\ g[n - 1] \in U
    BY <1>3
  <2>2. <<n - 1, g[n - 1]>> \in Q
    BY <1>5
  <2>3. g[n] = F[n][g[n - 1]]
    BY <1>3, <2>1, <2>2 DEF Leads
  <2>4. <<n, g[n]>> \in Q
    BY <2>1, <2>2, <2>3 DEF Leads
  <2> QED BY <2>1, <2>3, <2>4
<1>6. \A n \in 0 .. N : n \in Right
  <2> HIDE DEF Right
  <2> QED BY <1>4, <1>5, Upward
<1>7. ASSUME NEW n \in 0 .. N PROVE g[n] = IF n = 0 THEN a ELSE F[n][g[n - 1]]
  <2>1. n # 0 => n \in 1 .. N /\ n - 1 \in 0 .. N
    OBVIOUS
  <2> HIDE DEF Right
  <2> QED BY <1>3, <1>5, <1>6, <2>1
<1>8. g = [n \in 0 .. N |-> IF n = 0 THEN a ELSE F[n][g[n - 1]]]
  BY <1>3, <1>7
<1>9. Passes(g, N, Q, U, a, F)
  BY <1>3, <1>6, <1>8 DEF Passes
<1> QED BY <1>9

-----------------------------------------------------------------------------
(* The place of a voice in its sample.                                     *)
LEMMA Quotient ==
  ASSUME NEW a \in Int, NEW n \in Nat \ {0}
  PROVE  /\ a \div n \in Int /\ a % n \in 0 .. n - 1
         /\ n * (a \div n) <= a /\ a < n * (a \div n) + n
         /\ a = ((a \div n) * n) + (a % n)
OBVIOUS

LEMMA QuotientAbove ==
  ASSUME NEW a \in Int, NEW q \in Int, NEW n \in Nat \ {0}, q * n <= a
  PROVE  q <= a \div n
<1>1. PICK d \in Int : d = a \div n /\ a < n * d + n
  BY Quotient
<1>2. SUFFICES ASSUME d + 1 <= q PROVE FALSE
  BY <1>1
<1>3. n * d + n = (d + 1) * n
  BY <1>1
<1>4. (d + 1) * n <= q * n
  BY <1>1, <1>2
<1> QED BY <1>1, <1>3, <1>4

LEMMA QuotientRises ==
  ASSUME NEW a \in Int, NEW b \in Int, NEW n \in Nat \ {0}, a <= b
  PROVE  a \div n <= b \div n
<1>1. PICK d \in Int : d = a \div n /\ n * d <= a
  BY Quotient
<1>2. d * n <= b
  BY <1>1
<1> QED BY <1>1, <1>2, QuotientAbove

PlaceType ==
  [position : Int, part : 0 .. Grain - 1, age : Int, trigger : Int, restarts : Nat,
   count : Int, ended : BOOLEAN, travel : Int, played : Int]

LEMMA SampleFields ==
  ASSUME NEW s, Plausible(s)
  PROVE  /\ s.offset \in Int /\ s.end \in Int /\ s.frames \in Int /\ s.start \in Int
         /\ s.loopEnd \in Int /\ s.fade \in Int
         /\ s.loops \in Nat /\ s.count \in Nat /\ s.step \in Nat
         /\ LoopSize(s) \in Int /\ SampleSize(s) \in Int /\ LastFrame(s) \in Int
         /\ Loops(s) => LoopSize(s) \in Nat \ {0} /\ LoopSize(s) = s.loopEnd + 1 - s.start
BY DEF Plausible, LoopSize, SampleSize, LastFrame, Least

(* Frames are read in order, and from where the voice stands.              *)
LEMMA TicksRise ==
  ASSUME NEW s, Plausible(s), NEW p \in PlaceType, NEW i \in Nat
  PROVE  /\ TickOf(s, p, i) \in Int /\ IndexOf(s, p, i) \in Int
         /\ IndexOf(s, p, i) <= IndexOf(s, p, i + 1)
         /\ i > 0 => /\ p.position * Grain + p.part <= TickOf(s, p, i)
                     /\ p.position <= IndexOf(s, p, i)
<1>1. PICK base \in Int : base = p.position * Grain + p.part
  BY PlaybackAssumption DEF PlaybackAssumption, PlaceType
<1>2. PICK k \in Int : k = (IF p.age = 0 THEN i - 1 ELSE i)
  OBVIOUS
<1>3. s.step \in Nat
  BY SampleFields
<1>4. TickOf(s, p, i) = base + k * s.step /\ k * s.step \in Int
  BY <1>1, <1>2, <1>3 DEF TickOf
<1>5. TickOf(s, p, i + 1) = base + (k + 1) * s.step
  BY <1>1, <1>2, <1>3 DEF TickOf
<1>6. (k + 1) * s.step = k * s.step + s.step
  <2>1. PICK d \in Nat : d = s.step
    BY <1>3
  <2>2. (k + 1) * d = k * d + d
    BY ONLY d \in Nat, k \in Int
  <2> QED BY <2>1, <2>2
<1>7. IndexOf(s, p, i) <= IndexOf(s, p, i + 1)
  <2>1. PICK a, b : a = TickOf(s, p, i) /\ b = TickOf(s, p, i + 1)
    OBVIOUS
  <2>2. PICK x, d : x = k * s.step /\ d = s.step
    OBVIOUS
  <2>3. x \in Int /\ d \in Nat /\ a = base + x /\ b = base + (x + d)
    BY <1>3, <1>4, <1>5, <1>6, <2>1, <2>2
  <2>4. a \in Int /\ b \in Int /\ a <= b
    BY <2>3
  <2>5. a \div Grain <= b \div Grain
    BY <2>4, QuotientRises, PlaybackAssumption DEF PlaybackAssumption
  <2> QED BY <2>1, <2>5 DEF IndexOf
<1>8. IndexOf(s, p, i) \in Int
  BY <1>4, Quotient, PlaybackAssumption DEF PlaybackAssumption, IndexOf
<1>9. ASSUME i > 0 PROVE base <= TickOf(s, p, i) /\ p.position <= IndexOf(s, p, i)
  <2>1. k \in Nat /\ k * s.step \in Nat
    BY <1>2, <1>3, <1>9
  <2>2. base <= TickOf(s, p, i)
    BY <1>4, <2>1
  <2>3. PICK x, t : x = p.position * Grain /\ t = TickOf(s, p, i)
    OBVIOUS
  <2>4. x \in Int /\ x <= t /\ p.position \in Int /\ t \in Int
    BY <1>1, <1>4, <2>2, <2>3, PlaybackAssumption DEF PlaybackAssumption, PlaceType
  <2>5. p.position <= t \div Grain
    BY <2>3, <2>4, QuotientAbove, PlaybackAssumption DEF PlaybackAssumption
  <2> QED BY <2>2, <2>3, <2>5 DEF IndexOf
<1> QED BY <1>1, <1>4, <1>7, <1>8, <1>9

(* An index beyond the end of a loop is wrapped into the loop.             *)
Times(index, e, size) == (Most(index - e, 0) + size - 1) \div size
LEMMA Wrapped ==
  ASSUME NEW index \in Int, NEW e \in Int, NEW size \in Nat \ {0}
  PROVE  /\ Times(index, e, size) \in Nat
         /\ index - size * Times(index, e, size) <= e
         /\ Times(index, e, size) > 0 => e < index - size * Times(index, e, size) + size
<1>1. PICK over \in Nat : over = Most(index - e, 0)
  <2>1. Most(index - e, 0) \in Nat
    BY DEF Most
  <2> QED BY <2>1
<1>2. PICK a \in Nat : a = over + size - 1
  <2>1. over + size - 1 \in Nat
    OBVIOUS
  <2> QED BY <2>1
<1>3. PICK times : times = Times(index, e, size) /\ times = a \div size
  BY <1>1, <1>2 DEF Times
<1>4. times \in Int /\ size * times <= a /\ a < size * times + size
  BY <1>3, Quotient
<1>5. times \in Nat
  <2>1. 0 * size <= a /\ a \in Int
    BY <1>2
  <2>2. 0 <= a \div size
    BY <2>1, QuotientAbove
  <2> QED BY <1>3, <1>4, <2>2
<1>6. PICK x \in Int : x = size * times
  BY <1>4
<1>7. index - x <= e
  BY <1>1, <1>2, <1>4, <1>6 DEF Most
<1>8. ASSUME times > 0 PROVE e < index - x + size
  <2>1. over # 0
    <3>1. SUFFICES ASSUME over = 0 PROVE FALSE
      OBVIOUS
    <3>2. size * times >= size
      BY <1>5, <1>8
    <3> QED BY <1>2, <1>4, <3>1, <3>2
  <2>2. over = index - e
    BY <1>1, <2>1 DEF Most
  <2> QED BY <1>2, <1>4, <1>6, <2>2
<1> QED BY <1>3, <1>5, <1>6, <1>7, <1>8

LoopType == [index : Int, closed : Nat, looping : BOOLEAN, fades : BOOLEAN]
Shifted(s, p, i, k) == IndexOf(s, p, i) - LoopSize(s) * k

(* After i frames of a pass: the index is where the steps have led, less   *)
(* the loops closed, until the loop has been closed for the last time and  *)
(* the sample has ended.                                                   *)
LoopSoFar(s, p, i, l) ==
  /\ i = 0 => l.looping /\ l.closed = 0
  /\ i > 0 /\ l.looping =>
       /\ l.index = Shifted(s, p, i, l.closed) /\ l.index <= s.loopEnd
       /\ l.closed > 0 \/ s.start <= p.position => s.start <= l.index
  /\ ~l.looping =>
       /\ CountReached(s, p.restarts + l.closed)
       /\ \/ l.index = Shifted(s, p, i, l.closed)
          \/ l.index = LastFrame(s) /\ LastFrame(s) <= Shifted(s, p, i, l.closed)

LEMMA Shifts ==
  ASSUME NEW s, Plausible(s), Loops(s), NEW p \in PlaceType, NEW i \in Nat, NEW k \in Nat, NEW m \in Nat
  PROVE  /\ Shifted(s, p, i, k) \in Int
         /\ Shifted(s, p, i, k + m) = Shifted(s, p, i, k) - LoopSize(s) * m
         /\ Shifted(s, p, i, k) <= Shifted(s, p, i + 1, k)
         /\ i > 0 => p.position <= Shifted(s, p, i, 0)
<1>1. PICK size \in Nat \ {0} : size = LoopSize(s)
  BY SampleFields
<1>2. PICK a \in Int : a = IndexOf(s, p, i)
  BY TicksRise
<1>3. PICK b \in Int : b = IndexOf(s, p, i + 1)
  BY TicksRise
<1>4. a <= b /\ (i > 0 => p.position <= a)
  BY <1>2, <1>3, TicksRise
<1>5. size * (k + m) = size * k + size * m /\ size * k \in Int /\ size * m \in Int /\ size * 0 = 0
  BY ONLY size \in Nat \ {0}, k \in Nat, m \in Nat
<1>6. /\ Shifted(s, p, i, k) = a - size * k /\ Shifted(s, p, i, k + m) = a - size * (k + m)
      /\ Shifted(s, p, i + 1, k) = b - size * k /\ Shifted(s, p, i, 0) = a - size * 0
  BY <1>1, <1>2, <1>3 DEF Shifted
<1> HIDE DEF Shifted
<1>7. PICK x \in Int, y \in Int : x = size * k /\ y = size * m
  BY <1>5
<1> QED BY <1>1, <1>4, <1>5, <1>6, <1>7

LEMMA LoopStepSoFar ==
  ASSUME NEW s, Plausible(s), Loops(s), NEW p \in PlaceType, NEW i \in Nat \ {0},
         NEW l \in LoopType, LoopSoFar(s, p, i - 1, l)
  PROVE  LoopStep(s, p, i, l) \in LoopType /\ LoopSoFar(s, p, i, LoopStep(s, p, i, l))
<1>1. PICK size \in Nat \ {0} : size = LoopSize(s)
  BY SampleFields
<1>2. PICK k \in Nat : k = l.closed
  BY DEF LoopType
<1>3. PICK index \in Int : index = Shifted(s, p, i, k)
  BY Shifts
<1>4. IndexOf(s, p, i) - LoopSize(s) * l.closed = index
  BY <1>2, <1>3 DEF Shifted
<1>5. i - 1 \in Nat /\ (i - 1) + 1 = i
  OBVIOUS
<1>6. Shifted(s, p, i - 1, k) \in Int /\ Shifted(s, p, i - 1, k) <= index
  BY <1>3, <1>5, Shifts
<1>7. s.start \in Int /\ s.loopEnd \in Int /\ LastFrame(s) \in Int /\ s.loops \in Nat
      /\ size = s.loopEnd + 1 - s.start
  BY <1>1, SampleFields
<1>8. CASE ~l.looping
  <2>1. LoopStep(s, p, i, l) = [l EXCEPT !.index = Least(index, LastFrame(s))]
    BY <1>4, <1>8 DEF LoopStep
  <2>2. Least(index, LastFrame(s)) \in Int
    BY <1>7 DEF Least
  <2>3. PICK q : q = [l EXCEPT !.index = Least(index, LastFrame(s))]
    OBVIOUS
  <2>4. /\ q \in LoopType /\ q.closed = k /\ ~q.looping /\ q.index = Least(index, LastFrame(s))
    BY <1>2, <1>8, <2>2, <2>3 DEF LoopType
  <2>5. CountReached(s, p.restarts + k)
    BY <1>2, <1>8 DEF LoopSoFar
  <2>6. q.index = index \/ (q.index = LastFrame(s) /\ LastFrame(s) <= index)
    BY <1>7, <2>4 DEF Least
  <2>7. LoopSoFar(s, p, i, q)
    BY <1>3, <2>4, <2>5, <2>6 DEF LoopSoFar
  <2> QED BY <2>1, <2>3, <2>4, <2>7
<1>9. CASE l.looping
  <2>1. PICK times : times = (Most(index - s.loopEnd, 0) + size - 1) \div size
    OBVIOUS
  <2>2. /\ times \in Nat /\ index - size * times <= s.loopEnd
        /\ times = 0 => index - size * times = index
        /\ times > 0 => s.loopEnd < index - size * times + size
    <3>1. PICK e \in Int : e = s.loopEnd
      BY <1>7
    <3>2. times = Times(index, e, size)
      BY <2>1, <3>1 DEF Times
    <3>3. /\ times \in Nat /\ index - size * times <= e
          /\ times > 0 => e < index - size * times + size
      BY <3>2, Wrapped
    <3>4. times = 0 => index - size * times = index
      OBVIOUS
    <3> QED BY <3>1, <3>3, <3>4
  <2>3. PICK wrapped : wrapped = index - size * times
    OBVIOUS
  <2>4. /\ wrapped \in Int /\ wrapped <= s.loopEnd
        /\ times = 0 => wrapped = index
        /\ times > 0 => s.start <= wrapped
    <3>1. size * times \in Int
      BY <2>2
    <3> QED BY <1>7, <2>2, <2>3, <3>1
  <2>5. wrapped = Shifted(s, p, i, k + times)
    BY <1>1, <1>3, <2>2, <2>3, Shifts
  <2>6. PICK on \in BOOLEAN : on = ~(wrapped < l.index /\ CountReached(s, p.restarts + (k + times)))
    OBVIOUS
  <2>7. PICK fades \in BOOLEAN : fades = (l.fades \/ wrapped >= Most(s.start, FadeStart(s)))
    OBVIOUS
  <2>8. LoopStep(s, p, i, l) = [index |-> wrapped, closed |-> k + times, looping |-> on, fades |-> fades]
    BY <1>1, <1>2, <1>4, <1>9, <2>1, <2>3, <2>6, <2>7, Zenon DEF LoopStep
  <2>9. PICK q : q = [index |-> wrapped, closed |-> k + times, looping |-> on, fades |-> fades]
    OBVIOUS
  <2>10. /\ q \in LoopType /\ q.index = wrapped /\ q.closed = k + times /\ q.looping = on
    BY <2>2, <2>4, <2>9 DEF LoopType
  <2>11. ASSUME q.closed > 0 \/ s.start <= p.position PROVE s.start <= q.index
    <3>1. CASE times > 0
      BY <2>4, <2>10, <3>1
    <3>2. CASE times = 0 /\ i = 1
      <4>1. k = 0
        BY <1>2, <3>2 DEF LoopSoFar
      <4>2. s.start <= p.position
        BY <2>10, <2>11, <3>2, <4>1
      <4>3. p.position <= index /\ p.position \in Int
        BY <1>3, <4>1, Shifts DEF PlaceType
      <4> QED BY <1>7, <2>4, <2>10, <3>2, <4>2, <4>3
    <3>3. CASE times = 0 /\ i # 1
      <4>1. i - 1 > 0 /\ l.index = Shifted(s, p, i - 1, k) /\ s.start <= l.index
        <5>1. i - 1 > 0
          BY <3>3
        <5>2. l.closed > 0 \/ s.start <= p.position
          BY <1>2, <2>10, <2>11, <3>3
        <5> QED BY <1>2, <1>9, <5>1, <5>2 DEF LoopSoFar
      <4> QED BY <1>6, <1>7, <2>4, <2>10, <3>3, <4>1
    <3> QED BY <2>2, <3>1, <3>2, <3>3
  <2>12. ~q.looping => CountReached(s, p.restarts + q.closed)
    BY <2>6, <2>10
  <2>13. LoopSoFar(s, p, i, q)
    BY <2>4, <2>5, <2>10, <2>11, <2>12 DEF LoopSoFar
  <2> QED BY <2>8, <2>9, <2>10, <2>13
<1> QED BY <1>8, <1>9

StraightType == [index : Int, repeats : Nat, over : BOOLEAN]
Back(s, p, i, k) == IndexOf(s, p, i) - SampleSize(s) * k
NoRepeats(s, count) == Loops(s) \/ count >= s.count

(* The same for a pass that does not loop: less the repeats.               *)
StraightSoFar(s, p, i, l) ==
  /\ i = 0 => l.repeats = 0
  /\ i > 0 /\ ~l.over => l.index = Back(s, p, i, l.repeats)
  /\ l.over => /\ l.index = LastFrame(s) /\ LastFrame(s) <= Back(s, p, i, l.repeats)
               /\ NoRepeats(s, p.count + l.repeats)
  /\ i > 0 /\ LastFrame(s) <= p.position /\ NoRepeats(s, p.count) => l.over /\ l.repeats = 0

LEMMA Backs ==
  ASSUME NEW s, Plausible(s), NEW p \in PlaceType, NEW i \in Nat, NEW k \in Nat
  PROVE  /\ Back(s, p, i, k) \in Int
         /\ Back(s, p, i, k + 1) = Back(s, p, i, k) - SampleSize(s)
         /\ Back(s, p, i, k) <= Back(s, p, i + 1, k)
         /\ i > 0 => p.position <= Back(s, p, i, 0)
<1>1. PICK size \in Int : size = SampleSize(s)
  BY SampleFields
<1>2. PICK a \in Int : a = IndexOf(s, p, i)
  BY TicksRise
<1>3. PICK b \in Int : b = IndexOf(s, p, i + 1)
  BY TicksRise
<1>4. a <= b /\ (i > 0 => p.position <= a)
  BY <1>2, <1>3, TicksRise
<1>5. size * (k + 1) = size * k + size /\ size * k \in Int /\ size * 0 = 0
  BY ONLY size \in Int, k \in Nat
<1>6. /\ Back(s, p, i, k) = a - size * k /\ Back(s, p, i, k + 1) = a - size * (k + 1)
      /\ Back(s, p, i + 1, k) = b - size * k /\ Back(s, p, i, 0) = a - size * 0
  BY <1>1, <1>2, <1>3 DEF Back
<1>7. PICK x \in Int : x = size * k
  BY <1>5
<1> QED BY <1>1, <1>4, <1>5, <1>6, <1>7

LEMMA StraightStepSoFar ==
  ASSUME NEW s, Plausible(s), NEW p \in PlaceType, NEW i \in Nat \ {0},
         NEW l \in StraightType, StraightSoFar(s, p, i - 1, l)
  PROVE  /\ StraightStep(s, p, i, l) \in StraightType
         /\ StraightSoFar(s, p, i, StraightStep(s, p, i, l))
<1>1. PICK k \in Nat : k = l.repeats
  BY DEF StraightType
<1>2. PICK index \in Int : index = Back(s, p, i, k)
  BY Backs
<1>3. IndexOf(s, p, i) - SampleSize(s) * l.repeats = index
  BY <1>1, <1>2 DEF Back
<1>4. i - 1 \in Nat /\ (i - 1) + 1 = i
  OBVIOUS
<1>5. Back(s, p, i - 1, k) \in Int /\ Back(s, p, i - 1, k) <= index
  BY <1>2, <1>4, Backs
<1>6. LastFrame(s) \in Int /\ SampleSize(s) \in Int /\ s.count \in Nat /\ p.count \in Int
  BY SampleFields DEF PlaceType
<1>7. PICK again \in BOOLEAN : again = (p.count + l.repeats < s.count /\ ~Loops(s))
  OBVIOUS
<1>8. ~again <=> NoRepeats(s, p.count + k)
  <2>1. ~(p.count + k < s.count) <=> p.count + k >= s.count
    BY <1>6
  <2> QED BY <1>1, <1>7, <2>1, Zenon DEF NoRepeats
<1>9. ASSUME LastFrame(s) <= p.position, NoRepeats(s, p.count)
      PROVE  k = 0 /\ (l.over \/ (index >= LastFrame(s) /\ ~again))
  <2>1. k = 0
    BY <1>1, <1>4, <1>9 DEF StraightSoFar
  <2>2. p.position <= index /\ p.position \in Int
    BY <1>2, <2>1, Backs DEF PlaceType
  <2>3. ~again
    BY <1>6, <1>8, <1>9, <2>1
  <2> QED BY <1>6, <1>9, <2>1, <2>2, <2>3
<1>10. CASE l.over \/ (index >= LastFrame(s) /\ ~again)
  <2>1. PICK q : q = [index |-> LastFrame(s), repeats |-> k, over |-> TRUE]
    OBVIOUS
  <2>2. StraightStep(s, p, i, l) = q
    BY <1>1, <1>3, <1>7, <1>10, <2>1, Zenon DEF StraightStep
  <2>3. q \in StraightType /\ q.index = LastFrame(s) /\ q.repeats = k /\ q.over
    BY <1>6, <2>1 DEF StraightType
  <2>4. LastFrame(s) <= index /\ NoRepeats(s, p.count + k)
    <3>1. CASE l.over
      BY <1>1, <1>2, <1>5, <1>6, <3>1 DEF StraightSoFar
    <3>2. CASE ~l.over
      BY <1>6, <1>8, <1>10, <3>2
    <3> QED BY <3>1, <3>2
  <2>5. StraightSoFar(s, p, i, q)
    BY <1>2, <1>9, <2>3, <2>4 DEF StraightSoFar
  <2> QED BY <2>2, <2>3, <2>5
<1>11. CASE ~l.over /\ index >= LastFrame(s) /\ again
  <2>1. PICK q : q = [index |-> index - SampleSize(s), repeats |-> k + 1, over |-> FALSE]
    OBVIOUS
  <2>2. StraightStep(s, p, i, l) = q
    BY <1>1, <1>3, <1>7, <1>11, <2>1, Zenon DEF StraightStep
  <2>3. q \in StraightType /\ q.index = index - SampleSize(s) /\ q.repeats = k + 1 /\ ~q.over
    BY <1>6, <2>1 DEF StraightType
  <2>4. q.index = Back(s, p, i, q.repeats)
    BY <1>2, <2>3, Backs
  <2>5. StraightSoFar(s, p, i, q)
    BY <1>9, <1>11, <2>3, <2>4 DEF StraightSoFar
  <2> QED BY <2>2, <2>3, <2>5
<1>12. CASE ~l.over /\ ~(index >= LastFrame(s))
  <2>1. PICK q : q = [l EXCEPT !.index = index]
    OBVIOUS
  <2>2. StraightStep(s, p, i, l) = q
    BY <1>1, <1>3, <1>12, <2>1, Zenon DEF StraightStep
  <2>3. q \in StraightType /\ q.index = index /\ q.repeats = k /\ ~q.over
    BY <1>1, <1>12, <2>1 DEF StraightType
  <2>4. StraightSoFar(s, p, i, q)
    BY <1>2, <1>9, <1>12, <2>3 DEF StraightSoFar
  <2> QED BY <2>2, <2>3, <2>4
<1> QED BY <1>10, <1>11, <1>12

LEMMA LoopPassed ==
  ASSUME NEW s, Plausible(s), Loops(s), NEW p \in PlaceType, NEW N \in Nat
  PROVE  LoopPass(s, p, N) \in LoopType /\ LoopSoFar(s, p, N, LoopPass(s, p, N))
<1> DEFINE Base == [index |-> 0, closed |-> 0, looping |-> TRUE, fades |-> FALSE]
           Move(i, l) == LoopStep(s, p, i, l)
           Equation(g) == g = [i \in 0 .. N |-> IF i = 0 THEN Base ELSE Move(i, g[i - 1])]
           Good(i, l) == l \in LoopType /\ LoopSoFar(s, p, i, l)
<1>1. Good(0, Base)
  BY DEF LoopType, LoopSoFar
<1>2. ASSUME NEW n \in 1 .. N, NEW l, Good(n - 1, l) PROVE Good(n, Move(n, l))
  BY <1>2, LoopStepSoFar
<1>3. \E g : Equation(g)
  <2> DEFINE U == LoopType
             Q == {q \in (0 .. N) \X U : Good(q[1], q[2])}
             F == [n \in 1 .. N |-> [l \in U |-> Move(n, l)]]
  <2>1. Base \in U /\ <<0, Base>> \in Q
    <3> HIDE DEF Base
    <3> QED BY <1>1
  <2>2. ASSUME NEW n \in 1 .. N, NEW l \in U, <<n - 1, l>> \in Q
        PROVE  F[n][l] \in U /\ <<n, F[n][l]>> \in Q
    <3>1. Good(n, Move(n, l))
      <4> HIDE DEF Move, Good
      <4> QED BY <1>2, <2>2
    <3>2. F[n][l] = Move(n, l) /\ n \in 0 .. N
      <4> HIDE DEF Move
      <4> QED OBVIOUS
    <3>3. PICK q : q = Move(n, l)
      OBVIOUS
    <3>4. q \in U /\ <<n, q>> \in Q
      BY <3>1, <3>2, <3>3
    <3> HIDE DEF F, Move, Q, U
    <3> QED BY <3>2, <3>3, <3>4
  <2>3. PICK g : Passes(g, N, Q, U, Base, F)
    <3> HIDE DEF F, Q, U, Base
    <3>1. Leads(N, Q, U, F)
      BY <2>2 DEF Leads
    <3> QED BY <2>1, <3>1, Passing
  <2>4. ASSUME NEW n \in 0 .. N, n # 0 PROVE F[n][g[n - 1]] = Move(n, g[n - 1])
    <3>1. n \in 1 .. N /\ n - 1 \in 0 .. N
      BY <2>4
    <3>2. g[n - 1] \in U
      <4> HIDE DEF F, Q, U, Base
      <4> QED BY <2>3, <3>1 DEF Passes
    <3> HIDE DEF U, Move
    <3> QED BY <3>1, <3>2
  <2>5. Equation(g)
    <3> HIDE DEF F, Move, Q, U, Base
    <3> QED BY <2>3, <2>4 DEF Passes
  <2> HIDE DEF Equation
  <2> QED BY <2>5
<1>4. PICK w : w = CHOOSE g : Equation(g)
  OBVIOUS
<1>5. Equation(w)
  <2> HIDE DEF Equation
  <2> QED BY <1>3, <1>4
<1>6. LoopPass(s, p, N) = w[N]
  BY <1>4 DEF LoopPass
<1> DEFINE Right == {n \in 0 .. N : Good(n, w[n])}
<1>7. w[0] = Base /\ \A n \in 1 .. N : w[n] = Move(n, w[n - 1])
  <2> HIDE DEF Move, Base
  <2> QED BY <1>5
<1> HIDE DEF Equation, Move, Good, Base
<1>8. 0 \in Right
  BY <1>1, <1>7
<1>9. ASSUME NEW n \in 1 .. N, n - 1 \in Right PROVE n \in Right
  <2>1. Good(n, Move(n, w[n - 1]))
    BY <1>2, <1>9
  <2> QED BY <1>7, <2>1
<1>10. N \in Right
  <2>1. \A n \in 0 .. N : n \in Right
    <3> HIDE DEF Right
    <3> QED BY <1>8, <1>9, Upward
  <2> HIDE DEF Right
  <2> QED BY <2>1
<1>11. Good(N, w[N])
  BY <1>10
<1> QED BY <1>6, <1>11 DEF Good
LEMMA StraightPassed ==
  ASSUME NEW s, Plausible(s), NEW p \in PlaceType, NEW N \in Nat
  PROVE  StraightPass(s, p, N) \in StraightType /\ StraightSoFar(s, p, N, StraightPass(s, p, N))
<1> DEFINE Base == [index |-> 0, repeats |-> 0, over |-> FALSE]
           Move(i, l) == StraightStep(s, p, i, l)
           Equation(g) == g = [i \in 0 .. N |-> IF i = 0 THEN Base ELSE Move(i, g[i - 1])]
           Good(i, l) == l \in StraightType /\ StraightSoFar(s, p, i, l)
<1>1. Good(0, Base)
  BY DEF StraightType, StraightSoFar
<1>2. ASSUME NEW n \in 1 .. N, NEW l, Good(n - 1, l) PROVE Good(n, Move(n, l))
  BY <1>2, StraightStepSoFar
<1>3. \E g : Equation(g)
  <2> DEFINE U == StraightType
             Q == {q \in (0 .. N) \X U : Good(q[1], q[2])}
             F == [n \in 1 .. N |-> [l \in U |-> Move(n, l)]]
  <2>1. Base \in U /\ <<0, Base>> \in Q
    <3> HIDE DEF Base
    <3> QED BY <1>1
  <2>2. ASSUME NEW n \in 1 .. N, NEW l \in U, <<n - 1, l>> \in Q
        PROVE  F[n][l] \in U /\ <<n, F[n][l]>> \in Q
    <3>1. Good(n, Move(n, l))
      <4> HIDE DEF Move, Good
      <4> QED BY <1>2, <2>2
    <3>2. F[n][l] = Move(n, l) /\ n \in 0 .. N
      <4> HIDE DEF Move
      <4> QED OBVIOUS
    <3>3. PICK q : q = Move(n, l)
      OBVIOUS
    <3>4. q \in U /\ <<n, q>> \in Q
      BY <3>1, <3>2, <3>3
    <3> HIDE DEF F, Move, Q, U
    <3> QED BY <3>2, <3>3, <3>4
  <2>3. PICK g : Passes(g, N, Q, U, Base, F)
    <3> HIDE DEF F, Q, U, Base
    <3>1. Leads(N, Q, U, F)
      BY <2>2 DEF Leads
    <3> QED BY <2>1, <3>1, Passing
  <2>4. ASSUME NEW n \in 0 .. N, n # 0 PROVE F[n][g[n - 1]] = Move(n, g[n - 1])
    <3>1. n \in 1 .. N /\ n - 1 \in 0 .. N
      BY <2>4
    <3>2. g[n - 1] \in U
      <4> HIDE DEF F, Q, U, Base
      <4> QED BY <2>3, <3>1 DEF Passes
    <3> HIDE DEF U, Move
    <3> QED BY <3>1, <3>2
  <2>5. Equation(g)
    <3> HIDE DEF F, Move, Q, U, Base
    <3> QED BY <2>3, <2>4 DEF Passes
  <2> HIDE DEF Equation
  <2> QED BY <2>5
<1>4. PICK w : w = CHOOSE g : Equation(g)
  OBVIOUS
<1>5. Equation(w)
  <2> HIDE DEF Equation
  <2> QED BY <1>3, <1>4
<1>6. StraightPass(s, p, N) = w[N]
  BY <1>4 DEF StraightPass
<1> DEFINE Right == {n \in 0 .. N : Good(n, w[n])}
<1>7. w[0] = Base /\ \A n \in 1 .. N : w[n] = Move(n, w[n - 1])
  <2> HIDE DEF Move, Base
  <2> QED BY <1>5
<1> HIDE DEF Equation, Move, Good, Base
<1>8. 0 \in Right
  BY <1>1, <1>7
<1>9. ASSUME NEW n \in 1 .. N, n - 1 \in Right PROVE n \in Right
  <2>1. Good(n, Move(n, w[n - 1]))
    BY <1>2, <1>9
  <2> QED BY <1>7, <2>1
<1>10. N \in Right
  <2>1. \A n \in 0 .. N : n \in Right
    <3> HIDE DEF Right
    <3> QED BY <1>8, <1>9, Upward
  <2> HIDE DEF Right
  <2> QED BY <2>1
<1>11. Good(N, w[N])
  BY <1>10
<1> QED BY <1>6, <1>11 DEF Good

-----------------------------------------------------------------------------
(* Where a voice stands after a block.                                     *)
Behind(s, p) == p.restarts * LoopSize(s) + (p.count - 1) * SampleSize(s)
PlaceOf(s, p) == p.travel - Behind(s, p) * Grain
Exact(s, p) == PlaceOf(s, p) = p.position * Grain + p.part
AtEnd(s, p, released) ==
  /\ p.position = LastFrame(s) /\ LastFrame(s) * Grain <= PlaceOf(s, p)
  /\ ~ShouldLoop(s, p, released) /\ NoRepeats(s, p.count)
InLoop(s, p, released) ==
  p.restarts > 0 /\ ShouldLoop(s, p, released) => s.start <= p.position /\ p.position <= s.loopEnd
Stands(s, p, released) ==
  p \in PlaceType /\ (Exact(s, p) \/ AtEnd(s, p, released)) /\ InLoop(s, p, released)

(* What is behind a voice grows by the loops it closes and the repeats.    *)
LEMMA PlaceMoves ==
  ASSUME NEW s, Plausible(s), NEW p \in PlaceType, NEW q \in PlaceType,
         NEW k \in Nat, NEW m \in Nat, NEW d \in Int,
         q.restarts = p.restarts + k, q.count = p.count + m, q.travel = p.travel + d
  PROVE  /\ PlaceOf(s, p) \in Int
         /\ PlaceOf(s, q) = PlaceOf(s, p) + d - (LoopSize(s) * k) * Grain - (SampleSize(s) * m) * Grain
<1>1. PICK x \in Int, y \in Int : x = LoopSize(s) /\ y = SampleSize(s)
  BY SampleFields
<1>2. PICK r \in Nat, c \in Int, t \in Int : r = p.restarts /\ c = p.count /\ t = p.travel
  BY DEF PlaceType
<1>3. PICK G \in Nat : G = Grain
  BY PlaybackAssumption DEF PlaybackAssumption
<1>4. /\ PlaceOf(s, p) = t - (r * x + (c - 1) * y) * G
      /\ PlaceOf(s, q) = (t + d) - ((r + k) * x + ((c + m) - 1) * y) * G
  BY <1>1, <1>2, <1>3 DEF PlaceOf, Behind
<1>5. t - (r * x + (c - 1) * y) * G \in Int
  BY ONLY t \in Int, r \in Nat, x \in Int, c \in Int, y \in Int, G \in Nat
<1>6. (r + k) * x + ((c + m) - 1) * y = (r * x + (c - 1) * y) + x * k + y * m
  BY ONLY r \in Nat, x \in Int, c \in Int, y \in Int, k \in Nat, m \in Nat
<1>7. PICK b \in Int, u \in Int, v \in Int : b = r * x + (c - 1) * y /\ u = x * k /\ v = y * m
  BY ONLY r \in Nat, x \in Int, c \in Int, y \in Int, k \in Nat, m \in Nat
<1>8. (b + u + v) * G = b * G + u * G + v * G /\ b * G \in Int /\ u * G \in Int /\ v * G \in Int
  BY ONLY b \in Int, u \in Int, v \in Int, G \in Nat
<1>9. PlaceOf(s, p) = t - b * G /\ PlaceOf(s, q) = (t + d) - (b + u + v) * G
  BY <1>4, <1>6, <1>7
<1>10. PlaceOf(s, q) = PlaceOf(s, p) + d - u * G - v * G
  BY <1>8, <1>9
<1> QED BY <1>1, <1>3, <1>4, <1>5, <1>7, <1>10

LEMMA LoopOrNot ==
  ASSUME NEW s, Plausible(s), NEW p, NEW q, NEW released \in BOOLEAN, NEW later \in BOOLEAN,
         q.restarts = p.restarts, released => later
  PROVE  /\ ShouldLoop(s, q, later) => ShouldLoop(s, p, released)
         /\ ShouldLoop(s, p, released) => Loops(s)
BY DEF ShouldLoop, CountReached, Loops

(* The ticks of a frame of the sample.                                     *)
LEMMA Multiples ==
  ASSUME NEW a \in Int, NEW x \in Int, NEW n \in Int
  PROVE  /\ a * n - x * n = (a - x) * n /\ a * n \in Int
         /\ n \in Nat /\ a <= x => a * n <= x * n
OBVIOUS

MovedTo(p, here, part, r, c, e, d, n) ==
  [p EXCEPT !.position = here, !.part = part, !.restarts = r, !.count = c,
            !.ended = e, !.travel = d, !.played = n]
LEMMA Moved ==
  ASSUME NEW p \in PlaceType, NEW here \in Int, NEW part \in 0 .. Grain - 1, NEW r \in Nat,
         NEW c \in Int, NEW e \in BOOLEAN, NEW d \in Int, NEW n \in Int, NEW q,
         q = MovedTo(p, here, part, r, c, e, d, n)
  PROVE  /\ q \in PlaceType /\ q.position = here /\ q.part = part
         /\ q.restarts = r /\ q.count = c /\ q.travel = d
<1>1. /\ q.position = here /\ q.part = part /\ q.restarts = r /\ q.count = c /\ q.travel = d
      /\ q.ended = e /\ q.played = n /\ q.age = p.age /\ q.trigger = p.trigger
      /\ q = [position |-> q.position, part |-> q.part, age |-> q.age, trigger |-> q.trigger,
              restarts |-> q.restarts, count |-> q.count, ended |-> q.ended,
              travel |-> q.travel, played |-> q.played]
  BY DEF PlaceType, MovedTo
<1>2. p.age \in Int /\ p.trigger \in Int
  BY DEF PlaceType
<1> QED BY <1>1, <1>2 DEF PlaceType

LEMMA PlayedStands ==
  ASSUME NEW s, Plausible(s), NEW p, NEW n \in Nat \ {0}, NEW released \in BOOLEAN,
         Stands(s, p, released), NEW later \in BOOLEAN, released => later
  PROVE  Stands(s, Played(s, p, n, released), later)
<1> DEFINE loop == LoopPass(s, p, n)
           straight == StraightPass(s, p, n)
<1>1. p \in PlaceType /\ (Exact(s, p) \/ AtEnd(s, p, released)) /\ InLoop(s, p, released)
  BY DEF Stands
<1>2. PICK G \in Nat \ {0} : G = Grain
  BY PlaybackAssumption DEF PlaybackAssumption
<1>3. PICK base \in Int : base = p.position * Grain + p.part
  BY <1>1, <1>2 DEF PlaceType
<1>4. PICK t \in Int : t = TickOf(s, p, n)
  BY <1>1, TicksRise
<1>5. PICK index \in Int : index = IndexOf(s, p, n)
  BY <1>1, TicksRise
<1>6. PICK part \in 0 .. G - 1 : part = t % Grain
  BY <1>2, Quotient
<1>7. base <= t /\ p.position <= index /\ t = index * G + part
  <2>1. base <= t /\ p.position <= index
    BY <1>1, <1>3, <1>4, <1>5, TicksRise
  <2>2. index = t \div G
    BY <1>2, <1>4, <1>5 DEF IndexOf
  <2> QED BY <1>2, <1>6, <2>1, <2>2, Quotient
<1>8. PICK last \in Int : last = LastFrame(s)
  BY SampleFields
<1>9. p.position * Grain \in Int /\ p.position \in Int /\ p.part \in 0 .. G - 1
  BY <1>1, <1>2 DEF PlaceType
<1>10. CASE ShouldLoop(s, p, released)
  <2>1. Loops(s) /\ Exact(s, p)
    BY <1>1, <1>10, LoopOrNot DEF AtEnd
  <2>2. loop \in LoopType /\ LoopSoFar(s, p, n, loop)
    BY <1>1, <2>1, LoopPassed
  <2>3. PICK k \in Nat, here \in Int : k = loop.closed /\ here = loop.index
    BY <2>2 DEF LoopType
  <2>4. PICK ending \in BOOLEAN : ending = (~loop.looping /\ loop.index = LastFrame(s))
    OBVIOUS
  <2>5. PICK rest \in 0 .. Grain - 1 : rest = (IF ending THEN Grain - 1 ELSE part)
    BY <1>2
  <2>6. PICK ended \in BOOLEAN : ended = (p.ended \/ (FALSE /\ straight.over))
    OBVIOUS
  <2>7. PICK q : q = [p EXCEPT !.position = here, !.part = rest,
                         !.restarts = p.restarts + k, !.count = p.count, !.ended = ended,
                         !.travel = p.travel + t - base, !.played = p.played + n]
    OBVIOUS
  <2>8. Played(s, p, n, released) = q
    BY <1>3, <1>4, <1>6, <1>10, <2>3, <2>4, <2>5, <2>6, <2>7, Zenon DEF Played
  <2>9. /\ q \in PlaceType /\ q.position = here /\ q.part = rest
        /\ q.restarts = p.restarts + k /\ q.count = p.count + 0 /\ q.travel = p.travel + (t - base)
    <3>1. p.restarts + k \in Nat /\ p.count \in Int /\ p.travel + t - base \in Int
          /\ p.played + n \in Int /\ p.count + 0 = p.count
          /\ p.travel + t - base = p.travel + (t - base)
      BY <1>1 DEF PlaceType
    <3>2. /\ q \in PlaceType /\ q.position = here /\ q.part = rest
          /\ q.restarts = p.restarts + k /\ q.count = p.count /\ q.travel = p.travel + t - base
      <4>1. PICK r \in Nat, c \in Int, d \in Int, m \in Int :
              r = p.restarts + k /\ c = p.count /\ d = p.travel + t - base /\ m = p.played + n
        BY <1>1, <3>1 DEF PlaceType
      <4>2. q = MovedTo(p, here, rest, r, c, ended, d, m)
        BY ONLY <4>1, <2>7 DEF MovedTo
      <4>3. /\ q \in PlaceType /\ q.position = here /\ q.part = rest
            /\ q.restarts = r /\ q.count = c /\ q.travel = d
        BY <1>1, <4>2, Moved
      <4> QED BY <4>1, <4>3
    <3> QED BY <3>1, <3>2
  <2>10. PICK exact \in Int : exact = Shifted(s, p, n, k)
    BY <1>1, <2>1, Shifts
  <2>11. PlaceOf(s, q) = t - (index - exact) * G
    <3>1. /\ PlaceOf(s, p) \in Int
          /\ PlaceOf(s, q) = PlaceOf(s, p) + (t - base) - (LoopSize(s) * k) * Grain
                             - (SampleSize(s) * 0) * Grain
      BY <1>1, <2>9, PlaceMoves
    <3>2. (SampleSize(s) * 0) * Grain = 0
      BY <1>2, SampleFields
    <3>3. LoopSize(s) * k = index - exact
      <4>1. LoopSize(s) * k \in Int
        BY SampleFields
      <4> QED BY <1>5, <2>10, <4>1 DEF Shifted
    <3>4. PlaceOf(s, p) = base
      BY <1>3, <2>1 DEF Exact
    <3>5. PICK z \in Int : z = (index - exact) * G
      OBVIOUS
    <3> QED BY <1>2, <3>1, <3>2, <3>3, <3>4, <3>5
  <2>12. PlaceOf(s, q) = exact * G + part
    <3>1. (index - exact) * G = index * G - exact * G /\ index * G \in Int /\ exact * G \in Int
      BY ONLY index \in Int, exact \in Int, G \in Nat \ {0}
    <3> QED BY <1>7, <2>11, <3>1
  <2>13. ~loop.looping => CountReached(s, q.restarts) /\ ~ShouldLoop(s, q, later)
    BY <2>2, <2>3, <2>9 DEF LoopSoFar, ShouldLoop
  <2>14. here = exact \/ (ending /\ last <= exact)
    <3>1. CASE loop.looping
      BY <2>2, <2>3, <2>10, <3>1 DEF LoopSoFar
    <3>2. CASE ~loop.looping /\ loop.index # Shifted(s, p, n, loop.closed)
      BY <1>8, <2>2, <2>3, <2>4, <2>10, <3>2 DEF LoopSoFar
    <3>3. CASE loop.index = Shifted(s, p, n, loop.closed)
      BY <2>3, <2>10, <3>3
    <3> QED BY <3>1, <3>2, <3>3
  <2>15. ASSUME ending PROVE last <= exact /\ here = last /\ ~ShouldLoop(s, q, later)
    <3>1. ~loop.looping /\ here = last
      BY <1>8, <2>3, <2>4, <2>15
    <3> QED BY <2>13, <2>14, <3>1
  <2>16. InLoop(s, q, later)
    <3>1. SUFFICES ASSUME q.restarts > 0, ShouldLoop(s, q, later)
                   PROVE  s.start <= q.position /\ q.position <= s.loopEnd
      BY DEF InLoop
    <3>2. loop.looping
      BY <2>13, <3>1
    <3>3. k > 0 \/ s.start <= p.position
      <4>1. p.restarts \in Nat
        BY <1>1 DEF PlaceType
      <4>2. k > 0 \/ p.restarts > 0
        BY <2>9, <3>1, <4>1
      <4> QED BY <1>1, <1>10, <4>2 DEF InLoop
    <3> QED BY <2>2, <2>3, <2>9, <3>2, <3>3 DEF LoopSoFar
  <2>17. CASE ~ending
    <3>1. PlaceOf(s, q) = q.position * G + q.part
      <4>1. rest = part
        BY <2>5, <2>17
      <4> QED BY <2>9, <2>12, <2>14, <2>17, <4>1
    <3> QED BY <1>2, <2>8, <2>9, <2>16, <3>1 DEF Stands, Exact
  <2>18. CASE ending
    <3>1. last * G <= exact * G /\ last * G \in Int /\ exact * G \in Int
      BY <2>15, <2>18, Multiples
    <3>2. last * G <= PlaceOf(s, q)
      BY <2>12, <3>1
    <3>3. AtEnd(s, q, later)
      BY <1>2, <1>8, <2>1, <2>9, <2>15, <2>18, <3>2 DEF AtEnd, NoRepeats
    <3> QED BY <2>8, <2>9, <2>16, <3>3 DEF Stands
  <2> QED BY <2>17, <2>18
<1>11. CASE ~ShouldLoop(s, p, released)
  <2>1. straight \in StraightType /\ StraightSoFar(s, p, n, straight)
    BY <1>1, StraightPassed
  <2>2. PICK k \in Nat, here \in Int : k = straight.repeats /\ here = straight.index
    BY <2>1 DEF StraightType
  <2>3. PICK ending \in BOOLEAN : ending = straight.over
    BY <2>1 DEF StraightType
  <2>4. PICK rest \in 0 .. Grain - 1 : rest = (IF ending THEN Grain - 1 ELSE part)
    BY <1>2
  <2>5. PICK ended \in BOOLEAN : ended = (p.ended \/ (TRUE /\ ending))
    OBVIOUS
  <2>6. PICK q : q = [p EXCEPT !.position = here, !.part = rest,
                         !.restarts = p.restarts, !.count = p.count + k, !.ended = ended,
                         !.travel = p.travel + t - base, !.played = p.played + n]
    OBVIOUS
  <2>7. Played(s, p, n, released) = q
    BY <1>3, <1>4, <1>6, <1>11, <2>2, <2>3, <2>6, <2>4, <2>5, Zenon DEF Played
  <2>8. /\ q \in PlaceType /\ q.position = here /\ q.part = rest
        /\ q.restarts = p.restarts + 0 /\ q.count = p.count + k /\ q.travel = p.travel + (t - base)
        /\ q.restarts = p.restarts
    <3>1. p.restarts \in Nat /\ p.count + k \in Int /\ p.travel + t - base \in Int
          /\ p.played + n \in Int /\ p.restarts + 0 = p.restarts
          /\ p.travel + t - base = p.travel + (t - base)
      BY <1>1 DEF PlaceType
    <3>2. /\ q \in PlaceType /\ q.position = here /\ q.part = rest
          /\ q.restarts = p.restarts /\ q.count = p.count + k /\ q.travel = p.travel + t - base
      <4>1. PICK r \in Nat, c \in Int, d \in Int, m \in Int :
              r = p.restarts /\ c = p.count + k /\ d = p.travel + t - base /\ m = p.played + n
        BY <1>1, <3>1 DEF PlaceType
      <4>2. q = MovedTo(p, here, rest, r, c, ended, d, m)
        BY ONLY <4>1, <2>6 DEF MovedTo
      <4>3. /\ q \in PlaceType /\ q.position = here /\ q.part = rest
            /\ q.restarts = r /\ q.count = c /\ q.travel = d
        BY <1>1, <4>2, Moved
      <4> QED BY <4>1, <4>3
    <3> QED BY <3>1, <3>2
  <2>9. PICK exact \in Int : exact = Back(s, p, n, k)
    BY <1>1, Backs
  <2>10. PICK place \in Int : place = PlaceOf(s, p)
    BY <1>1, <2>8, PlaceMoves
  <2>11. PlaceOf(s, q) = place + (t - base) - (index - exact) * G
    <3>1. PlaceOf(s, q) = PlaceOf(s, p) + (t - base) - (LoopSize(s) * 0) * Grain
                          - (SampleSize(s) * k) * Grain
      BY <1>1, <2>8, PlaceMoves
    <3>2. (LoopSize(s) * 0) * Grain = 0
      BY <1>2, SampleFields
    <3>3. SampleSize(s) * k = index - exact
      <4>1. SampleSize(s) * k \in Int
        BY SampleFields
      <4> QED BY <1>5, <2>9, <4>1 DEF Back
    <3>4. PICK z \in Int : z = (index - exact) * G
      OBVIOUS
    <3> QED BY <1>2, <2>10, <3>1, <3>2, <3>3, <3>4
  <2>12. (index - exact) * G = index * G - exact * G /\ index * G \in Int /\ exact * G \in Int
    BY ONLY index \in Int, exact \in Int, G \in Nat \ {0}
  <2>13. PlaceOf(s, q) = (place - base) + exact * G + part
    BY <1>7, <2>11, <2>12
  <2>14. ~ShouldLoop(s, q, later)
    BY <1>11, <2>8, LoopOrNot
  <2>15. InLoop(s, q, later)
    BY <2>14 DEF InLoop
  <2>16. CASE ~ending
    <3>1. here = exact
      BY <2>1, <2>2, <2>3, <2>9, <2>16 DEF StraightSoFar
    <3>2. Exact(s, p)
      <4>1. ~AtEnd(s, p, released)
        BY <1>8, <1>9, <2>1, <2>3, <2>16 DEF AtEnd, StraightSoFar
      <4> QED BY <1>1, <4>1
    <3>3. place = base
      BY <1>3, <2>10, <3>2 DEF Exact
    <3>4. PlaceOf(s, q) = q.position * G + q.part
      <4>1. rest = part
        BY <2>4, <2>16
      <4> QED BY <2>8, <2>12, <2>13, <2>16, <3>1, <3>3, <4>1
    <3> QED BY <1>2, <2>7, <2>8, <2>15, <3>4 DEF Stands, Exact
  <2>17. CASE ending
    <3>1. here = last /\ last <= exact /\ NoRepeats(s, q.count)
      BY <1>8, <2>1, <2>2, <2>3, <2>8, <2>9, <2>17 DEF StraightSoFar
    <3>2. last * G <= PlaceOf(s, q)
      <4>1. CASE Exact(s, p)
        <5>1. last * G <= exact * G /\ last * G \in Int
          BY <3>1, Multiples
        <5>2. place = base
          BY <1>3, <2>10, <4>1 DEF Exact
        <5> QED BY <2>12, <2>13, <5>1, <5>2
      <4>2. CASE AtEnd(s, p, released)
        <5>1. last * G <= place /\ last * G \in Int
          BY <1>2, <1>8, <2>10, <4>2, Multiples DEF AtEnd
        <5>2. k = 0 /\ p.position = last
          BY <1>8, <1>9, <2>1, <2>2, <4>2 DEF AtEnd, StraightSoFar
        <5>3. exact = index
          <6>1. SampleSize(s) * 0 = 0
            BY SampleFields
          <6> QED BY <1>5, <2>9, <5>2, <6>1 DEF Back
        <5> QED BY <1>7, <2>11, <2>12, <5>1, <5>3
      <4> QED BY <1>1, <4>1, <4>2
    <3>3. AtEnd(s, q, later)
      BY <1>2, <1>8, <2>8, <2>14, <2>17, <3>1, <3>2 DEF AtEnd
    <3> QED BY <2>7, <2>8, <2>15, <3>3 DEF Stands
  <2> QED BY <2>16, <2>17
<1> QED BY <1>10, <1>11

-----------------------------------------------------------------------------
(* What a voice that plays no sample in this block has to do.              *)
LEMMA Flattened ==
  ASSUME NEW Y, NEW seqs \in Seq(Seq(Y))
  PROVE  FlattenSeq(seqs) \in Seq(Y)
<1>1. PICK N : N = Len(seqs)
  OBVIOUS
<1>2. N \in Nat /\ DOMAIN seqs = 1 .. N /\ \A i \in 1 .. N : seqs[i] \in Seq(Y)
  BY <1>1
<1>3. CASE N = 0
  <2>1. FlattenSeq(seqs) = seqs
    BY <1>1, <1>3, Zenon DEF FlattenSeq
  <2>2. seqs = <<>>
    BY <1>1, <1>3, EmptySeq
  <2> QED BY <2>1, <2>2
<1>4. CASE N # 0
  <2> DEFINE Add(n, r) == IF n = 1 THEN seqs[n] ELSE r \o seqs[n]
             Equation(g) == g = [n \in 1 .. N |-> IF n = 1 THEN seqs[n] ELSE g[n - 1] \o seqs[n]]
  <2>1. \E g : Equation(g)
    <3> DEFINE F == [n \in 1 .. N |-> [r \in Seq(Y) |-> Add(n, r)]]
               Q == (0 .. N) \X Seq(Y)
    <3>1. ASSUME NEW n \in 1 .. N, NEW r \in Seq(Y)
          PROVE  F[n][r] = Add(n, r) /\ Add(n, r) \in Seq(Y) /\ <<n, Add(n, r)>> \in Q
      <4>1. PICK t : t = Add(n, r)
        OBVIOUS
      <4>2. seqs[n] \in Seq(Y) /\ r \o seqs[n] \in Seq(Y)
        BY <1>2
      <4>3. t \in Seq(Y) /\ n \in 0 .. N
        BY <1>2, <4>1, <4>2
      <4>4. F[n][r] = t
        <5> HIDE DEF Add
        <5> QED BY <4>1
      <4> QED BY <4>1, <4>3, <4>4
    <3>2. <<>> \in Seq(Y) /\ <<0, <<>>>> \in Q
      <4>1. PICK e \in Seq(Y) : e = <<>>
        BY EmptySeq
      <4>2. 0 \in 0 .. N
        BY <1>2
      <4>3. <<0, e>> \in Q
        BY <4>2
      <4> QED BY <4>1, <4>3
    <3>3. PICK g : Passes(g, N, Q, Seq(Y), <<>>, F)
      <4> HIDE DEF F, Q, Add
      <4>1. Leads(N, Q, Seq(Y), F)
        BY <3>1 DEF Leads
      <4> QED BY <1>2, <3>2, <4>1, Passing
    <3>4. ASSUME NEW n \in 1 .. N
          PROVE  g[n] = Add(n, g[n - 1]) /\ g[n] \in Seq(Y)
      <4>1. n # 0 /\ n \in 0 .. N /\ n - 1 \in 0 .. N
        BY <1>2
      <4>2. g[n] = F[n][g[n - 1]] /\ g[n - 1] \in Seq(Y) /\ g[n] \in Seq(Y)
        <5> HIDE DEF F, Q
        <5> QED BY <3>3, <4>1 DEF Passes
      <4> HIDE DEF F, Q, Add
      <4> QED BY <3>1, <4>2
    <3>5. PICK h : h = [n \in 1 .. N |-> g[n]]
      OBVIOUS
    <3>6. ASSUME NEW n \in 1 .. N
          PROVE  g[n] = IF n = 1 THEN seqs[n] ELSE h[n - 1] \o seqs[n]
      <4>1. n # 1 => n - 1 \in 1 .. N
        BY <1>2
      <4> QED BY <3>4, <3>5, <4>1
    <3>7. Equation(h)
      BY <3>5, <3>6
    <3> HIDE DEF Equation
    <3> QED BY <3>7
  <2>2. PICK w : w = CHOOSE g : Equation(g)
    OBVIOUS
  <2>3. Equation(w)
    <3> HIDE DEF Equation
    <3> QED BY <2>1, <2>2
  <2>4. FlattenSeq(seqs) = w[N]
    BY <1>1, <1>4, <2>2, Zenon DEF FlattenSeq
  <2> DEFINE Right == {n \in 0 .. N : n = 0 \/ w[n] \in Seq(Y)}
  <2>5. 0 \in Right
    BY <1>2
  <2>6. ASSUME NEW n \in 1 .. N, n - 1 \in Right PROVE n \in Right
    <3>1. w[n] = IF n = 1 THEN seqs[n] ELSE w[n - 1] \o seqs[n]
      BY <2>3
    <3>2. n # 1 => w[n - 1] \in Seq(Y)
      BY <1>2, <2>6
    <3>3. seqs[n] \in Seq(Y) /\ n \in 0 .. N
      BY <1>2
    <3> HIDE DEF Equation
    <3>4. w[n] \in Seq(Y)
      BY <3>1, <3>2, <3>3
    <3> QED BY <3>3, <3>4
  <2>7. \A n \in 0 .. N : n \in Right
    <3> HIDE DEF Right
    <3> QED BY <1>2, <2>5, <2>6, Upward
  <2> HIDE DEF Equation
  <2> QED BY <1>2, <1>4, <2>4, <2>7
<1> QED BY <1>3, <1>4

DiscardsOf(r) == {Discard(s) : s \in PerVoice(r)}

LEMMA DiscardsSoFar ==
  ASSUME Len(patch.sources) \in Nat, NEW r
  PROVE  \E w : /\ DiscardAll(r) = w[Len(patch.sources)] /\ w[0] = <<>>
                /\ \A n \in 0 .. Len(patch.sources) : w[n] \in Seq(DiscardsOf(r))
                /\ \A n \in 1 .. Len(patch.sources) :
                    w[n] = IF n \in PerVoice(r) THEN Append(w[n - 1], Discard(n)) ELSE w[n - 1]
<1> DEFINE Y == {Discard(n) : n \in PerVoice(r)}
           Add(n, t) == IF n \in PerVoice(r) THEN Append(t, Discard(n)) ELSE t
<1>1. PICK N \in Nat : N = Len(patch.sources)
  OBVIOUS
<1> DEFINE Equation(g) ==
             g = [n \in 0 .. N |-> IF n = 0 THEN <<>>
                    ELSE IF n \in PerVoice(r) THEN Append(g[n - 1], Discard(n)) ELSE g[n - 1]]
<1>2. \A n \in 1 .. N : \A t \in Seq(Y) : Add(n, t) \in Seq(Y)
  OBVIOUS
<1>3. \E g : Equation(g)
  <2> DEFINE F == [n \in 1 .. N |-> [t \in Seq(Y) |-> Add(n, t)]]
             Q == (0 .. N) \X Seq(Y)
  <2>1. ASSUME NEW n \in 1 .. N, NEW t \in Seq(Y)
        PROVE  F[n][t] = Add(n, t) /\ Add(n, t) \in Seq(Y) /\ <<n, Add(n, t)>> \in Q
    <3> HIDE DEF Add, Y
    <3> QED BY <1>2
  <2>2. <<>> \in Seq(Y) /\ <<0, <<>>>> \in Q
    <3> HIDE DEF Y
    <3>1. PICK e \in Seq(Y) : e = <<>>
      BY EmptySeq
    <3>2. 0 \in 0 .. N
      OBVIOUS
    <3>3. <<0, e>> \in Q
      BY <3>2
    <3> QED BY <3>1, <3>3
  <2>3. PICK g : Passes(g, N, Q, Seq(Y), <<>>, F)
    <3> HIDE DEF F, Q, Add, Y
    <3>1. Leads(N, Q, Seq(Y), F)
      BY <2>1 DEF Leads
    <3> QED BY <2>2, <3>1, Passing
  <2>4. ASSUME NEW n \in 0 .. N, n # 0 PROVE F[n][g[n - 1]] = Add(n, g[n - 1])
    <3>1. n \in 1 .. N /\ n - 1 \in 0 .. N
      BY <2>4
    <3>2. g[n - 1] \in Seq(Y)
      <4> HIDE DEF F, Q, Y
      <4> QED BY <2>3, <3>1 DEF Passes
    <3> HIDE DEF F, Q, Add, Y
    <3> QED BY <2>1, <3>1, <3>2
  <2>5. g = [n \in 0 .. N |-> IF n = 0 THEN <<>> ELSE Add(n, g[n - 1])]
    <3> HIDE DEF F, Q, Add, Y
    <3> QED BY <2>3, <2>4 DEF Passes
  <2>6. Equation(g)
    BY <2>5
  <2> HIDE DEF Equation
  <2> QED BY <2>6
<1>4. PICK w : w = CHOOSE g : Equation(g)
  OBVIOUS
<1>5. Equation(w)
  <2> HIDE DEF Equation
  <2> QED BY <1>3, <1>4
<1>6. DiscardAll(r) = w[N]
  BY <1>1, <1>4, Zenon DEF DiscardAll
<1> DEFINE Right == {n \in 0 .. N : w[n] \in Seq(Y)}
<1>7. w[0] = <<>> /\ 0 \in Right
  BY <1>5
<1>11. ASSUME NEW n \in 1 .. N PROVE w[n] = Add(n, w[n - 1])
  <2>1. n \in 0 .. N /\ n # 0
    OBVIOUS
  <2>2. w[n] = IF n = 0 THEN <<>>
               ELSE IF n \in PerVoice(r) THEN Append(w[n - 1], Discard(n)) ELSE w[n - 1]
    BY <1>5, <2>1
  <2> QED BY <2>1, <2>2, Zenon
<1>8. ASSUME NEW n \in 1 .. N, n - 1 \in Right PROVE n \in Right
  <2>1. w[n] = Add(n, w[n - 1])
    BY <1>11
  <2> HIDE DEF Equation, Add, Y
  <2> QED BY <1>2, <1>8, <2>1
<1>9. \A n \in 0 .. N : n \in Right
  <2> HIDE DEF Right
  <2> QED BY <1>7, <1>8, Upward
<1>10. \A n \in 0 .. N : w[n] \in Seq(Y)
  BY <1>9
<1>12. \A n \in 1 .. N : w[n] = IF n \in PerVoice(r) THEN Append(w[n - 1], Discard(n)) ELSE w[n - 1]
  BY <1>11
<1> HIDE DEF Equation
<1> QED BY <1>1, <1>6, <1>7, <1>10, <1>12 DEF DiscardsOf

LEMMA AllDiscarded ==
  ASSUME Len(patch.sources) \in Nat, NEW r
  PROVE  DiscardAll(r) \in Seq(DiscardsOf(r))
BY DiscardsSoFar

(* Instructions that play nothing, and run sources of S only.              *)
Quiet(y, S) == y[1] # "play" /\ (y[1] \in {"run", "discard"} => y[2] \in S)
IsQuiet(t, S) == \E Y : t \in Seq(Y) /\ \A y \in Y : Quiet(y, S)
Silent(s, S) == \E X : s \in Seq(X) /\ \A f \in X : DOMAIN f = Fields /\ IsQuiet(f.todo, S)

LEMMA QuietJoined ==
  ASSUME NEW S, NEW t, IsQuiet(t, S), NEW u, IsQuiet(u, S)
  PROVE  IsQuiet(t \o u, S)
<1>1. PICK X : t \in Seq(X) /\ \A y \in X : Quiet(y, S)
  BY DEF IsQuiet
<1>2. PICK Y : u \in Seq(Y) /\ \A y \in Y : Quiet(y, S)
  BY DEF IsQuiet
<1>3. t \in Seq(X \union Y) /\ u \in Seq(X \union Y)
  BY <1>1, <1>2
<1>4. t \o u \in Seq(X \union Y)
  BY <1>3
<1> QED BY <1>1, <1>2, <1>4 DEF IsQuiet

LEMMA QuietEmpty == \A S : IsQuiet(<<>>, S)
<1> SUFFICES ASSUME NEW S PROVE IsQuiet(<<>>, S)
  OBVIOUS
<1>1. PICK t \in Seq({}) : t = <<>>
  BY EmptySeq
<1>2. IsQuiet(t, S)
  BY DEF IsQuiet
<1> QED BY <1>1, <1>2

LEMMA QuietOne ==
  ASSUME NEW S, NEW y, Quiet(y, S)
  PROVE  IsQuiet(<<y>>, S)
<1>1. PICK t : t = <<y>>
  OBVIOUS
<1>2. t \in Seq({y})
  BY <1>1
<1>3. IsQuiet(t, S)
  BY <1>2 DEF IsQuiet
<1> QED BY <1>1, <1>3

LEMMA QuietTail ==
  ASSUME NEW S, NEW t, IsQuiet(t, S), t # <<>>
  PROVE  IsQuiet(Tail(t), S) /\ Quiet(Head(t), S)
<1>1. PICK Y : t \in Seq(Y) /\ \A y \in Y : Quiet(y, S)
  BY DEF IsQuiet
<1>2. Tail(t) \in Seq(Y) /\ Head(t) \in Y
  BY <1>1
<1> QED BY <1>1, <1>2 DEF IsQuiet

LEMMA Instructions ==
  ASSUME NEW S
  PROVE  /\ \A p : Quiet(Take(p), S) /\ Quiet(Give(p), S)
         /\ \A k : Quiet(Scratch(k), S)
         /\ \A t : Quiet(Ask(t), S)
         /\ \A s \in S : Quiet(Run(s), S) /\ Quiet(Discard(s), S)
         /\ Quiet(Clock, S) /\ Quiet(Mono, S) /\ Quiet(Index, S)
         /\ \A r, name : Quiet(Target(r, name), S)
BY DEF Quiet, Take, Give, Scratch, Ask, Run, Discard, Clock, Mono, Index, Target

LEMMA SilentPushed ==
  ASSUME NEW S, NEW s, Silent(s, S), NEW f, DOMAIN f = Fields, IsQuiet(f.todo, S)
  PROVE  Silent(<<f>> \o s, S)
<1>1. PICK X : s \in Seq(X) /\ \A g \in X : DOMAIN g = Fields /\ IsQuiet(g.todo, S)
  BY DEF Silent
<1>2. <<f>> \o s \in Seq(X \union {f})
  BY <1>1
<1> QED BY <1>1, <1>2 DEF Silent

LEMMA SilentPopped ==
  ASSUME NEW S, NEW s, Silent(s, S), s # <<>>
  PROVE  Silent(Tail(s), S) /\ DOMAIN Head(s) = Fields /\ IsQuiet(Head(s).todo, S)
<1>1. PICK X : s \in Seq(X) /\ \A g \in X : DOMAIN g = Fields /\ IsQuiet(g.todo, S)
  BY DEF Silent
<1>2. Tail(s) \in Seq(X) /\ Head(s) \in X
  BY <1>1
<1> QED BY <1>1, <1>2 DEF Silent

LEMMA OscillationQuiet ==
  ASSUME NEW S, NEW s, patch.sources[s].subs \in Nat
  PROVE  IsQuiet(Oscillation(s), S)
<1> DEFINE lfo == patch.sources[s]
           target(n) == <<lfo.region, n, lfo.number>>
           scratch == IF target("beats") \in Targets THEN <<Scratch(1)>> ELSE <<>>
           beat == IF ~(playing /\ lfo.beats) THEN <<>> ELSE scratch \o <<Clock>>
           asks == <<Ask(target("beats")), Ask(target("frequency")), Ask(target("phase"))>>
           sub == asks \o beat
           subs == [i \in 1 .. lfo.subs |-> sub]
<1>1. IsQuiet(<<Scratch(1)>>, S) /\ IsQuiet(<<Clock>>, S) /\ IsQuiet(<<Take("mono")>>, S)
  BY Instructions, QuietOne
<1>2. IsQuiet(scratch, S)
  BY <1>1, QuietEmpty
<1>3. IsQuiet(beat, S)
  <2>1. IsQuiet(scratch \o <<Clock>>, S)
    BY <1>1, <1>2, QuietJoined
  <2> QED BY <2>1, QuietEmpty
<1>4. IsQuiet(asks, S)
  <2>1. PICK a, b, c : a = Ask(target("beats")) /\ b = Ask(target("frequency")) /\ c = Ask(target("phase"))
    OBVIOUS
  <2>2. Quiet(a, S) /\ Quiet(b, S) /\ Quiet(c, S)
    BY <2>1, Instructions
  <2>3. PICK t : t = <<a, b, c>>
    OBVIOUS
  <2>4. t \in Seq({a, b, c})
    BY <2>3
  <2>5. IsQuiet(t, S)
    BY <2>2, <2>4 DEF IsQuiet
  <2> QED BY <2>1, <2>3, <2>5
<1> HIDE DEF asks, beat
<1>5. IsQuiet(sub, S)
  BY <1>3, <1>4, QuietJoined
<1>6. IsQuiet(FlattenSeq(subs), S)
  <2>1. PICK Y : sub \in Seq(Y) /\ \A y \in Y : Quiet(y, S)
    BY <1>5 DEF IsQuiet
  <2>2. PICK N \in Nat : N = lfo.subs
    OBVIOUS
  <2>3. subs \in Seq(Seq(Y))
    <3> HIDE DEF sub
    <3> QED BY <2>1, <2>2
  <2>4. FlattenSeq(subs) \in Seq(Y)
    <3> HIDE DEF subs
    <3> QED BY <2>3, Flattened
  <2> QED BY <2>1, <2>4 DEF IsQuiet
<1>7. Oscillation(s) = <<Take("mono")>> \o FlattenSeq(subs)
  BY DEF Oscillation, asks, beat
<1> HIDE DEF subs
<1> QED BY <1>1, <1>6, <1>7, QuietJoined

LEMMA GeneratorQuiet ==
  ASSUME patch \in Patches, NEW S, NEW s \in Sources
  PROVE  IsQuiet(Generator(s), S)
<1>1. patch.sources[s].subs \in Nat
  BY RenderAssumption DEF RenderAssumption, WellConnected, Sources
<1> QED BY <1>1, OscillationQuiet, QuietEmpty DEF Generator

LEMMA DiscardsQuiet ==
  ASSUME patch \in Patches, NEW r
  PROVE  DOMAIN Discards(r) = Fields /\ IsQuiet(Discards(r).todo, Sources)
<1>1. Len(patch.sources) \in Nat
  BY RenderAssumption DEF RenderAssumption
<1>2. DiscardAll(r) \in Seq(DiscardsOf(r))
  BY <1>1, AllDiscarded
<1>3. \A y \in DiscardsOf(r) : Quiet(y, Sources)
  BY Instructions DEF DiscardsOf, PerVoice
<1>4. IsQuiet(DiscardAll(r), Sources)
  BY <1>2, <1>3 DEF IsQuiet
<1>5. Discards(r).todo = DiscardAll(r)
  BY DEF Discards, Frame
<1>6. DOMAIN Discards(r) = Fields
  BY FrameFields DEF Discards
<1> QED BY <1>4, <1>5, <1>6

LEMMA QuietTwo ==
  ASSUME NEW S, NEW a, NEW b, Quiet(a, S), Quiet(b, S)
  PROVE  IsQuiet(<<a, b>>, S)
<1>1. PICK t : t = <<a, b>>
  OBVIOUS
<1>2. t \in Seq({a, b})
  BY <1>1
<1>3. IsQuiet(t, S)
  BY <1>2 DEF IsQuiet
<1> QED BY <1>1, <1>3

LEMMA QuietFour ==
  ASSUME NEW S, NEW a, NEW b, NEW c, NEW d, Quiet(a, S), Quiet(b, S), Quiet(c, S), Quiet(d, S)
  PROVE  IsQuiet(<<a, b, c, d>>, S)
<1>1. PICK t : t = <<a, b, c, d>>
  OBVIOUS
<1>2. t \in Seq({a, b, c, d})
  BY <1>1
<1>3. IsQuiet(t, S)
  BY <1>2 DEF IsQuiet
<1> QED BY <1>1, <1>3

LEMMA QuietFive ==
  ASSUME NEW S, NEW a, NEW b, NEW c, NEW d, NEW e,
         Quiet(a, S), Quiet(b, S), Quiet(c, S), Quiet(d, S), Quiet(e, S)
  PROVE  IsQuiet(<<a, b, c, d, e>>, S)
<1>1. PICK t : t = <<a, b, c, d, e>>
  OBVIOUS
<1>2. t \in Seq({a, b, c, d, e})
  BY <1>1
<1>3. IsQuiet(t, S)
  BY <1>2 DEF IsQuiet
<1> QED BY <1>1, <1>3

LEMMA QuietSix ==
  ASSUME NEW S, NEW a, NEW b, NEW c, NEW d, NEW e, NEW f,
         Quiet(a, S), Quiet(b, S), Quiet(c, S), Quiet(d, S), Quiet(e, S), Quiet(f, S)
  PROVE  IsQuiet(<<a, b, c, d, e, f>>, S)
<1>1. PICK t : t = <<a, b, c, d, e, f>>
  OBVIOUS
<1>2. t \in Seq({a, b, c, d, e, f})
  BY <1>1
<1>3. IsQuiet(t, S)
  BY <1>2 DEF IsQuiet
<1> QED BY <1>1, <1>3

LEMMA StagesQuiet ==
  ASSUME NEW S, NEW r
  PROVE  /\ IsQuiet(AmpStage(r), S) /\ IsQuiet(PanStage(r), S)
         /\ \A i : IsQuiet(FilterStage(r, i), S) /\ IsQuiet(EqualizerStage(r, i), S)
<1>1. IsQuiet(AmpStage(r), S)
  BY Instructions, QuietFive DEF AmpStage
<1>2. IsQuiet(PanStage(r), S)
  <2>1. PICK more : more = IF Region(r).stereo THEN <<Target(r, "width"), Target(r, "position")>> ELSE <<>>
    OBVIOUS
  <2>2. IsQuiet(more, S)
    BY <2>1, Instructions, QuietTwo, QuietEmpty
  <2>3. IsQuiet(<<Mono, Target(r, "pan")>>, S)
    BY Instructions, QuietTwo
  <2>4. PanStage(r) = <<Mono, Target(r, "pan")>> \o more
    BY <2>1 DEF PanStage
  <2> QED BY <2>2, <2>3, <2>4, QuietJoined
<1>3. ASSUME NEW i PROVE IsQuiet(FilterStage(r, i), S)
  BY Instructions, QuietSix DEF FilterStage
<1>4. ASSUME NEW i PROVE IsQuiet(EqualizerStage(r, i), S)
  BY Instructions, QuietSix DEF EqualizerStage
<1> QED BY <1>1, <1>2, <1>3, <1>4

LEMMA GeneratorStageQuiet ==
  ASSUME NEW S, NEW r, Region(r).kind \in {"noise", "single", "unison", "modulated"}
  PROVE  IsQuiet(FillWithGenerator(r), S)
<1> DEFINE oscillator ==
             [single |-> <<Mono>>,
              unison |-> <<Mono, Mono, Mono, Target(r, "detune")>>,
              modulated |-> <<Mono, Mono, Target(r, "detune"), Target(r, "modDepth")>>]
           front == <<Mono>> \o PitchEnvelope(r) \o <<Mono>>
<1>1. CASE Region(r).kind = "noise"
  <2>1. FillWithGenerator(r) = <<>>
    BY <1>1 DEF FillWithGenerator
  <2> QED BY <2>1, QuietEmpty
<1>2. CASE Region(r).kind # "noise"
  <2>1. FillWithGenerator(r) = front \o oscillator[Region(r).kind]
    BY <1>2, Zenon DEF FillWithGenerator
  <2>2. IsQuiet(<<Mono>>, S) /\ IsQuiet(<<Target(r, "pitch")>>, S) /\ IsQuiet(<<Scratch(1)>>, S)
    BY Instructions, QuietOne
  <2>3. IsQuiet(PitchEnvelope(r), S)
    <3>1. PICK t : t = IF Region(r).notePitch THEN <<Scratch(1)>> ELSE <<>>
      OBVIOUS
    <3>2. IsQuiet(t, S)
      BY <2>2, <3>1, QuietEmpty
    <3>3. PitchEnvelope(r) = t \o <<Target(r, "pitch")>>
      BY <3>1 DEF PitchEnvelope
    <3> QED BY <2>2, <3>2, <3>3, QuietJoined
  <2>4. IsQuiet(front, S)
    BY <2>2, <2>3, QuietJoined
  <2>5. IsQuiet(oscillator[Region(r).kind], S)
    <3>1. IsQuiet(<<Mono, Mono, Mono, Target(r, "detune")>>, S)
      BY Instructions, QuietFour
    <3>2. IsQuiet(<<Mono, Mono, Target(r, "detune"), Target(r, "modDepth")>>, S)
      BY Instructions, QuietFour
    <3>3. oscillator[Region(r).kind] \in
            {<<Mono>>, <<Mono, Mono, Mono, Target(r, "detune")>>,
             <<Mono, Mono, Target(r, "detune"), Target(r, "modDepth")>>}
      BY <1>2
    <3> HIDE DEF oscillator
    <3> QED BY <2>2, <3>1, <3>2, <3>3
  <2> HIDE DEF front, oscillator
  <2> QED BY <2>1, <2>4, <2>5, QuietJoined
<1> QED BY <1>1, <1>2

LEMMA StagesSilent ==
  ASSUME patch \in Patches, NEW v, voice[v].region \in DOMAIN patch.regions,
         voice[v].delay \in Int, frames \in Int,
         ~(Region(voice[v].region).kind = "sample" /\ voice[v].delay < frames)
  PROVE  Silent(Stages(v), Sources)
<1> DEFINE r == voice[v].region
           data == IF Region(r).kind = "sample"
                   THEN FillWithData(v, Most(frames - voice[v].delay, 0))
                   ELSE FillWithGenerator(r)
           filters == [i \in 1 .. Region(r).filters |-> FilterStage(r, i)]
                      \o [i \in 1 .. Region(r).equalizers |-> EqualizerStage(r, i)]
           rest == IF Region(r).stereo THEN <<PanStage(r)>> \o filters
                   ELSE filters \o <<PanStage(r)>>
           stages == <<data, AmpStage(r)>> \o rest
           framed == [i \in DOMAIN stages |-> Frame("stage", i, stages[i], {})]
           F == {framed[i] : i \in DOMAIN stages} \union {Discards(r)}
           X == {data, AmpStage(r), PanStage(r)}
                \union {FilterStage(r, i) : i \in 1 .. Region(r).filters}
                \union {EqualizerStage(r, i) : i \in 1 .. Region(r).equalizers}
<1>1. /\ Region(r).filters \in Nat /\ Region(r).equalizers \in Nat
      /\ Region(r).kind \in {"noise", "single", "unison", "modulated", "sample"}
  BY RenderAssumption DEF RenderAssumption, Region
<1>2. filters \in Seq(X)
  <2>1. PICK m \in Nat, n \in Nat : m = Region(r).filters /\ n = Region(r).equalizers
    BY <1>1
  <2>2. \A i \in 1 .. m : FilterStage(r, i) \in X
    BY <2>1, Zenon
  <2>3. \A i \in 1 .. n : EqualizerStage(r, i) \in X
    BY <2>1, Zenon
  <2> HIDE DEF X
  <2>4. [i \in 1 .. m |-> FilterStage(r, i)] \in Seq(X)
    BY <2>2
  <2>5. [i \in 1 .. n |-> EqualizerStage(r, i)] \in Seq(X)
    BY <2>3
  <2> QED BY <2>1, <2>4, <2>5
<1>3. stages \in Seq(X)
  <2>1. PanStage(r) \in X /\ data \in X /\ AmpStage(r) \in X
    OBVIOUS
  <2> HIDE DEF X, data, filters
  <2>2. <<PanStage(r)>> \o filters \in Seq(X) /\ filters \o <<PanStage(r)>> \in Seq(X)
    BY <1>2, <2>1
  <2>3. rest \in Seq(X)
    BY <2>2
  <2> HIDE DEF rest
  <2> QED BY <2>1, <2>3
<1>4. \A t \in X : IsQuiet(t, Sources)
  <2>1. IsQuiet(data, Sources)
    <3>1. CASE Region(r).kind = "sample"
      <4>1. Most(frames - voice[v].delay, 0) = 0
        BY <3>1 DEF Most
      <4>2. data = <<>>
        BY <3>1, <4>1, Zenon DEF FillWithData
      <4> HIDE DEF data
      <4> QED BY <4>2, QuietEmpty
    <3>2. CASE Region(r).kind # "sample"
      <4>1. data = FillWithGenerator(r)
        BY <3>2
      <4> HIDE DEF data
      <4> QED BY <1>1, <3>2, <4>1, GeneratorStageQuiet
    <3> QED BY <3>1, <3>2
  <2> HIDE DEF data
  <2> QED BY <2>1, StagesQuiet
<1>5. \A i \in DOMAIN stages : stages[i] \in X
  <2> HIDE DEF stages, X
  <2> QED BY <1>3
<1>6. /\ framed \in Seq(F)
      /\ <<Discards(r)>> \in Seq(F)
      /\ \A f \in F : DOMAIN f = Fields /\ IsQuiet(f.todo, Sources)
  <2> HIDE DEF stages, X
  <2>1. framed \in Seq(F)
    BY <1>3
  <2>2. ASSUME NEW i \in DOMAIN stages
        PROVE  DOMAIN framed[i] = Fields /\ IsQuiet(framed[i].todo, Sources)
    <3>1. framed[i] = Frame("stage", i, stages[i], {})
      OBVIOUS
    <3>2. framed[i].todo = stages[i]
      BY <3>1 DEF Frame
    <3> HIDE DEF framed
    <3> QED BY <1>4, <1>5, <3>1, <3>2, FrameFields
  <2>3. DOMAIN Discards(r) = Fields /\ IsQuiet(Discards(r).todo, Sources)
    BY DiscardsQuiet
  <2>4. <<Discards(r)>> \in Seq(F)
    <3> HIDE DEF framed
    <3> QED OBVIOUS
  <2> HIDE DEF framed
  <2> QED BY <2>1, <2>2, <2>3, <2>4
<1>7. framed \o <<Discards(r)>> \in Seq(F)
  <2> HIDE DEF framed, F
  <2> QED BY <1>6
<1>8. Stages(v) = framed \o <<Discards(r)>>
  BY DEF Stages
<1> QED BY <1>6, <1>7, <1>8, ZenonT(60) DEF Silent

-----------------------------------------------------------------------------
(* A voice that plays nothing goes on playing nothing.                     *)
LEMMA SilentReplaced ==
  ASSUME NEW S, Silent(work, S), work # <<>>, NEW f, DOMAIN f = Fields, IsQuiet(f.todo, S)
  PROVE  Silent(With(f), S)
BY SilentPopped, SilentPushed DEF With

LEMMA SilentOnward ==
  ASSUME NEW S, Silent(work, S), NEW what, Doing(what)
  PROVE  /\ work # <<>> /\ DOMAIN Top = Fields /\ DOMAIN Onward = Fields
         /\ IsQuiet(Onward.todo, S) /\ Quiet(Head(Top.todo), S)
         /\ Silent(Resumed, S)
<1>1. work # <<>> /\ Top.todo # <<>>
  BY DEF Doing
<1>2. DOMAIN Top = Fields /\ IsQuiet(Top.todo, S)
  BY <1>1, SilentPopped DEF Top
<1>3. IsQuiet(Tail(Top.todo), S) /\ Quiet(Head(Top.todo), S)
  BY <1>1, <1>2, QuietTail
<1>4. DOMAIN Onward = Fields /\ Onward.todo = Tail(Top.todo)
  BY <1>2 DEF Onward, Fields
<1>5. Silent(Resumed, S)
  BY <1>1, <1>3, <1>4, SilentReplaced DEF Resumed
<1> QED BY <1>1, <1>2, <1>3, <1>4, <1>5

LEMMA SilentCalled ==
  ASSUME NEW S, Silent(work, S), NEW what, Doing(what), NEW f, DOMAIN f = Fields, IsQuiet(f.todo, S)
  PROVE  Silent(Calling(f), S)
BY SilentOnward, SilentPushed DEF Calling

LEMMA StaysSilent ==
  ASSUME patch \in Patches, Silent(work, Sources), MatrixStep
  PROVE  Silent(work', Sources)
<1>1. CASE TakeBuffer
  <2>1. Doing("take")
    BY <1>1 DEF TakeBuffer
  <2>2. /\ work # <<>> /\ DOMAIN Top = Fields /\ DOMAIN Onward = Fields
        /\ IsQuiet(Onward.todo, Sources)
    BY <2>1, SilentOnward
  <2> DEFINE taken == [Onward EXCEPT !.held[Arg] = @ + 1]
             returning == [Top EXCEPT !.todo = <<>>]
  <2>3. /\ DOMAIN taken = Fields /\ taken.todo = Onward.todo
        /\ DOMAIN returning = Fields /\ returning.todo = <<>>
    BY <2>2 DEF Fields
  <2>4. work' = With(taken) \/ work' = With(returning)
    BY <1>1 DEF TakeBuffer
  <2> HIDE DEF taken, returning
  <2>5. Silent(With(taken), Sources)
    BY <2>2, <2>3, SilentReplaced
  <2>6. Silent(With(returning), Sources)
    BY <2>2, <2>3, SilentReplaced, QuietEmpty
  <2> QED BY <2>4, <2>5, <2>6
<1>2. CASE GiveBuffer
  <2>1. Doing("give")
    BY <1>2 DEF GiveBuffer
  <2>2. work # <<>> /\ DOMAIN Onward = Fields /\ IsQuiet(Onward.todo, Sources)
    BY <2>1, SilentOnward
  <2> DEFINE given == [Onward EXCEPT !.held[Arg] = @ - 1]
  <2>3. DOMAIN given = Fields /\ given.todo = Onward.todo
    BY <2>2 DEF Fields
  <2>4. work' = With(given)
    BY <1>2 DEF GiveBuffer
  <2> HIDE DEF given
  <2> QED BY <2>2, <2>3, <2>4, SilentReplaced
<1>3. CASE UseScratch
  BY <1>3, SilentOnward DEF UseScratch
<1>4. CASE GetModulation
  <2> DEFINE callee == Frame("target", Arg, <<>>, patch.feeds[Arg])
  <2>1. Doing("ask")
    BY <1>4 DEF GetModulation
  <2>2. work' = Resumed \/ work' = Calling(callee)
    BY <1>4 DEF GetModulation
  <2>3. DOMAIN callee = Fields /\ callee.todo = <<>>
    BY FrameFields DEF Frame
  <2> HIDE DEF callee
  <2>4. Silent(Calling(callee), Sources)
    BY <2>1, <2>3, SilentCalled, QuietEmpty
  <2> QED BY <2>1, <2>2, <2>4, SilentOnward
<1>5. CASE AddSource
  <2>1. work # <<>> /\ DOMAIN Top = Fields
    BY <1>5, SilentPopped DEF AddSource, Top
  <2>2. PICK c \in Top.left :
          work' = With([Top EXCEPT !.left = @ \ {c},
                          !.todo = IF c.source \in PerCycle \union PerVoice(currentRegion)
                                   THEN <<Run(c.source), Ask(c.depth)>> ELSE <<>>])
    BY <1>5 DEF AddSource
  <2>3. PICK todo : todo = IF c.source \in PerCycle \union PerVoice(currentRegion)
                           THEN <<Run(c.source), Ask(c.depth)>> ELSE <<>>
    OBVIOUS
  <2>4. IsQuiet(todo, Sources)
    <3>1. CASE c.source \in PerCycle \union PerVoice(currentRegion)
      <4>1. c.source \in Sources
        BY <3>1 DEF PerCycle, PerVoice
      <4>2. IsQuiet(<<Run(c.source), Ask(c.depth)>>, Sources)
        BY <4>1, Instructions, QuietTwo
      <4> QED BY <2>3, <3>1, <4>2
    <3>2. CASE c.source \notin PerCycle \union PerVoice(currentRegion)
      BY <2>3, <3>2, QuietEmpty
    <3> QED BY <3>1, <3>2
  <2>5. PICK added : added = [Top EXCEPT !.left = @ \ {c}, !.todo = todo]
    OBVIOUS
  <2>6. DOMAIN added = Fields /\ added.todo = todo
    BY <2>1, <2>5 DEF Fields
  <2>7. work' = With(added)
    BY <2>2, <2>3, <2>5
  <2> QED BY <2>1, <2>4, <2>6, <2>7, SilentReplaced
<1>6. ASSUME NEW what \in {"run", "discard"}, Generate(what) PROVE Silent(work', Sources)
  <2>1. Doing(what) /\ (work' = Resumed \/ work' = Calling(Frame(what, Arg, Generator(Arg), {})))
    BY <1>6 DEF Generate
  <2>2. Arg \in Sources
    <3>1. Quiet(Head(Top.todo), Sources) /\ Head(Top.todo)[1] = what
      BY <2>1, SilentOnward DEF Doing
    <3> QED BY <3>1 DEF Quiet, Arg
  <2>3. PICK f : f = Frame(what, Arg, Generator(Arg), {})
    OBVIOUS
  <2>4. DOMAIN f = Fields /\ f.todo = Generator(Arg)
    BY <2>3, FrameFields DEF Frame
  <2>5. Silent(Calling(f), Sources)
    BY <2>1, <2>2, <2>4, GeneratorQuiet, SilentCalled
  <2> QED BY <2>1, <2>3, <2>5, SilentOnward
<1>7. CASE Return
  BY <1>7, SilentPopped DEF Return
<1> QED BY <1>1, <1>2, <1>3, <1>4, <1>5, <1>6, <1>7 DEF MatrixStep

-----------------------------------------------------------------------------
(* The places of the voices.                                               *)
LEMMA StandsLater ==
  ASSUME NEW s, Plausible(s), NEW p, NEW released \in BOOLEAN, NEW later \in BOOLEAN,
         Stands(s, p, released), released => later
  PROVE  Stands(s, p, later)
<1>1. ShouldLoop(s, p, later) => ShouldLoop(s, p, released)
  BY LoopOrNot
<1> QED BY <1>1 DEF Stands, AtEnd, InLoop

LEMMA StartedStands ==
  ASSUME NEW s, Plausible(s), NEW delay \in Int, NEW released \in BOOLEAN
  PROVE  Stands(s, Started(s, delay), released)
<1>1. PICK q : q = Started(s, delay)
  OBVIOUS
<1>2. s.offset \in Int /\ s.offset * Grain \in Int
  BY SampleFields, PlaybackAssumption DEF PlaybackAssumption
<1>3. /\ q.position = s.offset /\ q.part = 0 /\ q.restarts = 0 /\ q.count = 1
      /\ q.travel = s.offset * Grain
  BY <1>1 DEF Started
<1>4. q \in PlaceType
  BY <1>1, <1>2, PlaybackAssumption DEF Started, PlaceType, PlaybackAssumption
<1>5. Behind(s, q) = 0
  <2>1. PICK x \in Int, y \in Int : x = LoopSize(s) /\ y = SampleSize(s)
    BY SampleFields
  <2>2. 0 * x + (1 - 1) * y = 0
    OBVIOUS
  <2> QED BY <1>3, <2>1, <2>2 DEF Behind
<1>6. Exact(s, q)
  BY <1>2, <1>3, <1>5, PlaybackAssumption DEF Exact, PlaceOf, PlaybackAssumption
<1>7. InLoop(s, q, released)
  BY <1>3 DEF InLoop
<1> QED BY <1>1, <1>4, <1>6, <1>7 DEF Stands

LEMMA AgedStands ==
  ASSUME NEW s, NEW p, NEW n \in Int, NEW released, Stands(s, p, released)
  PROVE  Stands(s, Aged(p, n), released) /\ Aged(p, n).ended = p.ended
<1>1. PICK q : q = Aged(p, n)
  OBVIOUS
<1>2. p \in PlaceType
  BY DEF Stands
<1>3. /\ q.position = p.position /\ q.part = p.part /\ q.restarts = p.restarts
      /\ q.count = p.count /\ q.ended = p.ended /\ q.travel = p.travel /\ q.played = p.played
      /\ q = [position |-> q.position, part |-> q.part, age |-> q.age, trigger |-> q.trigger,
              restarts |-> q.restarts, count |-> q.count, ended |-> q.ended,
              travel |-> q.travel, played |-> q.played]
  BY <1>1, <1>2 DEF Aged, PlaceType
<1>4. q.age \in Int /\ q.trigger \in Int
  BY <1>1, <1>2 DEF Aged, PlaceType, Least
<1>5. q \in PlaceType
  BY <1>2, <1>3, <1>4 DEF PlaceType
<1>6. PlaceOf(s, q) = PlaceOf(s, p)
  BY <1>3 DEF PlaceOf, Behind
<1>7. ShouldLoop(s, q, released) <=> ShouldLoop(s, p, released)
  BY <1>3 DEF ShouldLoop
<1> QED BY <1>1, <1>3, <1>5, <1>6, <1>7 DEF Stands, Exact, AtEnd, InLoop

IsSampler(v) == voice[v].region \in DOMAIN patch.regions /\ Region(voice[v].region).kind = "sample"
WellPlaced(v) == Stands(Region(voice[v].region).sample, voice[v].play, Released(v))
Ready == IsSampler(currentVoice) /\ voice[currentVoice].delay < frames

(* Every sampler stands where it should; and a voice whose sample does not *)
(* begin within the block does not play it.                                *)
PlacesOK ==
  /\ frames \in Nat
  /\ \A v \in Voice : voice[v].delay \in Int /\ voice[v].released \in BOOLEAN
  /\ \A v \in Voice : IsSampler(v) => WellPlaced(v)
  /\ currentVoice # Nobody => currentRegion = voice[currentVoice].region
  /\ currentVoice # Nobody /\ ~Ready => Silent(work, Sources)
PInv == IInv /\ PlacesOK

LEMMA SamplerPlausible ==
  ASSUME patch \in Patches, NEW r \in DOMAIN patch.regions
  PROVE  /\ Region(r).kind = "sample" => Plausible(Region(r).sample)
         /\ Region(r).delay \in Nat /\ r # Nobody
BY RenderAssumption DEF RenderAssumption, Region

LEMMA EndedIsBoolean ==
  ASSUME NEW s, NEW p, NEW released, Stands(s, p, released)
  PROVE  p.ended \in BOOLEAN
BY DEF Stands, PlaceType

LEMMA PlacesFollow == PInv => FramesFollow
<1> SUFFICES ASSUME PInv, NEW v \in Busy, Region(voice[v].region).kind = "sample"
             PROVE  LET sample == Region(voice[v].region).sample
                        p == voice[v].play
                        behind == p.restarts * (sample.loopEnd - sample.start + 1)
                                  + (p.count - 1) * (sample.end - 1 - sample.offset)
                        place == p.travel - behind * Grain
                        last == Least(sample.end, sample.frames) - 1
                    IN /\ IF p.position = last THEN place >= last * Grain
                          ELSE place = p.position * Grain + p.part
                       /\ p.restarts > 0 /\ ShouldLoop(sample, p, Released(v)) =>
                            p.position \in sample.start .. sample.loopEnd
  BY DEF FramesFollow
<1>1. v \in Voice /\ voice[v].region \in DOMAIN patch.regions /\ patch \in Patches
  BY DEF PInv, IInv, VoicesOK, Busy
<1>2. PICK s, p : s = Region(voice[v].region).sample /\ p = voice[v].play
  OBVIOUS
<1>3. Plausible(s)
  BY <1>1, <1>2, SamplerPlausible
<1>4. Stands(s, p, Released(v))
  BY <1>1, <1>2 DEF PInv, PlacesOK, IsSampler, WellPlaced
<1>5. LoopSize(s) = s.loopEnd - s.start + 1 /\ SampleSize(s) = s.end - 1 - s.offset
  BY <1>3, SampleFields DEF LoopSize, SampleSize
<1>6. PlaceOf(s, p) = p.travel - (p.restarts * (s.loopEnd - s.start + 1)
                                  + (p.count - 1) * (s.end - 1 - s.offset)) * Grain
  BY <1>5 DEF PlaceOf, Behind
<1>7. PICK last \in Int : last = LastFrame(s)
  BY <1>3, SampleFields
<1>8. PICK G \in Nat \ {0} : G = Grain
  BY PlaybackAssumption DEF PlaybackAssumption
<1>9. p.position \in Int /\ p.part \in 0 .. G - 1 /\ p.position * G \in Int /\ last * G \in Int
  BY <1>4, <1>8 DEF Stands, PlaceType
<1>10. IF p.position = last THEN PlaceOf(s, p) >= last * G
       ELSE PlaceOf(s, p) = p.position * G + p.part
  <2>1. CASE Exact(s, p)
    BY <1>8, <1>9, <2>1 DEF Exact
  <2>2. CASE AtEnd(s, p, Released(v))
    <3>1. p.position = last /\ last * G <= PlaceOf(s, p)
      BY <1>7, <1>8, <2>2 DEF AtEnd
    <3>2. PlaceOf(s, p) \in Int
      <4>1. p \in PlaceType
        BY <1>4 DEF Stands
      <4>2. p.restarts = p.restarts + 0 /\ p.count = p.count + 0 /\ p.travel = p.travel + 0
        BY <4>1 DEF PlaceType
      <4> QED BY <1>3, <4>1, <4>2, PlaceMoves
    <3> QED BY <1>9, <3>1, <3>2
  <2> QED BY <1>4, <2>1, <2>2 DEF Stands
<1>11. p.restarts > 0 /\ ShouldLoop(s, p, Released(v)) => p.position \in s.start .. s.loopEnd
  BY <1>3, <1>4, <1>9, SampleFields DEF Stands, InLoop
<1>12. last = Least(s.end, s.frames) - 1
  BY <1>7 DEF LastFrame
<1> QED BY <1>2, <1>6, <1>8, <1>10, <1>11, <1>12, Zenon

LEMMA PlacesStart == Init => PlacesOK
<1> SUFFICES ASSUME Init PROVE PlacesOK
  OBVIOUS
<1>1. patch \in Patches /\ currentVoice = Nobody /\ frames = 0
  BY DEF Init, MatrixInit, ClockInit
<1>2. \A v \in Voice : voice[v].delay = 0 /\ voice[v].released = FALSE /\ voice[v].region = Nobody
  BY DEF Init, Idle
<1>3. \A v \in Voice : ~IsSampler(v)
  BY <1>1, <1>2, SamplerPlausible DEF IsSampler
<1>4. \A v \in Voice : voice[v].delay \in Int /\ voice[v].released \in BOOLEAN
  <2>1. \A v \in Voice : voice[v].delay \in Int
    BY <1>2
  <2>2. \A v \in Voice : voice[v].released \in BOOLEAN
    BY <1>2, Zenon
  <2> QED BY <2>1, <2>2
<1>5. frames \in Nat
  BY <1>1
<1> QED BY <1>1, <1>3, <1>4, <1>5 DEF PlacesOK

(* Steps between the voices' turns, that leave the voices where they are.  *)
LEMMA PlacesStay ==
  ASSUME PlacesOK, currentVoice' = Nobody, frames' \in Nat, UNCHANGED <<patch, voice>>
  PROVE  PlacesOK'
<1>1. \A v : (IsSampler(v) <=> IsSampler(v)') /\ (WellPlaced(v) <=> WellPlaced(v)')
  BY DEF IsSampler, WellPlaced, Region, Released
<1> QED BY <1>1 DEF PlacesOK

(* Steps of one voice.                                                     *)
LEMMA PlacesChange ==
  ASSUME PInv, NEW v \in Voice, NEW new, voice' = [voice EXCEPT ![v] = new], frames' \in Nat,
         UNCHANGED patch, new.delay \in Int, new.released \in BOOLEAN,
         new.region \in DOMAIN patch.regions /\ Region(new.region).kind = "sample" =>
           Stands(Region(new.region).sample, new.play, new.released \/ new.play.ended),
         currentVoice' # Nobody =>
           /\ currentRegion' = voice'[currentVoice'].region
           /\ Ready' \/ Silent(work', Sources')
  PROVE  PlacesOK'
<1>1. DOMAIN voice = Voice
  BY DEF PInv, IInv, VoicesOK
<1>2. voice'[v] = new /\ \A w \in Voice : w # v => voice'[w] = voice[w]
  BY <1>1
<1>3. \A w \in Voice : voice'[w].delay \in Int /\ voice'[w].released \in BOOLEAN
  BY <1>2 DEF PInv, PlacesOK
<1>4. ASSUME NEW w \in Voice, IsSampler(w)' PROVE WellPlaced(w)'
  <2>1. CASE w = v
    BY <1>2, <1>4, <2>1 DEF IsSampler, WellPlaced, Region, Released
  <2>2. CASE w # v
    <3>1. IsSampler(w)
      BY <1>2, <1>4, <2>2 DEF IsSampler, Region
    <3>2. WellPlaced(w)
      BY <3>1 DEF PInv, PlacesOK
    <3> QED BY <1>2, <2>2, <3>2 DEF WellPlaced, Region, Released
  <2> QED BY <2>1, <2>2
<1> QED BY <1>3, <1>4 DEF PlacesOK

LEMMA SamplePlayed == ASSUME PInv, PlaySample PROVE PlacesOK'
<1> DEFINE c == currentVoice
           place == Played(Region(currentRegion).sample, voice[c].play, frames - voice[c].delay,
                           Released(c))
<1>1. /\ Doing("play") /\ work # <<>> /\ work' = Resumed
      /\ voice' = [voice EXCEPT ![c].play = place]
      /\ UNCHANGED <<patch, currentVoice, currentRegion, frames>>
  BY DEF PlaySample, clock, Doing
<1>2. c \in Voice /\ c # Nobody /\ DOMAIN voice = Voice /\ DOMAIN voice[c] = DOMAIN Idle
  BY <1>1 DEF PInv, IInv, TurnOK, VoicesOK
<1>3. Ready
  <2>1. SUFFICES ASSUME Silent(work, Sources) PROVE FALSE
    BY <1>2 DEF PInv, PlacesOK
  <2>2. Quiet(Head(Top.todo), Sources) /\ Head(Top.todo)[1] = "play"
    BY <1>1, <2>1, SilentOnward DEF Doing
  <2> QED BY <2>2 DEF Quiet
<1>4. currentRegion = voice[c].region
  BY <1>2 DEF PInv, PlacesOK
<1>5. PICK s : s = Region(currentRegion).sample
  OBVIOUS
<1>6. Plausible(s)
  BY <1>3, <1>4, <1>5, SamplerPlausible DEF Ready, IsSampler, PInv, IInv, VoicesOK
<1>7. /\ Stands(s, voice[c].play, Released(c))
      /\ voice[c].released \in BOOLEAN /\ voice[c].delay \in Int /\ frames \in Nat
  BY <1>2, <1>3, <1>4, <1>5 DEF Ready, WellPlaced, PInv, PlacesOK
<1>8. Released(c) \in BOOLEAN /\ Released(c) = (voice[c].released \/ voice[c].play.ended)
  BY <1>7, EndedIsBoolean DEF Released
<1>9. PICK n \in Nat \ {0} : n = frames - voice[c].delay
  BY <1>3, <1>7 DEF Ready
<1>10. PICK later \in BOOLEAN : later = (voice[c].released \/ place.ended)
  OBVIOUS
<1>11. Released(c) => later
  <2>1. place.ended = (voice[c].play.ended \/
                       (~ShouldLoop(s, voice[c].play, Released(c))
                         /\ StraightPass(s, voice[c].play, n).over))
    <3>1. DOMAIN voice[c].play = {"position", "part", "age", "trigger", "restarts", "count",
                                  "ended", "travel", "played"}
      BY <1>7 DEF Stands, PlaceType
    <3>2. place = Played(s, voice[c].play, n, Released(c))
      BY <1>5, <1>9
    <3> HIDE DEF place
    <3> QED BY <3>1, <3>2 DEF Played
  <2> HIDE DEF place
  <2> QED BY <1>8, <1>10, <2>1
<1>12. Stands(s, place, later)
  <2>1. Stands(s, Played(s, voice[c].play, n, Released(c)), later)
    BY <1>6, <1>7, <1>8, <1>11, PlayedStands
  <2> QED BY <1>5, <1>9, <2>1
<1> HIDE DEF place
<1>13. PICK new : new = [voice[c] EXCEPT !.play = place]
  OBVIOUS
<1>14. /\ voice' = [voice EXCEPT ![c] = new]
       /\ new.delay = voice[c].delay /\ new.released = voice[c].released
       /\ new.region = voice[c].region /\ new.play = place
  BY <1>1, <1>2, <1>13 DEF Idle
<1>15. Ready'
  <2>1. voice'[c] = new
    BY <1>2, <1>14
  <2> QED BY <1>1, <1>3, <1>14, <2>1 DEF Ready, IsSampler, Region
<1>16. currentRegion' = voice'[currentVoice'].region
  BY <1>1, <1>2, <1>4, <1>14
<1>17. Stands(Region(new.region).sample, new.play, new.released \/ new.play.ended)
  BY <1>4, <1>5, <1>10, <1>12, <1>14
<1> QED BY <1>1, <1>2, <1>7, <1>14, <1>15, <1>16, <1>17, PlacesChange

LEMMA VoiceBegun == ASSUME PInv, BeginVoice PROVE PlacesOK'
<1> DEFINE v == First(waiting)
<1>1. /\ waiting # {} /\ waiting \subseteq Voice
      /\ currentVoice' = v /\ currentRegion' = voice[v].region /\ work' = Stages(v)
      /\ UNCHANGED <<patch, voice, frames>>
  BY DEF BeginVoice, BeginVoiceOfMatrix, clock, PInv, IInv, VoicesOK
<1>2. v \in waiting /\ v \in Voice
  BY <1>1, FirstIsOne
<1>3. /\ patch \in Patches /\ voice[v].region \in DOMAIN patch.regions
      /\ voice[v].delay \in Int /\ frames \in Nat
  BY <1>2 DEF PInv, IInv, VoicesOK, PlacesOK
<1>4. \A w : (IsSampler(w) <=> IsSampler(w)') /\ (WellPlaced(w) <=> WellPlaced(w)')
  BY <1>1 DEF IsSampler, WellPlaced, Region, Released
<1>5. Ready' <=> IsSampler(v) /\ voice[v].delay < frames
  BY <1>1 DEF Ready, IsSampler, Region
<1>6. ~Ready' => Silent(work', Sources')
  <2>1. Sources' = Sources
    BY <1>1 DEF Sources
  <2>2. SUFFICES ASSUME ~(IsSampler(v) /\ voice[v].delay < frames)
                 PROVE  Silent(Stages(v), Sources)
    BY <1>1, <1>5, <2>1
  <2> HIDE DEF v
  <2> QED BY <1>3, <2>2, StagesSilent DEF IsSampler
<1> HIDE DEF v
<1> QED BY <1>1, <1>3, <1>4, <1>6 DEF PInv, PlacesOK

LEMMA VoiceFinished == ASSUME PInv, VoiceDone PROVE PlacesOK'
<1> DEFINE c == currentVoice
<1>1. /\ c \in Voice /\ c # Nobody /\ currentVoice' = Nobody
      /\ UNCHANGED <<patch, frames>>
      /\ DOMAIN voice = Voice /\ DOMAIN voice[c] = DOMAIN Idle
  BY DEF VoiceDone, buffers, clock, PInv, IInv, TurnOK, VoicesOK
<1>2. PICK free :
        voice' = [voice EXCEPT ![c].busy = ~free, ![c].delay = Most(@ - frames, 0),
                               ![c].play = Aged(@, frames)]
  BY DEF VoiceDone
<1>3. PICK busy, delay, place :
        /\ busy = ~free /\ delay = Most(voice[c].delay - frames, 0)
        /\ place = Aged(voice[c].play, frames)
  OBVIOUS
<1>4. PICK new : new = [voice[c] EXCEPT !.busy = busy, !.delay = delay, !.play = place]
  OBVIOUS
<1>5. /\ voice' = [voice EXCEPT ![c] = new]
      /\ new.delay = Most(voice[c].delay - frames, 0) /\ new.released = voice[c].released
      /\ new.region = voice[c].region /\ new.play = Aged(voice[c].play, frames)
  <2>1. /\ DOMAIN voice' = Voice /\ \A v \in Voice : v # c => voice'[v] = voice[v]
        /\ voice'[c] = [voice[c] EXCEPT !.busy = busy, !.delay = delay, !.play = place]
    BY <1>1, <1>2, <1>3 DEF Idle
  <2>2. voice' = [voice EXCEPT ![c] = new]
    BY <1>1, <1>2, <1>4, <2>1
  <2>3. /\ new.delay = delay /\ new.released = voice[c].released
        /\ new.region = voice[c].region /\ new.play = place
    BY <1>1, <1>4 DEF Idle
  <2> QED BY <1>3, <2>2, <2>3
<1>6. frames \in Nat /\ voice[c].delay \in Int /\ voice[c].released \in BOOLEAN
  BY <1>1 DEF PInv, PlacesOK
<1>7. new.delay \in Int
  BY <1>5, <1>6 DEF Most
<1>8. ASSUME IsSampler(c)
      PROVE  Stands(Region(new.region).sample, new.play, new.released \/ new.play.ended)
  <2>1. Stands(Region(voice[c].region).sample, voice[c].play, Released(c))
    BY <1>1, <1>8 DEF PInv, PlacesOK, WellPlaced
  <2>2. /\ Stands(Region(voice[c].region).sample, Aged(voice[c].play, frames), Released(c))
        /\ Aged(voice[c].play, frames).ended = voice[c].play.ended
    BY <1>6, <2>1, AgedStands
  <2> QED BY <1>5, <2>2 DEF Released
<1>9. new.region \in DOMAIN patch.regions /\ Region(new.region).kind = "sample" => IsSampler(c)
  BY <1>5 DEF IsSampler
<1> HIDE DEF c
<1> QED BY <1>1, <1>5, <1>6, <1>7, <1>8, <1>9, PlacesChange

LEMMA PlacesStep == PInv /\ [Next]_vars => PlacesOK'
<1> SUFFICES ASSUME PInv, [Next]_vars PROVE PlacesOK'
  OBVIOUS
<1>1. ASSUME ~cycle PROVE currentVoice = Nobody
  BY <1>1 DEF PInv, IInv, TurnOK
<1>2. PlacesOK /\ patch \in Patches /\ frames \in Nat /\ DOMAIN voice = Voice
      /\ \A v \in Voice : DOMAIN voice[v] = DOMAIN Idle
  BY DEF PInv, IInv, VoicesOK, PlacesOK
<1>3. ASSUME NEW v \in Voice, ReleaseVoice(v) PROVE PlacesOK'
  <2>1. /\ currentVoice' = Nobody /\ UNCHANGED <<patch, frames>>
        /\ voice' = [voice EXCEPT ![v].released = TRUE]
    BY <1>1, <1>3 DEF ReleaseVoice, matrix, clock
  <2>2. PICK new : new = [voice[v] EXCEPT !.released = TRUE]
    OBVIOUS
  <2>3. /\ voice' = [voice EXCEPT ![v] = new] /\ new.delay = voice[v].delay
        /\ new.released = TRUE /\ new.region = voice[v].region /\ new.play = voice[v].play
    BY <1>2, <2>1, <2>2 DEF Idle
  <2>4. voice[v].delay \in Int /\ voice[v].released \in BOOLEAN
    BY <1>2 DEF PlacesOK
  <2>5. ASSUME new.region \in DOMAIN patch.regions, Region(new.region).kind = "sample"
        PROVE  Stands(Region(new.region).sample, new.play, new.released \/ new.play.ended)
    <3>1. PICK s, p : s = Region(voice[v].region).sample /\ p = voice[v].play
      OBVIOUS
    <3>2. Plausible(s) /\ Stands(s, p, Released(v))
      BY <1>2, <2>3, <2>5, <3>1, SamplerPlausible DEF PlacesOK, IsSampler, WellPlaced
    <3>3. PICK released \in BOOLEAN : released = Released(v)
      BY <2>4, <3>1, <3>2, EndedIsBoolean DEF Released
    <3>4. Stands(s, p, TRUE)
      BY <3>2, <3>3, StandsLater
    <3> QED BY <2>3, <3>1, <3>4
  <2> QED BY <1>2, <2>1, <2>3, <2>4, <2>5, PlacesChange
<1>4. ASSUME NEW v \in Voice, NEW r \in DOMAIN patch.regions, NEW delay \in patch.delays, NEW note,
             StartVoice(v, r, delay, note)
      PROVE  PlacesOK'
  <2> DEFINE new ==
        [busy |-> TRUE, region |-> r, note |-> note, released |-> FALSE,
         delay |-> delay + Region(r).delay, play |-> Started(Region(r).sample, delay)]
  <2>1. /\ currentVoice' = Nobody /\ UNCHANGED <<patch, frames>>
        /\ voice' = [voice EXCEPT ![v] = new]
    BY <1>1, <1>4 DEF StartVoice, matrix, clock
  <2>2. delay \in Nat
    BY <1>2, RenderAssumption DEF RenderAssumption
  <2>3. /\ Region(r).kind = "sample" => Plausible(Region(r).sample)
        /\ Region(r).delay \in Nat
    BY <1>2, SamplerPlausible
  <2>4. new.delay \in Int /\ new.released = FALSE /\ new.region = r
        /\ new.play = Started(Region(r).sample, delay)
    BY <2>2, <2>3
  <2>5. new.play.ended = FALSE
    BY <2>4 DEF Started
  <2> HIDE DEF new
  <2>6. ASSUME Region(new.region).kind = "sample"
        PROVE  Stands(Region(new.region).sample, new.play, new.released \/ new.play.ended)
    <3>1. Stands(Region(r).sample, Started(Region(r).sample, delay), FALSE)
      <4>1. PICK s, released : s = Region(r).sample /\ released = FALSE
        OBVIOUS
      <4>2. Plausible(s) /\ delay \in Int
        BY <2>2, <2>3, <2>4, <2>6, <4>1
      <4>3. released \in BOOLEAN
        BY <4>1, Zenon
      <4>4. Stands(s, Started(s, delay), released)
        BY <4>2, <4>3, StartedStands
      <4> QED BY <4>1, <4>4
    <3> QED BY <2>4, <2>5, <3>1
  <2> QED BY <1>2, <2>1, <2>4, <2>6, PlacesChange
<1>5. CASE HostMessage
  <2>1. ~cycle /\ UNCHANGED <<matrix, voice, frames>>
    BY <1>5 DEF HostMessage, TimePosition, SetTempo, SetTimeSignature, SetPlaying,
                SetTimePosition, Between
  <2> QED BY <1>1, <1>2, <2>1, PlacesStay DEF matrix
<1>6. ASSUME NEW n \in patch.sizes, BeginBlock(n) PROVE PlacesOK'
  <2>1. ~cycle /\ UNCHANGED <<patch, voice, currentVoice>> /\ frames' = n
    BY <1>6 DEF BeginBlock, BeginCycle
  <2>2. n \in Nat
    BY <1>2, RenderAssumption, ClockAssumption DEF RenderAssumption, ClockAssumption
  <2> QED BY <1>1, <1>2, <2>1, <2>2, PlacesStay
<1>7. CASE BeginVoice
  BY <1>7, VoiceBegun
<1>8. ASSUME UNCHANGED <<patch, voice, frames, currentVoice, currentRegion>>,
             Silent(work, Sources) => Silent(work', Sources)
      PROVE  PlacesOK'
  <2>1. \A w : (IsSampler(w) <=> IsSampler(w)') /\ (WellPlaced(w) <=> WellPlaced(w)')
    BY <1>8 DEF IsSampler, WellPlaced, Region, Released
  <2>2. (Ready <=> Ready') /\ Sources' = Sources
    BY <1>8 DEF Ready, IsSampler, Region, Sources
  <2> QED BY <1>2, <1>8, <2>1, <2>2 DEF PlacesOK
<1>9. CASE Stage
  <2>1. MatrixStep /\ UNCHANGED <<patch, voice, frames, currentVoice, currentRegion>>
    BY <1>9 DEF Stage, MatrixStep, TakeBuffer, GiveBuffer, UseScratch, GetModulation, AddSource,
                Generate, Return, clock
  <2> QED BY <1>2, <1>8, <2>1, StaysSilent, SMTT(40)
<1>10. CASE AskClock
  <2>1. /\ Doing("clock") /\ work' = Resumed
        /\ UNCHANGED <<patch, voice, frames, currentVoice, currentRegion>>
    BY <1>10 DEF AskClock, GetRunning
  <2> QED BY <1>8, <2>1, SilentOnward
<1>11. CASE PlaySample
  BY <1>11, SamplePlayed
<1>12. CASE VoiceDone
  BY <1>12, VoiceFinished
<1>13. CASE EndBlock
  <2>1. UNCHANGED <<patch, voice, frames, currentVoice>> /\ currentVoice = Nobody
    BY <1>13 DEF EndBlock, EndCycle
  <2> QED BY <1>2, <2>1, PlacesStay
<1>14. CASE UNCHANGED vars
  BY <1>8, <1>14 DEF vars, clock, matrix
<1>15. Over => UNCHANGED vars
  BY DEF Over
<1> QED BY <1>3, <1>4, <1>5, <1>6, <1>7, <1>9, <1>10, <1>11, <1>12, <1>13, <1>14, <1>15 DEF Next

(* Every voice stands where its steps have led it, for every sample, every *)
(* way to loop and to repeat it, and every size of a block.                *)
THEOREM FramesFollowed == Spec => []FramesFollow
<1>1. Init => PInv
  BY Start, PlacesStart DEF PInv
<1>2. PInv /\ [Next]_vars => PInv'
  BY Step, PlacesStep DEF PInv
<1> QED BY <1>1, <1>2, PlacesFollow, PTL DEF Spec

-----------------------------------------------------------------------------
(* What the functions on the call stack have left to do.                   *)
LowTargets == {t \in Targets : \A c \in patch.feeds[t] : ~IsOscillator(c.source)}
Own == PerCycle \union PerVoice(currentRegion)

Names ==
  {"pitch", "detune", "modDepth", "masterAmplitude", "amplitude", "volume", "pan", "width", "position",
   "cutoff", "resonance", "gain", "eqFrequency", "eqBandwidth", "eqGain"}
StageWords(r) ==
  {Mono, Index, Give("mono"), Scratch(1), Scratch(2), Play}
  \union {Ask(<<r, n, i>>) : n \in Names, i \in Nat}
OscillatorWords(s) ==
  LET lfo == patch.sources[s]
  IN {Take("mono"), Scratch(1), Clock}
     \union {Ask(<<lfo.region, n, lfo.number>>) : n \in {"beats", "frequency", "phase"}}
TargetWords(t) ==
  {Run(c.source) : c \in {d \in patch.feeds[t] : d.source \in Own}}
  \union {Ask(c.depth) : c \in patch.feeds[t]}

GoodStage(f) == f.of = "stage" /\ f.todo \in Seq(StageWords(currentRegion)) /\ f.left = {}
GoodTarget(f) ==
  /\ f.of = "target" /\ f.what \in Targets
  /\ f.todo \in Seq(TargetWords(f.what)) /\ f.left \subseteq patch.feeds[f.what]
IsGenerator(f) == f.of \in {"run", "discard"}
GoodGenerator(f) ==
  /\ IsGenerator(f) /\ f.what \in Own /\ f.left = {}
  /\ f.todo \in Seq(OscillatorWords(f.what))
  /\ ~IsOscillator(f.what) => f.todo = <<>>
Good(f) == GoodStage(f) \/ GoodTarget(f) \/ GoodGenerator(f)

(* Above a generator, and above the targets that it asks for, there are    *)
(* such targets and sources that ask nobody.                               *)
Outer(f) == IsGenerator(f) \/ (f.of = "target" /\ f.what \in LowTargets)
Inner(f) ==
  \/ f.of = "target" /\ f.what \in LowTargets
  \/ f.of = "run" /\ ~IsOscillator(f.what)

(* The frames of the stack from the bottom.                                *)
At(s, k) == s[Len(s) + 1 - k]
Height == Len(work)
Level(k) == At(work, k)

Nested ==
  \A j, k \in 2 .. Height :
    j < k => /\ IsGenerator(Level(j)) => IsOscillator(Level(j).what)
             /\ Outer(Level(j)) => Inner(Level(k))
             /\ Level(k).of # "discard"
Making == \A k \in 2 .. Height : IsGenerator(Level(k)) => Level(k).what \notin readySources

(* At the bottom of the stack is endVoice, with the generators it has      *)
(* still to come to.                                                       *)
Rising(t) == \A i, j \in DOMAIN t : i < j => t[i][2] < t[j][2]
Bottom ==
  Height > 0 =>
    /\ Level(1).of = "stage" /\ Level(1).left = {}
    /\ Level(1).todo \in Seq(DiscardsOf(currentRegion))
    /\ Rising(Level(1).todo)
Pending(s) == Height > 0 /\ \E i \in DOMAIN Level(1).todo : Level(1).todo[i] = Discard(s)
Discarded(s) == Height > 1 /\ Level(2).of = "discard" /\ Level(2).what = s
Waits(s) == Pending(s) \/ Discarded(s)

Ones(s) == IF s \in readySources THEN 1 ELSE 0
Counted ==
  currentVoice # Nobody =>
    \A s \in PerVoice(currentRegion) :
      IF Waits(s) THEN runs[s] = Ones(s) ELSE runs[s] = 1 \/ (runs[s] = 2 /\ AskedLate(s))
CountedCycle == cycle => \A s \in PerCycle : runs[s] = Ones(s)
InOrder ==
  LET P == PerVoice(currentRegion)
  IN /\ Height > 0 => \A s, e \in P : ~Pending(s) /\ Pending(e) => s < e
     /\ Height > 1 =>
          \/ Level(2).of = "stage" /\ \A s \in P : Pending(s)
          \/ /\ Level(2).of = "discard" /\ Level(2).what \in P /\ ~Pending(Level(2).what)
             /\ \A s \in P : ~Waits(s) => s < Level(2).what

StackOK ==
  /\ \A k \in 2 .. Height : Good(Level(k))
  /\ Bottom /\ Nested /\ Making /\ InOrder
CountOK == DOMAIN runs = Sources /\ Counted /\ CountedCycle
AInv == IInv /\ StackOK /\ CountOK

(* The stack, level by level.                                              *)
LEMMA AtTop ==
  ASSUME NEW s, IsStack(s), s # <<>>
  PROVE  /\ Len(s) \in Nat /\ Len(s) > 0 /\ At(s, Len(s)) = Head(s)
         /\ \A k \in 1 .. Len(s) : DOMAIN At(s, k) = Fields
<1>1. PICK X : s \in Seq(X) /\ \A g \in X : DOMAIN g = Fields
  BY DEF IsStack
<1>2. PICK n \in Nat : n = Len(s)
  BY <1>1
<1>3. n > 0
  BY <1>1, <1>2
<1>4. At(s, n) = Head(s)
  BY <1>1, <1>2, <1>3 DEF At
<1>5. ASSUME NEW k \in 1 .. n PROVE At(s, k) \in X
  <2>1. n + 1 - k \in 1 .. n
    OBVIOUS
  <2> QED BY <1>1, <1>2, <2>1 DEF At
<1> QED BY <1>1, <1>2, <1>3, <1>4, <1>5

LEMMA AtPushed ==
  ASSUME NEW s, IsStack(s), NEW f
  PROVE  /\ Len(s) \in Nat /\ Len(<<f>> \o s) = Len(s) + 1
         /\ At(<<f>> \o s, Len(s) + 1) = f
         /\ \A k \in 1 .. Len(s) : At(<<f>> \o s, k) = At(s, k)
<1>1. PICK X : s \in Seq(X)
  BY DEF IsStack
<1>2. PICK n \in Nat : n = Len(s)
  BY <1>1
<1>3. PICK u : u = <<f>> \o s
  OBVIOUS
<1>4. Len(u) = n + 1 /\ u[1] = f /\ \A i \in 1 .. n : u[i + 1] = s[i]
  BY <1>1, <1>2, <1>3
<1>5. At(u, n + 1) = f
  BY <1>4 DEF At
<1>6. ASSUME NEW k \in 1 .. n PROVE At(u, k) = At(s, k)
  <2>1. n + 1 - k \in 1 .. n /\ (n + 1) + 1 - k = (n + 1 - k) + 1
    OBVIOUS
  <2>2. u[(n + 1 - k) + 1] = s[n + 1 - k]
    BY <1>4, <2>1
  <2> QED BY <1>2, <1>4, <2>1, <2>2 DEF At
<1> QED BY <1>2, <1>3, <1>4, <1>5, <1>6

LEMMA AtPopped ==
  ASSUME NEW s, IsStack(s), s # <<>>
  PROVE  /\ IsStack(Tail(s)) /\ Len(Tail(s)) = Len(s) - 1
         /\ \A k \in 1 .. Len(s) - 1 : At(Tail(s), k) = At(s, k)
<1>1. PICK X : s \in Seq(X)
  BY DEF IsStack
<1>2. PICK n \in Nat : n = Len(s) /\ n > 0
  BY <1>1
<1>3. PICK u : u = Tail(s)
  OBVIOUS
<1>4. Len(u) = n - 1 /\ \A i \in 1 .. n - 1 : u[i] = s[i + 1]
  BY <1>1, <1>2, <1>3
<1>5. ASSUME NEW k \in 1 .. n - 1 PROVE At(u, k) = At(s, k)
  <2>1. n - k \in 1 .. n - 1 /\ (n - 1) + 1 - k = n - k /\ n + 1 - k = (n - k) + 1
    OBVIOUS
  <2>2. u[n - k] = s[(n - k) + 1]
    BY <1>4, <2>1
  <2> QED BY <1>2, <1>4, <2>1, <2>2 DEF At
<1> QED BY <1>2, <1>3, <1>4, <1>5, Popped

LEMMA AtReplaced ==
  ASSUME IsStack(work), work # <<>>, NEW f
  PROVE  /\ Height \in Nat /\ Height > 0 /\ Level(Height) = Top
         /\ Len(With(f)) = Height /\ At(With(f), Height) = f
         /\ \A k \in 1 .. Height - 1 : At(With(f), k) = Level(k)
<1>1. PICK n \in Nat : n = Len(work) /\ n > 0
  BY AtTop
<1>2. PICK t : t = Tail(work)
  OBVIOUS
<1>3. IsStack(t) /\ Len(t) = n - 1 /\ \A k \in 1 .. n - 1 : At(t, k) = At(work, k)
  BY <1>1, <1>2, AtPopped
<1>4. /\ Len(<<f>> \o t) = n /\ At(<<f>> \o t, n) = f
      /\ \A k \in 1 .. n - 1 : At(<<f>> \o t, k) = At(t, k)
  <2>1. (n - 1) + 1 = n
    OBVIOUS
  <2> QED BY <1>3, <2>1, AtPushed
<1> QED BY <1>1, <1>2, <1>3, <1>4, AtTop DEF With, Height, Level, Top

LEMMA AtCalled ==
  ASSUME IsStack(work), work # <<>>, NEW f, NEW g, DOMAIN g = Fields
  PROVE  /\ Len(<<f>> \o With(g)) = Height + 1
         /\ At(<<f>> \o With(g), Height + 1) = f /\ At(<<f>> \o With(g), Height) = g
         /\ \A k \in 1 .. Height - 1 : At(<<f>> \o With(g), k) = Level(k)
<1>1. PICK w : w = With(g)
  OBVIOUS
<1>2. IsStack(w)
  BY <1>1, Pushed, Popped DEF With
<1>3. /\ Height \in Nat /\ Height > 0 /\ Len(w) = Height /\ At(w, Height) = g
      /\ \A k \in 1 .. Height - 1 : At(w, k) = Level(k)
  BY <1>1, AtReplaced
<1>4. /\ Len(<<f>> \o w) = Height + 1 /\ At(<<f>> \o w, Height + 1) = f
      /\ \A k \in 1 .. Height : At(<<f>> \o w, k) = At(w, k)
  BY <1>2, <1>3, AtPushed
<1> QED BY <1>1, <1>3, <1>4

-----------------------------------------------------------------------------
(* What is asked for from where.                                           *)
LEMMA Steady ==
  ASSUME Still
  PROVE  /\ Sources' = Sources /\ Targets' = Targets /\ LowTargets' = LowTargets
         /\ PerCycle' = PerCycle /\ \A r : PerVoice(r)' = PerVoice(r)
         /\ PerVoice(currentRegion)' = PerVoice(currentRegion) /\ Own' = Own
         /\ \A s : IsOscillator(s)' = IsOscillator(s)
         /\ \A f : Good(f)' = Good(f) /\ Outer(f)' = Outer(f) /\ Inner(f)' = Inner(f)
<1>1. patch' = patch /\ currentRegion' = currentRegion
  BY DEF Still
<1>2. /\ Sources' = Sources /\ Targets' = Targets
      /\ PerCycle' = PerCycle /\ \A r : PerVoice(r)' = PerVoice(r)
      /\ PerVoice(currentRegion)' = PerVoice(currentRegion)
      /\ \A s : IsOscillator(s)' = IsOscillator(s)
  BY <1>1 DEF Sources, Targets, PerCycle, PerVoice, IsOscillator
<1>3. Own' = Own /\ LowTargets' = LowTargets
  BY <1>1, <1>2 DEF Own, LowTargets, Targets, IsOscillator
<1>4. \A r : StageWords(r)' = StageWords(r)
  BY <1>1 DEF StageWords, Mono, Index, Take, Give, Scratch, Play, Ask
<1>5. \A s : OscillatorWords(s)' = OscillatorWords(s)
  BY <1>1, Zenon DEF OscillatorWords
<1>6. \A t : TargetWords(t)' = TargetWords(t)
  BY <1>1, <1>3, Zenon DEF TargetWords
<1>7. \A f : Outer(f)' = Outer(f) /\ Inner(f)' = Inner(f)
  BY <1>2, <1>3, Zenon DEF Outer, Inner, IsGenerator
<1>8. ASSUME NEW f PROVE Good(f)' = Good(f)
  <2>1. GoodStage(f)' = GoodStage(f)
    BY <1>1, <1>4, Zenon DEF GoodStage
  <2>2. GoodTarget(f)' = GoodTarget(f)
    BY <1>1, <1>2, <1>6, Zenon DEF GoodTarget
  <2>3. GoodGenerator(f)' = GoodGenerator(f)
    BY <1>2, <1>3, <1>5, Zenon DEF GoodGenerator, IsGenerator
  <2> QED BY <2>1, <2>2, <2>3, Zenon DEF Good
<1> QED BY <1>2, <1>3, <1>7, <1>8

LEMMA Connected ==
  ASSUME patch \in Patches
  PROVE  /\ \A t \in Targets : \A c \in patch.feeds[t] :
              c.source \in Sources /\ (c.depth \in Targets => c.depth \in LowTargets)
         /\ \A s \in Sources :
              /\ patch.sources[s].subs \in Nat
              /\ IsOscillator(s) =>
                   \A n \in {"beats", "frequency", "phase"} :
                     LET t == <<patch.sources[s].region, n, patch.sources[s].number>>
                     IN t \in Targets => t \in LowTargets
         /\ \A s \in PerCycle : ~IsOscillator(s)
<1> DEFINE moved == {t \in Targets : \E c \in patch.feeds[t] : patch.sources[c.source].subs > 0}
<1>1. WellConnected(patch)
  BY RenderAssumption DEF RenderAssumption
<1>2. /\ \A t \in Targets : \A c \in patch.feeds[t] : c.source \in Sources /\ c.depth \notin moved
      /\ \A s \in Sources :
           /\ patch.sources[s].subs \in Nat
           /\ patch.sources[s].kind = "cycle" => patch.sources[s].subs = 0
           /\ patch.sources[s].subs > 0 =>
                moved \cap {<<patch.sources[s].region, n, patch.sources[s].number>> :
                             n \in {"beats", "frequency", "phase"}} = {}
  BY <1>1, Zenon DEF WellConnected, Sources, Targets
<1>3. \A t \in Targets : t \notin moved => t \in LowTargets
  BY DEF LowTargets, IsOscillator
<1> HIDE DEF moved
<1>4. ASSUME NEW s \in Sources, IsOscillator(s), NEW n \in {"beats", "frequency", "phase"},
             <<patch.sources[s].region, n, patch.sources[s].number>> \in Targets
      PROVE  <<patch.sources[s].region, n, patch.sources[s].number>> \in LowTargets
  <2>1. <<patch.sources[s].region, n, patch.sources[s].number>> \notin moved
    BY <1>2, <1>4 DEF IsOscillator
  <2> QED BY <1>3, <1>4, <2>1
<1>5. \A s \in PerCycle : ~IsOscillator(s)
  BY <1>2 DEF PerCycle, IsOscillator
<1> QED BY <1>2, <1>3, <1>4, <1>5

LEMMA Spoken ==
  ASSUME patch \in Patches, NEW f, Good(f), f.todo # <<>>
  PROVE  LET y == Head(f.todo)
         IN /\ y[1] # "discard"
            /\ y[1] = "run" =>
                 /\ f.of = "target" /\ y[2] \in Own
                 /\ f.what \in LowTargets => ~IsOscillator(y[2])
            /\ y[1] = "ask" /\ Outer(f) => (y[2] \in Targets => y[2] \in LowTargets)
            /\ IsGenerator(f) => IsOscillator(f.what)
            /\ \A g : g.of = f.of /\ g.what = f.what /\ g.left = f.left
                      /\ g.todo = Tail(f.todo) => Good(g)
<1>1. PICK y : y = Head(f.todo)
  OBVIOUS
<1>2. CASE GoodStage(f)
  <2>1. y \in StageWords(currentRegion) /\ Tail(f.todo) \in Seq(StageWords(currentRegion))
    BY <1>1, <1>2 DEF GoodStage
  <2>2. y[1] \notin {"run", "discard"}
    BY <2>1 DEF StageWords, Mono, Index, Take, Give, Scratch, Play, Ask
  <2>3. ~Outer(f) /\ ~IsGenerator(f) /\ f.of = "stage" /\ f.left = {}
    BY <1>2 DEF GoodStage, Outer, IsGenerator
  <2> QED BY <1>1, <2>1, <2>2, <2>3 DEF Good, GoodStage
<1>3. CASE GoodTarget(f)
  <2>1. y \in TargetWords(f.what) /\ Tail(f.todo) \in Seq(TargetWords(f.what))
    <3>1. PICK X : X = TargetWords(f.what)
      OBVIOUS
    <3>2. f.todo \in Seq(X)
      BY <1>3, <3>1 DEF GoodTarget
    <3>3. y \in X /\ Tail(f.todo) \in Seq(X)
      BY <1>1, <3>2
    <3> QED BY <3>1, <3>3
  <2>2. f.of = "target" /\ f.what \in Targets /\ f.left \subseteq patch.feeds[f.what] /\ ~IsGenerator(f)
    BY <1>3 DEF GoodTarget, IsGenerator
  <2>3. CASE \E c \in patch.feeds[f.what] : c.source \in Own /\ y = Run(c.source)
    <3>1. y[1] = "run" /\ \E c \in patch.feeds[f.what] : c.source \in Own /\ y[2] = c.source
      BY <2>3 DEF Run
    <3>2. f.what \in LowTargets => ~IsOscillator(y[2])
      BY <3>1 DEF LowTargets
    <3> QED BY <1>1, <2>1, <2>2, <3>1, <3>2 DEF Good, GoodTarget
  <2>4. CASE \E c \in patch.feeds[f.what] : y = Ask(c.depth)
    <3>1. PICK c \in patch.feeds[f.what] : y = Ask(c.depth)
      BY <2>4
    <3>2. y[1] = "ask" /\ y[2] = c.depth
      BY <3>1 DEF Ask
    <3>3. y[2] \in Targets => y[2] \in LowTargets
      BY <2>2, <3>1, <3>2, Connected
    <3> QED BY <1>1, <2>1, <2>2, <3>2, <3>3 DEF Good, GoodTarget
  <2> QED BY <2>1, <2>3, <2>4 DEF TargetWords
<1>4. CASE GoodGenerator(f)
  <2>1. y \in OscillatorWords(f.what) /\ Tail(f.todo) \in Seq(OscillatorWords(f.what))
    <3>1. PICK X : X = OscillatorWords(f.what)
      OBVIOUS
    <3>2. f.todo \in Seq(X)
      BY <1>4, <3>1 DEF GoodGenerator
    <3>3. y \in X /\ Tail(f.todo) \in Seq(X)
      BY <1>1, <3>2
    <3> QED BY <3>1, <3>3
  <2>2. /\ IsGenerator(f) /\ f.what \in Own /\ f.left = {} /\ IsOscillator(f.what)
        /\ f.what \in Sources
    BY <1>4 DEF GoodGenerator, Own, PerCycle, PerVoice
  <2>3. y[1] \notin {"run", "discard"} /\ (y[1] = "ask" => (y[2] \in Targets => y[2] \in LowTargets))
    <3>1. CASE y \in {Take("mono"), Scratch(1), Clock}
      BY <3>1 DEF Take, Scratch, Clock
    <3>2. CASE \E n \in {"beats", "frequency", "phase"} :
                 y = Ask(<<patch.sources[f.what].region, n, patch.sources[f.what].number>>)
      <4>1. PICK n \in {"beats", "frequency", "phase"} :
                 y = Ask(<<patch.sources[f.what].region, n, patch.sources[f.what].number>>)
        BY <3>2
      <4>2. y[1] = "ask" /\ y[2] = <<patch.sources[f.what].region, n, patch.sources[f.what].number>>
        BY <4>1 DEF Ask
      <4> QED BY <2>2, <4>2, Connected
    <3> QED BY <2>1, <3>1, <3>2 DEF OscillatorWords
  <2>4. ASSUME NEW g, g.of = f.of, g.what = f.what, g.left = f.left, g.todo = Tail(f.todo)
        PROVE  Good(g)
    BY <2>1, <2>2, <2>4 DEF Good, GoodGenerator, IsGenerator
  <2> QED BY <1>1, <2>2, <2>3, <2>4
<1> QED BY <1>2, <1>3, <1>4 DEF Good

LEMMA Emptied ==
  ASSUME NEW f, Good(f), NEW g, g.of = f.of, g.what = f.what, g.left = f.left, g.todo = <<>>
  PROVE  Good(g)
<1>1. \A X : <<>> \in Seq(X)
  OBVIOUS
<1> QED BY <1>1 DEF Good, GoodStage, GoodTarget, GoodGenerator, IsGenerator

(* What a generator that asks has to do, once it has its buffer.           *)
AskWords(s) ==
  LET lfo == patch.sources[s]
  IN {Scratch(1), Clock}
     \union {Ask(<<lfo.region, n, lfo.number>>) : n \in {"beats", "frequency", "phase"}}

LEMMA OscillatorSays ==
  ASSUME patch \in Patches, NEW s \in Sources
  PROVE  \E u \in Seq(AskWords(s)) : Oscillation(s) = <<Take("mono")>> \o u
<1> DEFINE lfo == patch.sources[s]
           target(n) == <<lfo.region, n, lfo.number>>
           scratch == IF target("beats") \in Targets THEN <<Scratch(1)>> ELSE <<>>
           beat == IF ~(playing /\ lfo.beats) THEN <<>> ELSE scratch \o <<Clock>>
           asks == <<Ask(target("beats")), Ask(target("frequency")), Ask(target("phase"))>>
           sub == asks \o beat
           subs == [i \in 1 .. lfo.subs |-> sub]
<1>1. PICK W : W = AskWords(s)
  OBVIOUS
<1>2. /\ Scratch(1) \in W /\ Clock \in W
      /\ Ask(target("beats")) \in W /\ Ask(target("frequency")) \in W /\ Ask(target("phase")) \in W
  BY <1>1 DEF AskWords
<1>3. <<Scratch(1)>> \in Seq(W) /\ <<Clock>> \in Seq(W) /\ <<>> \in Seq(W)
  BY <1>2
<1>4. asks \in Seq(W)
  <2>1. PICK a \in W, b \in W, c \in W :
          a = Ask(target("beats")) /\ b = Ask(target("frequency")) /\ c = Ask(target("phase"))
    BY <1>2
  <2>2. <<a, b, c>> \in Seq(W)
    OBVIOUS
  <2> QED BY <2>1, <2>2
<1>5. scratch \in Seq(W)
  BY <1>3
<1> HIDE DEF asks, scratch
<1>6. beat \in Seq(W)
  <2>1. scratch \o <<Clock>> \in Seq(W)
    BY <1>3, <1>5
  <2> QED BY <1>3, <2>1
<1> HIDE DEF beat
<1>7. sub \in Seq(W)
  BY <1>4, <1>6
<1>8. PICK N \in Nat : N = lfo.subs
  BY Connected
<1>9. subs \in Seq(Seq(W))
  <2> HIDE DEF sub
  <2> QED BY <1>7, <1>8
<1>10. FlattenSeq(subs) \in Seq(W)
  <2> HIDE DEF subs
  <2> QED BY <1>9, Flattened
<1>11. Oscillation(s) = <<Take("mono")>> \o FlattenSeq(subs)
  BY DEF Oscillation, asks, beat, scratch
<1> QED BY <1>1, <1>10, <1>11

LEMMA GeneratorSays ==
  ASSUME patch \in Patches, NEW s \in Sources
  PROVE  /\ Generator(s) \in Seq(OscillatorWords(s))
         /\ ~IsOscillator(s) => Generator(s) = <<>>
<1>1. PICK W : W = OscillatorWords(s)
  OBVIOUS
<1>2. PICK u \in Seq(AskWords(s)) : Oscillation(s) = <<Take("mono")>> \o u
  BY OscillatorSays
<1>3. AskWords(s) \subseteq W /\ Take("mono") \in W
  BY <1>1 DEF OscillatorWords, AskWords
<1>4. <<Take("mono")>> \o u \in Seq(W) /\ <<>> \in Seq(W)
  BY <1>3
<1> QED BY <1>1, <1>2, <1>4 DEF Generator

-----------------------------------------------------------------------------
(* What a stage has to do.                                                 *)
LEMMA StageSays ==
  ASSUME NEW r
  PROVE  /\ Mono \in StageWords(r) /\ Index \in StageWords(r) /\ Give("mono") \in StageWords(r)
         /\ Scratch(1) \in StageWords(r) /\ Scratch(2) \in StageWords(r) /\ Play \in StageWords(r)
         /\ \A n \in Names : Target(r, n) \in StageWords(r)
         /\ \A n \in Names, i \in Nat : Ask(<<r, n, i>>) \in StageWords(r)
         /\ PitchEnvelope(r) \in Seq(StageWords(r))
         /\ AmpStage(r) \in Seq(StageWords(r)) /\ PanStage(r) \in Seq(StageWords(r))
         /\ \A i \in Nat : /\ FilterStage(r, i) \in Seq(StageWords(r))
                           /\ EqualizerStage(r, i) \in Seq(StageWords(r))
<1>1. PICK W : W = StageWords(r)
  OBVIOUS
<1>2. /\ Mono \in W /\ Index \in W /\ Give("mono") \in W
      /\ Scratch(1) \in W /\ Scratch(2) \in W /\ Play \in W
  BY <1>1 DEF StageWords
<1>3. \A n \in Names, i \in Nat : Ask(<<r, n, i>>) \in W
  BY <1>1 DEF StageWords
<1>4. \A n \in Names : Target(r, n) \in W
  BY <1>3 DEF Target
<1>5. PitchEnvelope(r) \in Seq(W)
  <2>0. Target(r, "pitch") \in W
    BY <1>4 DEF Names
  <2>1. <<Scratch(1)>> \in Seq(W) /\ <<Target(r, "pitch")>> \in Seq(W) /\ <<>> \in Seq(W)
    BY <1>2, <2>0
  <2>2. PICK t \in Seq(W) : t = IF Region(r).notePitch THEN <<Scratch(1)>> ELSE <<>>
    BY <2>1
  <2>3. t \o <<Target(r, "pitch")>> \in Seq(W)
    BY <2>1
  <2> QED BY <2>2, <2>3 DEF PitchEnvelope
<1>6. AmpStage(r) \in Seq(W)
  <2>0. Target(r, "masterAmplitude") \in W /\ Target(r, "amplitude") \in W /\ Target(r, "volume") \in W
    BY <1>4 DEF Names
  <2>1. PICK a \in W, b \in W, c \in W, d \in W, e \in W :
          /\ a = Mono /\ b = Target(r, "masterAmplitude") /\ c = Target(r, "amplitude")
          /\ d = Target(r, "volume") /\ e = Scratch(2)
    BY <1>2, <2>0
  <2>2. <<a, b, c, d, e>> \in Seq(W)
    OBVIOUS
  <2> QED BY <2>1, <2>2 DEF AmpStage
<1>7. PanStage(r) \in Seq(W)
  <2>0. Target(r, "pan") \in W /\ Target(r, "width") \in W /\ Target(r, "position") \in W
    BY <1>4 DEF Names
  <2>1. PICK a \in W, b \in W, c \in W, d \in W :
          a = Mono /\ b = Target(r, "pan") /\ c = Target(r, "width") /\ d = Target(r, "position")
    BY <1>2, <2>0
  <2>2. <<a, b>> \in Seq(W) /\ <<c, d>> \in Seq(W) /\ <<>> \in Seq(W)
    OBVIOUS
  <2>3. PICK t \in Seq(W) : t = IF Region(r).stereo THEN <<c, d>> ELSE <<>>
    BY <2>2
  <2>4. <<a, b>> \o t \in Seq(W)
    BY <2>2
  <2> QED BY <2>1, <2>3, <2>4 DEF PanStage
<1>8. ASSUME NEW i \in Nat PROVE FilterStage(r, i) \in Seq(W)
  <2>0. Ask(<<r, "cutoff", i>>) \in W /\ Ask(<<r, "resonance", i>>) \in W /\ Ask(<<r, "gain", i>>) \in W
    BY <1>3 DEF Names
  <2>1. PICK m \in W, a \in W, b \in W, c \in W :
          /\ m = Mono /\ a = Ask(<<r, "cutoff", i>>) /\ b = Ask(<<r, "resonance", i>>)
          /\ c = Ask(<<r, "gain", i>>)
    BY <1>2, <2>0
  <2>2. <<m, m, m, a, b, c>> \in Seq(W)
    OBVIOUS
  <2> QED BY <2>1, <2>2 DEF FilterStage
<1>9. ASSUME NEW i \in Nat PROVE EqualizerStage(r, i) \in Seq(W)
  <2>0. Ask(<<r, "eqFrequency", i>>) \in W /\ Ask(<<r, "eqBandwidth", i>>) \in W /\ Ask(<<r, "eqGain", i>>) \in W
    BY <1>3 DEF Names
  <2>1. PICK m \in W, a \in W, b \in W, c \in W :
          /\ m = Mono /\ a = Ask(<<r, "eqFrequency", i>>) /\ b = Ask(<<r, "eqBandwidth", i>>)
          /\ c = Ask(<<r, "eqGain", i>>)
    BY <1>2, <2>0
  <2>2. <<m, m, m, a, b, c>> \in Seq(W)
    OBVIOUS
  <2> QED BY <2>1, <2>2 DEF EqualizerStage
<1> QED BY <1>1, <1>2, <1>3, <1>4, <1>5, <1>6, <1>7, <1>8, <1>9

LEMMA DataSays ==
  ASSUME NEW v, NEW n, NEW r, r = voice[v].region,
         Region(r).kind \in {"noise", "single", "unison", "modulated", "sample"}
  PROVE  /\ FillWithData(v, n) \in Seq(StageWords(r))
         /\ Region(r).kind # "sample" => FillWithGenerator(r) \in Seq(StageWords(r))
<1>1. PICK W : W = StageWords(r)
  OBVIOUS
<1>2. /\ Mono \in W /\ Index \in W /\ Give("mono") \in W /\ Play \in W
      /\ Target(r, "detune") \in W /\ Target(r, "modDepth") \in W
      /\ PitchEnvelope(r) \in Seq(W)
  <2>1. \A name \in Names : Target(r, name) \in W
    BY <1>1, StageSays
  <2>2. Target(r, "detune") \in W /\ Target(r, "modDepth") \in W
    BY <2>1 DEF Names
  <2> QED BY <1>1, <2>2, StageSays
<1>3. PICK m \in W, x \in W, d \in W, e \in W :
        m = Mono /\ x = Index /\ d = Target(r, "detune") /\ e = Target(r, "modDepth")
  BY <1>2
<1>4. /\ <<m>> \in Seq(W) /\ <<m, m, m, d>> \in Seq(W) /\ <<m, m, d, e>> \in Seq(W)
      /\ <<m, x, m>> \in Seq(W) /\ <<x, x>> \in Seq(W) /\ <<m, m, x>> \in Seq(W) /\ <<>> \in Seq(W)
      /\ <<Give("mono")>> \in Seq(W) /\ <<Play>> \in Seq(W)
  BY <1>2
<1>5. FillWithData(v, n) \in Seq(W)
  <2> DEFINE loops == ShouldLoop(Region(r).sample, voice[v].play, Released(v))
             fades == loops /\ LoopPass(Region(r).sample, voice[v].play, n).fades
  <2>1. PICK a \in Seq(W) : a = IF loops THEN <<x, x>> ELSE <<>>
    BY <1>4
  <2>2. PICK b \in Seq(W) : b = IF fades THEN <<m, m, x>> ELSE <<>>
    BY <1>4
  <2>3. PICK c \in Seq(W) : c = PitchEnvelope(r)
    BY <1>2
  <2>4. FillWithData(v, n) =
          IF n = 0 \/ Region(r).sample.frames = 0 THEN <<>>
          ELSE <<m, x, m>> \o c \o <<Give("mono")>> \o a \o b \o <<Play>>
    BY <1>3, <2>1, <2>2, <2>3, Zenon DEF FillWithData
  <2>5. <<m, x, m>> \o c \o <<Give("mono")>> \o a \o b \o <<Play>> \in Seq(W)
    BY <1>4
  <2> QED BY <1>4, <2>4, <2>5
<1>6. ASSUME Region(r).kind # "sample" PROVE FillWithGenerator(r) \in Seq(W)
  <2> DEFINE oscillator ==
               [single |-> <<Mono>>,
                unison |-> <<Mono, Mono, Mono, Target(r, "detune")>>,
                modulated |-> <<Mono, Mono, Target(r, "detune"), Target(r, "modDepth")>>]
             front == <<Mono>> \o PitchEnvelope(r) \o <<Mono>>
  <2>1. CASE Region(r).kind = "noise"
    BY <1>4, <2>1 DEF FillWithGenerator
  <2>2. CASE Region(r).kind # "noise"
    <3>1. FillWithGenerator(r) = front \o oscillator[Region(r).kind]
      BY <2>2, Zenon DEF FillWithGenerator
    <3>2. oscillator[Region(r).kind] \in {<<m>>, <<m, m, m, d>>, <<m, m, d, e>>}
      BY <1>3, <1>6, <2>2
    <3>3. front \in Seq(W)
      BY <1>2, <1>4
    <3> HIDE DEF front, oscillator
    <3>4. oscillator[Region(r).kind] \in Seq(W)
      BY <1>4, <3>2
    <3> QED BY <3>1, <3>3, <3>4
  <2> QED BY <2>1, <2>2
<1> QED BY <1>1, <1>5, <1>6

LEMMA DiscardsRise ==
  ASSUME patch \in Patches, NEW r
  PROVE  LET t == Discards(r).todo
         IN /\ Discards(r).of = "stage" /\ Discards(r).left = {}
            /\ t \in Seq(DiscardsOf(r)) /\ Rising(t)
            /\ \A s \in PerVoice(r) : \E i \in DOMAIN t : t[i] = Discard(s)
<1> DEFINE P == PerVoice(r)
           Y == DiscardsOf(r)
<1>1. PICK N \in Nat : N = Len(patch.sources) /\ P \subseteq 1 .. N
  BY RenderAssumption DEF RenderAssumption, PerVoice, Sources
<1>2. PICK w : /\ DiscardAll(r) = w[N] /\ w[0] = <<>>
               /\ \A n \in 0 .. N : w[n] \in Seq(Y)
               /\ \A n \in 1 .. N : w[n] = IF n \in P THEN Append(w[n - 1], Discard(n)) ELSE w[n - 1]
  BY <1>1, DiscardsSoFar
<1> DEFINE Below(n) == \A i \in DOMAIN w[n] : w[n][i][2] <= n
           All(n) == \A s \in P : s <= n => \E i \in DOMAIN w[n] : w[n][i] = Discard(s)
           Right == {n \in 0 .. N : Rising(w[n]) /\ Below(n) /\ All(n)}
<1>3. 0 \in Right
  BY <1>1, <1>2 DEF Rising
<1>4. ASSUME NEW n \in 1 .. N, n - 1 \in Right PROVE n \in Right
  <2>1. PICK t : t = w[n - 1]
    OBVIOUS
  <2>2. n - 1 \in 0 .. N /\ n \in 0 .. N
    OBVIOUS
  <2>3. PICK m \in Nat : m = Len(t) /\ DOMAIN t = 1 .. m /\ t \in Seq(Y)
    <3> HIDE DEF Y
    <3>1. t \in Seq(Y)
      BY <1>2, <2>1, <2>2
    <3> QED BY <3>1
  <2>4. \A i \in 1 .. m : t[i][2] \in 1 .. n - 1
    <3>1. \A i \in 1 .. m : t[i] \in Y
      BY <2>3
    <3>2. \A i \in 1 .. m : t[i][2] \in 1 .. N
      BY <1>1, <3>1 DEF Discard, DiscardsOf
    <3>3. \A i \in 1 .. m : t[i][2] <= n - 1
      BY <1>4, <2>1, <2>3
    <3> QED BY <3>2, <3>3
  <2>5. Rising(t) /\ \A s \in P : s <= n - 1 => \E i \in 1 .. m : t[i] = Discard(s)
    BY <1>4, <2>1, <2>3
  <2>6. CASE n \in P
    <3>1. PICK u : u = Append(t, Discard(n))
      OBVIOUS
    <3>2. w[n] = u
      BY <1>2, <2>1, <2>6, <3>1
    <3>3. DOMAIN u = 1 .. m + 1 /\ u[m + 1] = Discard(n) /\ \A i \in 1 .. m : u[i] = t[i]
      BY <2>3, <3>1
    <3>4. u[m + 1][2] = n
      BY <3>3 DEF Discard
    <3>5. Rising(u)
      <4> SUFFICES ASSUME NEW i \in 1 .. m + 1, NEW j \in 1 .. m + 1, i < j
                   PROVE  u[i][2] < u[j][2]
        BY <3>3 DEF Rising
      <4>1. CASE j = m + 1
        <5>1. i \in 1 .. m /\ u[i] = t[i]
          BY <3>3, <4>1
        <5> QED BY <2>4, <3>4, <4>1, <5>1
      <4>2. CASE j # m + 1
        <5>1. i \in 1 .. m /\ j \in 1 .. m /\ u[i] = t[i] /\ u[j] = t[j]
          BY <3>3, <4>2
        <5> QED BY <2>3, <2>5, <5>1 DEF Rising
      <4> QED BY <4>1, <4>2
    <3>6. \A i \in 1 .. m + 1 : u[i][2] <= n
      <4> SUFFICES ASSUME NEW i \in 1 .. m + 1 PROVE u[i][2] <= n
        OBVIOUS
      <4>1. CASE i = m + 1
        BY <3>4, <4>1
      <4>2. CASE i # m + 1
        <5>1. i \in 1 .. m /\ u[i] = t[i]
          BY <3>3, <4>2
        <5> QED BY <2>4, <5>1
      <4> QED BY <4>1, <4>2
    <3>7. ASSUME NEW s \in P, s <= n PROVE \E i \in 1 .. m + 1 : u[i] = Discard(s)
      <4>1. CASE s = n
        BY <3>3, <4>1
      <4>2. CASE s # n
        <5>1. s <= n - 1
          BY <1>1, <3>7, <4>2
        <5>2. PICK i \in 1 .. m : t[i] = Discard(s)
          BY <2>5, <5>1
        <5> QED BY <3>3, <5>2
      <4> QED BY <4>1, <4>2
    <3> QED BY <2>2, <3>2, <3>3, <3>5, <3>6, <3>7
  <2>7. CASE n \notin P
    <3>1. w[n] = t
      BY <1>2, <2>1, <2>7
    <3>2. \A i \in 1 .. m : t[i][2] <= n
      BY <2>4
    <3>3. \A s \in P : s <= n => s <= n - 1
      BY <1>1, <2>7
    <3> QED BY <2>2, <2>3, <2>5, <3>1, <3>2, <3>3
  <2> QED BY <2>6, <2>7
<1>5. \A n \in 0 .. N : n \in Right
  <2> HIDE DEF Right
  <2> QED BY <1>3, <1>4, Upward
<1>6. Rising(w[N]) /\ \A s \in P : \E i \in DOMAIN w[N] : w[N][i] = Discard(s)
  BY <1>1, <1>5
<1>7. Discards(r).of = "stage" /\ Discards(r).left = {} /\ Discards(r).todo = w[N]
  BY <1>2 DEF Discards, Frame
<1>8. w[N] \in Seq(Y)
  BY <1>2
<1> QED BY <1>6, <1>7, <1>8

-----------------------------------------------------------------------------
(* What is in hand: single and index buffers of a stage, no more than five *)
(* and four.                                                               *)
Hands == (0 .. 5) \X (0 .. 4)

(* A target that an oscillator may move.                                   *)
Swayed(t) == t \in Targets /\ t \notin LowTargets

(* With a in hand a stage may take the instruction x, and has b after it.  *)
(* What an oscillator may move, and what is discarded, leaves two single   *)
(* buffers for the oscillator.                                             *)
Does(x, a, b) ==
  \/ x = Mono /\ b = <<a[1] + 1, a[2]>>
  \/ x = Index /\ b = <<a[1], a[2] + 1>>
  \/ x = Give("mono") /\ b = <<a[1] - 1, a[2]>>
  \/ /\ b = a
     /\ \/ x[1] = "scratch" /\ x[2] \in Nat /\ a[1] + x[2] <= 5
        \/ x[1] = "ask" /\ (Swayed(x[2]) => a[1] <= 3)
        \/ x[1] = "discard" /\ a[1] <= 3
        \/ x[1] = "play"

Goes(t, a, b) ==
  \E h : /\ h[0] = a /\ h[Len(t)] = b
         /\ \A n \in 0 .. Len(t) : h[n] \in Hands
         /\ \A n \in 1 .. Len(t) : Does(t[n], h[n - 1], h[n])
Fits(t, a) == \E b : Goes(t, a, b)

LEMMA InHands == \A i \in 0 .. 5, j \in 0 .. 4 : <<i, j>> \in Hands
BY DEF Hands

LEMMA GoesNowhere == ASSUME NEW a \in Hands PROVE Goes(<<>>, a, a)
<1>1. PICK h : h = [n \in 0 .. 0 |-> a]
  OBVIOUS
<1>2. h[0] = a /\ \A n \in 0 .. 0 : h[n] \in Hands
  BY <1>1
<1>3. Len(<<>>) = 0
  OBVIOUS
<1> QED BY <1>2, <1>3 DEF Goes

LEMMA GoesBoth ==
  ASSUME NEW X, NEW t \in Seq(X), NEW u \in Seq(X), NEW a, NEW b, NEW c,
         Goes(t, a, b), Goes(u, b, c)
  PROVE  Goes(t \o u, a, c)
<1>1. PICK m \in Nat, k \in Nat : m = Len(t) /\ k = Len(u)
  OBVIOUS
<1>2. PICK w : w = t \o u
  OBVIOUS
<1>3. /\ Len(w) = m + k /\ \A n \in 1 .. m : w[n] = t[n]
      /\ \A n \in m + 1 .. m + k : w[n] = u[n - m]
  BY <1>1, <1>2
<1>4. PICK p : /\ p[0] = a /\ p[m] = b /\ \A n \in 0 .. m : p[n] \in Hands
               /\ \A n \in 1 .. m : Does(t[n], p[n - 1], p[n])
  BY <1>1 DEF Goes
<1>5. PICK q : /\ q[0] = b /\ q[k] = c /\ \A n \in 0 .. k : q[n] \in Hands
               /\ \A n \in 1 .. k : Does(u[n], q[n - 1], q[n])
  BY <1>1 DEF Goes
<1>6. PICK h : h = [n \in 0 .. m + k |-> IF n <= m THEN p[n] ELSE q[n - m]]
  OBVIOUS
<1>7. /\ \A n \in 0 .. m : h[n] = p[n]
      /\ \A n \in m + 1 .. m + k : h[n] = q[n - m]
  BY <1>6
<1>8. h[0] = a /\ h[m + k] = c
  <2>1. CASE k = 0
    BY <1>4, <1>5, <1>7, <2>1
  <2>2. CASE k # 0
    <3>1. m + k \in m + 1 .. m + k /\ (m + k) - m = k
      BY <2>2
    <3> QED BY <1>4, <1>5, <1>7, <3>1
  <2> QED BY <2>1, <2>2
<1>9. ASSUME NEW n \in 0 .. m + k PROVE h[n] \in Hands
  <2>1. CASE n <= m
    BY <1>4, <1>7, <2>1
  <2>2. CASE n > m
    <3>1. n - m \in 0 .. k /\ n \in m + 1 .. m + k
      BY <2>2
    <3> QED BY <1>5, <1>7, <3>1
  <2> QED BY <2>1, <2>2
<1>10. ASSUME NEW n \in 1 .. m + k PROVE Does(w[n], h[n - 1], h[n])
  <2>1. CASE n <= m
    <3>1. n \in 1 .. m /\ n - 1 \in 0 .. m /\ n \in 0 .. m
      BY <2>1
    <3> QED BY <1>3, <1>4, <1>7, <3>1
  <2>2. CASE n > m
    <3>1. PICK j \in 1 .. k : j = n - m /\ n \in m + 1 .. m + k
      BY <2>2
    <3>2. w[n] = u[j] /\ h[n] = q[j]
      BY <1>3, <1>7, <3>1
    <3>3. h[n - 1] = q[j - 1]
      <4>1. CASE j = 1
        <5>1. n - 1 = m /\ m \in 0 .. m
          BY <3>1, <4>1
        <5> QED BY <1>4, <1>5, <1>7, <4>1, <5>1
      <4>2. CASE j # 1
        <5>1. n - 1 \in m + 1 .. m + k /\ (n - 1) - m = j - 1
          BY <3>1, <4>2
        <5> QED BY <1>7, <5>1
      <4> QED BY <4>1, <4>2
    <3> QED BY <1>5, <3>2, <3>3
  <2> QED BY <2>1, <2>2
<1> QED BY <1>2, <1>3, <1>8, <1>9, <1>10 DEF Goes

LEMMA GoesOnce ==
  ASSUME NEW x, NEW a \in Hands, NEW b \in Hands, Does(x, a, b)
  PROVE  Goes(<<x>>, a, b)
<1>1. PICK t : t = <<x>>
  OBVIOUS
<1>2. Len(t) = 1 /\ t[1] = x
  BY <1>1
<1>3. PICK h : h = [n \in 0 .. 1 |-> IF n = 0 THEN a ELSE b]
  OBVIOUS
<1>4. h[0] = a /\ h[1] = b
  BY <1>3
<1>5. /\ \A n \in 0 .. 1 : h[n] \in Hands
      /\ \A n \in 1 .. 1 : Does(t[n], h[n - 1], h[n])
  <2>1. \A n \in 0 .. 1 : h[n] \in Hands
    BY <1>4
  <2>2. \A n \in 1 .. 1 : n = 1 /\ n - 1 = 0
    OBVIOUS
  <2> QED BY <1>2, <1>4, <2>1, <2>2
<1> QED BY <1>1, <1>2, <1>4, <1>5 DEF Goes

LEMMA GoesFirst ==
  ASSUME NEW X, NEW t \in Seq(X), t # <<>>, NEW a, Fits(t, a)
  PROVE  \E b \in Hands : a \in Hands /\ Does(Head(t), a, b) /\ Fits(Tail(t), b)
<1>1. PICK m \in Nat : m = Len(t) /\ m > 0
  OBVIOUS
<1>2. PICK h : /\ h[0] = a /\ \A n \in 0 .. m : h[n] \in Hands
               /\ \A n \in 1 .. m : Does(t[n], h[n - 1], h[n])
  BY <1>1 DEF Fits, Goes
<1>3. PICK u : u = Tail(t)
  OBVIOUS
<1>4. Len(u) = m - 1 /\ Head(t) = t[1] /\ \A n \in 1 .. m - 1 : u[n] = t[n + 1]
  BY <1>1, <1>3
<1>5. PICK g : g = [n \in 0 .. m - 1 |-> h[n + 1]]
  OBVIOUS
<1>6. \A n \in 0 .. m - 1 : g[n] = h[n + 1]
  BY <1>5
<1>7. \A n \in 0 .. m - 1 : g[n] \in Hands
  <2> SUFFICES ASSUME NEW n \in 0 .. m - 1 PROVE g[n] \in Hands
    OBVIOUS
  <2>1. n + 1 \in 0 .. m
    OBVIOUS
  <2> QED BY <1>2, <1>6, <2>1
<1>8. ASSUME NEW n \in 1 .. m - 1 PROVE Does(u[n], g[n - 1], g[n])
  <2>1. n + 1 \in 1 .. m /\ n - 1 \in 0 .. m - 1 /\ n \in 0 .. m - 1 /\ (n + 1) - 1 = n /\ (n - 1) + 1 = n
    OBVIOUS
  <2>2. Does(t[n + 1], h[(n + 1) - 1], h[n + 1])
    BY <1>2, <2>1
  <2> QED BY <1>4, <1>6, <2>1, <2>2
<1>9. Goes(u, h[1], g[m - 1])
  <2>1. g[0] = h[1]
    BY <1>1, <1>6
  <2> QED BY <1>4, <1>7, <1>8, <2>1 DEF Goes
<1>10. Does(t[1], a, h[1]) /\ h[1] \in Hands /\ a \in Hands
  <2>1. 1 \in 1 .. m /\ 0 \in 0 .. m /\ 1 \in 0 .. m /\ 1 - 1 = 0
    BY <1>1
  <2> QED BY <1>2, <2>1
<1> QED BY <1>3, <1>4, <1>9, <1>10 DEF Fits

LEMMA GoesAllAlong ==
  ASSUME NEW X, NEW t \in Seq(X), NEW a \in Hands, \A x \in X : Does(x, a, a)
  PROVE  Goes(t, a, a)
<1>1. PICK m \in Nat : m = Len(t)
  OBVIOUS
<1>2. PICK h : h = [n \in 0 .. m |-> a]
  OBVIOUS
<1>3. /\ \A n \in 0 .. m : h[n] = a
      /\ \A n \in 1 .. m : h[n] = a /\ h[n - 1] = a /\ t[n] \in X
  BY <1>1, <1>2
<1>4. h[0] = a /\ h[m] = a
  BY <1>3
<1> QED BY <1>1, <1>3, <1>4 DEF Goes

(* The sound of a region, in hands: what each stage takes.                 *)
LEMMA GoesSix ==
  ASSUME NEW t, Len(t) = 6, NEW h, \A n \in 0 .. 6 : h[n] \in Hands,
         Does(t[1], h[0], h[1]), Does(t[2], h[1], h[2]), Does(t[3], h[2], h[3]),
         Does(t[4], h[3], h[4]), Does(t[5], h[4], h[5]), Does(t[6], h[5], h[6])
  PROVE  Goes(t, h[0], h[6])
<1>1. ASSUME NEW n \in 1 .. 6 PROVE Does(t[n], h[n - 1], h[n])
  <2>1. n \in {1, 2, 3, 4, 5, 6}
    OBVIOUS
  <2> QED BY <2>1
<1> QED BY <1>1 DEF Goes

LEMMA FilterRoom ==
  ASSUME NEW x, NEW y, NEW z, NEW c \in Hands, c = <<3, 0>>,
         Does(x, c, c), Does(y, c, c), Does(z, c, c)
  PROVE  Goes(<<Mono, Mono, Mono, x, y, z>>, <<0, 0>>, c)
<1>1. PICK h : h = [n \in 0 .. 6 |-> <<IF n <= 3 THEN n ELSE 3, 0>>]
  OBVIOUS
<1>2. /\ h[0] = <<0, 0>> /\ h[1] = <<1, 0>> /\ h[2] = <<2, 0>>
      /\ h[3] = c /\ h[4] = c /\ h[5] = c /\ h[6] = c
  BY <1>1
<1>3. \A n \in 0 .. 6 : h[n] \in Hands
  BY <1>1 DEF Hands
<1>4. Does(Mono, h[0], h[1]) /\ Does(Mono, h[1], h[2]) /\ Does(Mono, h[2], h[3])
  BY <1>2 DEF Does
<1>5. PICK t : t = <<Mono, Mono, Mono, x, y, z>>
  OBVIOUS
<1>6. Len(t) = 6 /\ t[1] = Mono /\ t[2] = Mono /\ t[3] = Mono /\ t[4] = x /\ t[5] = y /\ t[6] = z
  BY <1>5
<1>7. Goes(t, h[0], h[6])
  BY <1>2, <1>3, <1>4, <1>6, GoesSix
<1> QED BY <1>2, <1>5, <1>7

LEMMA Tuned ==
  ASSUME patch \in Patches, NEW r, NEW n \in {"detune", "modDepth"}, NEW i
  PROVE  ~Swayed(<<r, n, i>>)
<1> SUFFICES ASSUME Swayed(<<r, n, i>>) PROVE FALSE
  OBVIOUS
<1>1. PICK t : t = <<r, n, i>>
  OBVIOUS
<1>2. t \in Targets /\ t[2] \in {"detune", "modDepth"}
  BY <1>1 DEF Swayed
<1>3. PICK c \in patch.feeds[t] : patch.sources[c.source].subs > 0
  BY <1>1, <1>2 DEF Swayed, LowTargets, IsOscillator
<1>4. WellConnected(patch)
  BY RenderAssumption DEF RenderAssumption
<1> QED BY <1>2, <1>3, <1>4, Zenon DEF WellConnected, Targets

LEMMA PitchRoom ==
  ASSUME NEW r, NEW a \in Hands, a[1] <= 3
  PROVE  Goes(PitchEnvelope(r), a, a) /\ \A t : Does(Ask(t), a, a)
<1>1. Does(Scratch(1), a, a) /\ \A t : Does(Ask(t), a, a)
  BY DEF Does, Scratch, Ask, Hands
<1>2. PICK y, t : y = Target(r, "pitch") /\ t = IF Region(r).notePitch THEN <<Scratch(1)>> ELSE <<>>
  OBVIOUS
<1>3. Goes(t, a, a)
  BY <1>1, <1>2, GoesOnce, GoesNowhere
<1>4. Goes(<<y>>, a, a)
  BY <1>1, <1>2, GoesOnce DEF Target
<1>5. PICK X : X = {Scratch(1), y}
  OBVIOUS
<1>6. t \in Seq(X) /\ <<y>> \in Seq(X)
  <2>1. <<Scratch(1)>> \in Seq(X) /\ <<y>> \in Seq(X) /\ <<>> \in Seq(X)
    BY <1>5
  <2> QED BY <1>2, <2>1
<1>7. Goes(t \o <<y>>, a, a)
  BY <1>3, <1>4, <1>6, GoesBoth
<1> QED BY <1>1, <1>2, <1>7 DEF PitchEnvelope

LEMMA AmpRoom == ASSUME NEW r PROVE Fits(AmpStage(r), <<0, 0>>)
<1>1. PICK h : h = [n \in 0 .. 5 |-> <<IF n = 0 THEN 0 ELSE 1, 0>>]
  OBVIOUS
<1>2. h[0] = <<0, 0>> /\ \A n \in 1 .. 5 : h[n] = <<1, 0>>
  BY <1>1
<1>3. \A n \in 0 .. 5 : h[n] \in Hands
  BY <1>1 DEF Hands
<1>4. PICK t : t = AmpStage(r)
  OBVIOUS
<1>5. /\ Len(t) = 5 /\ t[1] = Mono /\ t[2] = Target(r, "masterAmplitude")
      /\ t[3] = Target(r, "amplitude") /\ t[4] = Target(r, "volume") /\ t[5] = Scratch(2)
  BY <1>4 DEF AmpStage
<1>0. <<1, 0>> \in Hands
  BY InHands
<1>6. PICK a \in Hands : a = <<1, 0>>
  BY <1>0
<1>7. Does(Mono, <<0, 0>>, a) /\ Does(Scratch(2), a, a) /\ \A n : Does(Target(r, n), a, a)
  BY <1>6, PitchRoom DEF Does, Scratch, Target
<1>8. ASSUME NEW n \in 1 .. 5 PROVE Does(t[n], h[n - 1], h[n])
  <2>1. n = 1 \/ n = 2 \/ n = 3 \/ n = 4 \/ n = 5
    OBVIOUS
  <2>2. CASE n = 1
    BY <1>2, <1>5, <1>6, <1>7, <2>2
  <2>3. CASE n # 1
    <3>1. h[n - 1] = a /\ h[n] = a
      BY <1>2, <1>6, <2>3
    <3> QED BY <1>5, <1>7, <2>1, <2>3, <3>1
  <2> QED BY <2>2, <2>3
<1>9. Goes(t, <<0, 0>>, a)
  BY <1>2, <1>3, <1>5, <1>6, <1>8 DEF Goes
<1> QED BY <1>4, <1>9 DEF Fits

LEMMA FiltersRoom ==
  ASSUME NEW r, NEW i
  PROVE  Fits(FilterStage(r, i), <<0, 0>>) /\ Fits(EqualizerStage(r, i), <<0, 0>>)
<1>0. <<3, 0>> \in Hands
  BY InHands
<1>1. PICK c \in Hands : c = <<3, 0>>
  BY <1>0
<1>2. \A t : Does(Ask(t), c, c)
  BY <1>1, PitchRoom
<1> QED BY <1>1, <1>2, FilterRoom DEF Fits, FilterStage, EqualizerStage

LEMMA PanRoom == ASSUME NEW r PROVE Fits(PanStage(r), <<0, 0>>)
<1>0. <<0, 0>> \in Hands /\ <<1, 0>> \in Hands
  BY InHands
<1>1. PICK a \in Hands, b \in Hands : a = <<0, 0>> /\ b = <<1, 0>>
  BY <1>0
<1>2. Does(Mono, a, b) /\ \A n : Does(Target(r, n), b, b)
  BY <1>1, PitchRoom DEF Does, Target
<1>3. PICK m, x, y, z : m = Mono /\ x = Target(r, "pan") /\ y = Target(r, "width") /\ z = Target(r, "position")
  OBVIOUS
<1>4. PICK h, k : h = [n \in 0 .. 2 |-> IF n = 0 THEN a ELSE b] /\ k = [n \in 0 .. 2 |-> b]
  OBVIOUS
<1>5. PICK t, u : t = <<m, x>> /\ u = <<y, z>>
  OBVIOUS
<1>6. Goes(t, a, b)
  <2>1. Len(t) = 2 /\ t[1] = m /\ t[2] = x
    BY <1>5
  <2>2. h[0] = a /\ h[1] = b /\ h[2] = b
    BY <1>4
  <2>3. ASSUME NEW n \in 1 .. 2 PROVE Does(t[n], h[n - 1], h[n])
    <3>1. n = 1 \/ n = 2
      OBVIOUS
    <3> QED BY <1>2, <1>3, <2>1, <2>2, <3>1
  <2>4. \A n \in 0 .. 2 : h[n] \in Hands
    BY <1>4
  <2> QED BY <2>1, <2>2, <2>3, <2>4 DEF Goes
<1>7. PICK X : X = {m, x, y, z}
  OBVIOUS
<1>8. t \in Seq(X) /\ u \in Seq(X) /\ <<>> \in Seq(X)
  BY <1>5, <1>7
<1>9. Goes(u, b, b)
  <2>1. u \in Seq({y, z})
    BY <1>5
  <2> QED BY <1>2, <1>3, <2>1, GoesAllAlong
<1>10. PICK v \in Seq(X) : v = IF Region(r).stereo THEN u ELSE <<>>
  BY <1>8
<1>11. Goes(v, b, b)
  BY <1>9, <1>10, GoesNowhere
<1>12. Goes(t \o v, a, b)
  BY <1>6, <1>8, <1>11, GoesBoth
<1>13. PanStage(r) = t \o v
  BY <1>3, <1>5, <1>10, Zenon DEF PanStage
<1> QED BY <1>1, <1>12, <1>13 DEF Fits

LEMMA DiscardRoom == ASSUME NEW r, NEW t \in Seq(DiscardsOf(r)) PROVE Fits(t, <<0, 0>>)
<1>0. <<0, 0>> \in Hands
  BY InHands
<1>1. PICK a \in Hands : a = <<0, 0>>
  BY <1>0
<1>2. \A x \in DiscardsOf(r) : Does(x, a, a)
  BY <1>1 DEF Does, DiscardsOf, Discard
<1>3. PICK X : X = DiscardsOf(r)
  OBVIOUS
<1> QED BY <1>1, <1>2, <1>3, GoesAllAlong DEF Fits

LEMMA GoesThree ==
  ASSUME NEW x, NEW y, NEW z, NEW a \in Hands, NEW b \in Hands, NEW c \in Hands, NEW d \in Hands,
         Does(x, a, b), Does(y, b, c), Does(z, c, d)
  PROVE  Goes(<<x, y, z>>, a, d)
<1>1. PICK h : h = [n \in 0 .. 3 |-> IF n = 0 THEN a ELSE IF n = 1 THEN b ELSE IF n = 2 THEN c ELSE d]
  OBVIOUS
<1>2. h[0] = a /\ h[1] = b /\ h[2] = c /\ h[3] = d
  BY <1>1
<1>3. \A n \in 0 .. 3 : h[n] \in Hands
  BY <1>1
<1>4. PICK t : t = <<x, y, z>>
  OBVIOUS
<1>5. Len(t) = 3 /\ t[1] = x /\ t[2] = y /\ t[3] = z
  BY <1>4
<1>6. ASSUME NEW n \in 1 .. 3 PROVE Does(t[n], h[n - 1], h[n])
  <2>1. n = 1 \/ n = 2 \/ n = 3
    OBVIOUS
  <2> QED BY <1>2, <1>5, <2>1
<1> QED BY <1>2, <1>3, <1>4, <1>5, <1>6 DEF Goes

LEMMA GoesFour ==
  ASSUME NEW x, NEW y, NEW z, NEW w, NEW a \in Hands, NEW b \in Hands, NEW c \in Hands,
         NEW d \in Hands, NEW e \in Hands,
         Does(x, a, b), Does(y, b, c), Does(z, c, d), Does(w, d, e)
  PROVE  Goes(<<x, y, z, w>>, a, e)
<1>1. PICK h : h = [n \in 0 .. 4 |-> IF n = 0 THEN a ELSE IF n = 1 THEN b
                                     ELSE IF n = 2 THEN c ELSE IF n = 3 THEN d ELSE e]
  OBVIOUS
<1>2. h[0] = a /\ h[1] = b /\ h[2] = c /\ h[3] = d /\ h[4] = e
  BY <1>1
<1>3. \A n \in 0 .. 4 : h[n] \in Hands
  BY <1>1
<1>4. PICK t : t = <<x, y, z, w>>
  OBVIOUS
<1>5. Len(t) = 4 /\ t[1] = x /\ t[2] = y /\ t[3] = z /\ t[4] = w
  BY <1>4
<1>6. ASSUME NEW n \in 1 .. 4 PROVE Does(t[n], h[n - 1], h[n])
  <2>1. n = 1 \/ n = 2 \/ n = 3 \/ n = 4
    OBVIOUS
  <2> QED BY <1>2, <1>5, <2>1
<1> QED BY <1>2, <1>3, <1>4, <1>5, <1>6 DEF Goes

LEMMA GoesTwo ==
  ASSUME NEW x, NEW y, NEW a \in Hands, NEW b \in Hands, NEW c \in Hands,
         Does(x, a, b), Does(y, b, c)
  PROVE  Goes(<<x, y>>, a, c)
<1>1. PICK h : h = [n \in 0 .. 2 |-> IF n = 0 THEN a ELSE IF n = 1 THEN b ELSE c]
  OBVIOUS
<1>2. h[0] = a /\ h[1] = b /\ h[2] = c
  BY <1>1
<1>3. \A n \in 0 .. 2 : h[n] \in Hands
  BY <1>1
<1>4. PICK t : t = <<x, y>>
  OBVIOUS
<1>5. Len(t) = 2 /\ t[1] = x /\ t[2] = y
  BY <1>4
<1>6. ASSUME NEW n \in 1 .. 2 PROVE Does(t[n], h[n - 1], h[n])
  <2>1. n = 1 \/ n = 2
    OBVIOUS
  <2> QED BY <1>2, <1>5, <2>1
<1> QED BY <1>2, <1>3, <1>4, <1>5, <1>6 DEF Goes

LEMMA DataRoom ==
  ASSUME NEW v, NEW n, NEW r, r = voice[v].region
  PROVE  Fits(FillWithData(v, n), <<0, 0>>)
<1>1. PICK W : W = StageWords(r)
  OBVIOUS
<1>2. /\ Mono \in W /\ Index \in W /\ Give("mono") \in W /\ Play \in W
      /\ PitchEnvelope(r) \in Seq(W)
  BY <1>1, StageSays
<1>3. PICK m \in W, x \in W : m = Mono /\ x = Index
  BY <1>2
<1>4. /\ <<m, x, m>> \in Seq(W) /\ <<x, x>> \in Seq(W) /\ <<m, m, x>> \in Seq(W) /\ <<>> \in Seq(W)
      /\ <<Give("mono")>> \in Seq(W) /\ <<Play>> \in Seq(W)
  BY <1>2
<1> DEFINE loops == ShouldLoop(Region(r).sample, voice[v].play, Released(v))
           fades == loops /\ LoopPass(Region(r).sample, voice[v].play, n).fades
<1>5. PICK a \in Seq(W) : a = IF loops THEN <<x, x>> ELSE <<>>
  BY <1>4
<1>6. PICK b \in Seq(W) : b = IF fades THEN <<m, m, x>> ELSE <<>>
  BY <1>4
<1>7. PICK c \in Seq(W) : c = PitchEnvelope(r)
  BY <1>2
<1>8. PICK g \in Seq(W), p \in Seq(W) : g = <<Give("mono")>> /\ p = <<Play>>
  BY <1>4
<1>9. FillWithData(v, n) =
        IF n = 0 \/ Region(r).sample.frames = 0 THEN <<>>
        ELSE <<m, x, m>> \o c \o g \o a \o b \o p
  BY <1>3, <1>5, <1>6, <1>7, <1>8, Zenon DEF FillWithData
<1>10. /\ <<0, 0>> \in Hands /\ <<1, 0>> \in Hands /\ <<1, 1>> \in Hands /\ <<2, 1>> \in Hands
       /\ <<1, 2>> \in Hands /\ <<1, 3>> \in Hands /\ <<2, 3>> \in Hands /\ <<3, 3>> \in Hands
       /\ <<3, 4>> \in Hands
  BY InHands
<1>11. Goes(<<m, x, m>>, <<0, 0>>, <<2, 1>>)
  <2>1. Does(m, <<0, 0>>, <<1, 0>>) /\ Does(x, <<1, 0>>, <<1, 1>>) /\ Does(m, <<1, 1>>, <<2, 1>>)
    BY <1>3 DEF Does
  <2> QED BY <1>10, <2>1, GoesThree
<1>12. Goes(c, <<2, 1>>, <<2, 1>>)
  <2>1. <<2, 1>>[1] <= 3
    OBVIOUS
  <2> QED BY <1>7, <1>10, <2>1, PitchRoom
<1>13. Goes(g, <<2, 1>>, <<1, 1>>)
  <2>1. Does(Give("mono"), <<2, 1>>, <<1, 1>>)
    BY DEF Does
  <2> QED BY <1>8, <1>10, <2>1, GoesOnce
<1>14. PICK e \in Hands : Goes(a, <<1, 1>>, e) /\ e = IF loops THEN <<1, 3>> ELSE <<1, 1>>
  <2>1. Goes(<<x, x>>, <<1, 1>>, <<1, 3>>)
    <3>1. Does(x, <<1, 1>>, <<1, 2>>) /\ Does(x, <<1, 2>>, <<1, 3>>)
      BY <1>3 DEF Does
    <3> QED BY <1>10, <3>1, GoesTwo
  <2>2. Goes(<<>>, <<1, 1>>, <<1, 1>>)
    BY <1>10, GoesNowhere
  <2> QED BY <1>5, <1>10, <2>1, <2>2
<1>15. PICK f \in Hands : Goes(b, e, f)
  <2>1. CASE fades
    <3>1. e = <<1, 3>> /\ b = <<m, m, x>>
      BY <1>6, <1>14, <2>1
    <3>2. Does(m, <<1, 3>>, <<2, 3>>) /\ Does(m, <<2, 3>>, <<3, 3>>) /\ Does(x, <<3, 3>>, <<3, 4>>)
      BY <1>3 DEF Does
    <3>3. Goes(<<m, m, x>>, <<1, 3>>, <<3, 4>>)
      BY <1>10, <3>2, GoesThree
    <3> QED BY <1>10, <3>1, <3>3
  <2>2. CASE ~fades
    BY <1>6, <2>2, GoesNowhere
  <2> QED BY <2>1, <2>2
<1>16. Goes(p, f, f)
  <2>1. Does(Play, f, f)
    BY DEF Does, Play
  <2> QED BY <1>8, <2>1, GoesOnce
<1> HIDE DEF loops, fades
<1>17. Goes(<<m, x, m>> \o c, <<0, 0>>, <<2, 1>>)
  BY <1>4, <1>11, <1>12, GoesBoth
<1>18. <<m, x, m>> \o c \in Seq(W)
  BY <1>4
<1>19. PICK s \in Seq(W) : s = <<m, x, m>> \o c
  BY <1>18
<1>20. Goes(s \o g, <<0, 0>>, <<1, 1>>)
  BY <1>13, <1>17, <1>19, GoesBoth
<1>21. s \o g \in Seq(W) /\ s \o g \o a \in Seq(W) /\ s \o g \o a \o b \in Seq(W)
  OBVIOUS
<1>22. Goes(s \o g \o a, <<0, 0>>, e)
  BY <1>14, <1>20, <1>21, GoesBoth
<1>23. Goes(s \o g \o a \o b, <<0, 0>>, f)
  BY <1>15, <1>21, <1>22, GoesBoth
<1>24. Goes(s \o g \o a \o b \o p, <<0, 0>>, f)
  BY <1>16, <1>21, <1>23, GoesBoth
<1>25. Fits(<<>>, <<0, 0>>)
  BY <1>10, GoesNowhere DEF Fits
<1> QED BY <1>9, <1>19, <1>24, <1>25 DEF Fits

LEMMA GeneratorRoom ==
  ASSUME patch \in Patches, NEW r, Region(r).kind \in {"noise", "single", "unison", "modulated"}
  PROVE  Fits(FillWithGenerator(r), <<0, 0>>)
<1>1. PICK W : W = StageWords(r)
  OBVIOUS
<1>2. Mono \in W /\ PitchEnvelope(r) \in Seq(W) /\ Target(r, "detune") \in W /\ Target(r, "modDepth") \in W
  <2>1. \A name \in Names : Target(r, name) \in W
    BY <1>1, StageSays
  <2> QED BY <1>1, <2>1, StageSays DEF Names
<1>3. PICK m \in W, d \in W, e \in W, c \in Seq(W) :
        m = Mono /\ d = Target(r, "detune") /\ e = Target(r, "modDepth") /\ c = PitchEnvelope(r)
  BY <1>2
<1>4. /\ <<0, 0>> \in Hands /\ <<1, 0>> \in Hands /\ <<2, 0>> \in Hands /\ <<3, 0>> \in Hands
      /\ <<4, 0>> \in Hands /\ <<5, 0>> \in Hands
  BY InHands
<1>5. /\ Does(m, <<0, 0>>, <<1, 0>>) /\ Does(m, <<1, 0>>, <<2, 0>>) /\ Does(m, <<2, 0>>, <<3, 0>>)
      /\ Does(m, <<3, 0>>, <<4, 0>>) /\ Does(m, <<4, 0>>, <<5, 0>>)
  BY <1>3 DEF Does
<1>6. \A a : Does(d, a, a) /\ Does(e, a, a)
  BY <1>3, Tuned DEF Does, Target, Ask
<1> DEFINE oscillator ==
             [single |-> <<Mono>>,
              unison |-> <<Mono, Mono, Mono, Target(r, "detune")>>,
              modulated |-> <<Mono, Mono, Target(r, "detune"), Target(r, "modDepth")>>]
<1>7. PICK t : t = oscillator[Region(r).kind]
  OBVIOUS
<1>8. CASE Region(r).kind = "noise"
  BY <1>4, <1>8, GoesNowhere DEF FillWithGenerator, Fits
<1>9. CASE Region(r).kind # "noise"
  <2>1. t \in {<<m>>, <<m, m, m, d>>, <<m, m, d, e>>}
    BY <1>3, <1>7, <1>9
  <2>2. FillWithGenerator(r) = <<m>> \o c \o <<m>> \o t
    BY <1>3, <1>7, <1>9, Zenon DEF FillWithGenerator
  <2>3. \E b \in Hands : Goes(t, <<2, 0>>, b)
    <3>1. Goes(<<m>>, <<2, 0>>, <<3, 0>>)
      BY <1>4, <1>5, GoesOnce
    <3>2. Goes(<<m, m, m, d>>, <<2, 0>>, <<5, 0>>)
      BY <1>4, <1>5, <1>6, GoesFour
    <3>3. Goes(<<m, m, d, e>>, <<2, 0>>, <<4, 0>>)
      BY <1>4, <1>5, <1>6, GoesFour
    <3> QED BY <1>4, <2>1, <3>1, <3>2, <3>3
  <2>4. t \in Seq(W) /\ <<m>> \in Seq(W)
    <3>1. <<m>> \in Seq(W) /\ <<m, m, m, d>> \in Seq(W) /\ <<m, m, d, e>> \in Seq(W)
      OBVIOUS
    <3> QED BY <2>1, <3>1
  <2>5. Goes(<<m>>, <<0, 0>>, <<1, 0>>) /\ Goes(<<m>>, <<1, 0>>, <<2, 0>>)
    BY <1>4, <1>5, GoesOnce
  <2>6. Goes(c, <<1, 0>>, <<1, 0>>)
    <3>1. <<1, 0>>[1] <= 3
      OBVIOUS
    <3> QED BY <1>3, <1>4, <3>1, PitchRoom
  <2>7. PICK o \in Seq(W) : o = <<m>>
    BY <2>4
  <2>8. o \o c \in Seq(W) /\ o \o c \o o \in Seq(W)
    OBVIOUS
  <2>9. Goes(o \o c, <<0, 0>>, <<1, 0>>)
    BY <2>5, <2>6, <2>7, GoesBoth
  <2>10. Goes(o \o c \o o, <<0, 0>>, <<2, 0>>)
    BY <2>5, <2>7, <2>8, <2>9, GoesBoth
  <2>11. \E b : Goes(o \o c \o o \o t, <<0, 0>>, b)
    BY <2>3, <2>4, <2>8, <2>10, GoesBoth
  <2> QED BY <2>2, <2>7, <2>11 DEF Fits
<1> QED BY <1>8, <1>9

(* The call stack of a voice that begins its turn.                         *)
LEMMA StagesUp ==
  ASSUME patch \in Patches, NEW v, NEW r, r = voice[v].region, r \in DOMAIN patch.regions
  PROVE  /\ Len(Stages(v)) \in Nat /\ Len(Stages(v)) > 1
         /\ At(Stages(v), 1) = Discards(r)
         /\ \A k \in 2 .. Len(Stages(v)) :
              /\ At(Stages(v), k).of = "stage" /\ At(Stages(v), k).left = {}
              /\ At(Stages(v), k).todo \in Seq(StageWords(r))
         /\ \A k \in 1 .. Len(Stages(v)) :
              /\ At(Stages(v), k).of = "stage" /\ Fits(At(Stages(v), k).todo, <<0, 0>>)
              /\ At(Stages(v), k).held = [p \in DOMAIN Capacity |-> 0]
<1> DEFINE data == IF Region(r).kind = "sample"
                   THEN FillWithData(v, Most(frames - voice[v].delay, 0))
                   ELSE FillWithGenerator(r)
           filters == [i \in 1 .. Region(r).filters |-> FilterStage(r, i)]
                      \o [i \in 1 .. Region(r).equalizers |-> EqualizerStage(r, i)]
           rest == IF Region(r).stereo THEN <<PanStage(r)>> \o filters
                   ELSE filters \o <<PanStage(r)>>
           stages == <<data, AmpStage(r)>> \o rest
           framed == [i \in DOMAIN stages |-> Frame("stage", i, stages[i], {})]
<1>1. PICK X : X = {t \in Seq(StageWords(r)) : Fits(t, <<0, 0>>)}
  OBVIOUS
<1>2. /\ Region(r).kind \in {"noise", "single", "unison", "modulated", "sample"}
  BY RenderAssumption DEF RenderAssumption, Region
<1>3. PICK m \in Nat, n \in Nat : m = Region(r).filters /\ n = Region(r).equalizers
  BY RenderAssumption DEF RenderAssumption, Region
<1>4. filters \in Seq(X)
  <2>1. \A i \in 1 .. m : FilterStage(r, i) \in X
    BY <1>1, StageSays, FiltersRoom
  <2>2. \A i \in 1 .. n : EqualizerStage(r, i) \in X
    BY <1>1, StageSays, FiltersRoom
  <2>3. [i \in 1 .. m |-> FilterStage(r, i)] \in Seq(X)
    BY <2>1
  <2>4. [i \in 1 .. n |-> EqualizerStage(r, i)] \in Seq(X)
    BY <2>2
  <2> QED BY <1>3, <2>3, <2>4
<1>5. data \in X /\ AmpStage(r) \in X /\ PanStage(r) \in X
  <2>1. /\ FillWithData(v, Most(frames - voice[v].delay, 0)) \in X
        /\ Region(r).kind # "sample" => FillWithGenerator(r) \in X
    BY <1>1, <1>2, DataSays, DataRoom, GeneratorRoom
  <2>2. data \in X
    BY <2>1
  <2> QED BY <1>1, <2>2, StageSays, AmpRoom, PanRoom
<1> HIDE DEF data, filters
<1>6. rest \in Seq(X)
  <2>1. <<PanStage(r)>> \o filters \in Seq(X) /\ filters \o <<PanStage(r)>> \in Seq(X)
    BY <1>4, <1>5
  <2> QED BY <2>1
<1> HIDE DEF rest
<1>7. stages \in Seq(X) /\ Len(stages) \in Nat /\ Len(stages) > 1
  BY <1>5, <1>6
<1> HIDE DEF stages
<1>8. PICK N \in Nat : N = Len(stages) /\ N > 1 /\ DOMAIN stages = 1 .. N
  BY <1>7
<1>9. PICK g : g = framed
  OBVIOUS
<1>10. /\ DOMAIN g = 1 .. N
       /\ \A i \in 1 .. N : /\ g[i].of = "stage" /\ g[i].left = {} /\ g[i].todo \in X
                             /\ g[i].held = [p \in DOMAIN Capacity |-> 0]
  BY <1>7, <1>8, <1>9 DEF Frame
<1>11. PICK Z : g \in Seq(Z) /\ Discards(r) \in Z
  <2>1. g \in Seq({g[i] : i \in 1 .. N} \union {Discards(r)})
    BY <1>8, <1>9, <1>10
  <2> QED BY <2>1
<1>12. PICK w : w = g \o <<Discards(r)>>
  BY Zenon
<1>13. /\ Len(g) = N /\ Len(w) = N + 1 /\ w[N + 1] = Discards(r)
       /\ \A i \in 1 .. N : w[i] = g[i]
  BY <1>10, <1>11, <1>12
<1>14. Stages(v) = w
  BY <1>9, <1>12, Zenon DEF Stages, stages, rest, filters, data
<1>15. At(w, 1) = Discards(r)
  BY <1>13 DEF At
<1>16. ASSUME NEW k \in 2 .. N + 1
       PROVE  /\ At(w, k).of = "stage" /\ At(w, k).left = {} /\ At(w, k).todo \in X
              /\ At(w, k).held = [p \in DOMAIN Capacity |-> 0]
  <2>1. PICK i \in 1 .. N : i = (N + 1) + 1 - k
    OBVIOUS
  <2>2. At(w, k) = g[i]
    BY <1>13, <2>1 DEF At
  <2> QED BY <1>10, <2>2
<1>17. /\ Discards(r).of = "stage" /\ Fits(Discards(r).todo, <<0, 0>>)
       /\ Discards(r).held = [p \in DOMAIN Capacity |-> 0]
  BY DiscardsRise, DiscardRoom DEF Discards, Frame
<1>18. ASSUME NEW k \in 1 .. N + 1
       PROVE  /\ At(w, k).of = "stage" /\ Fits(At(w, k).todo, <<0, 0>>)
              /\ At(w, k).held = [p \in DOMAIN Capacity |-> 0]
  <2>1. k = 1 \/ k \in 2 .. N + 1
    OBVIOUS
  <2> QED BY <1>1, <1>15, <1>16, <1>17, <2>1
<1> QED BY <1>1, <1>8, <1>13, <1>14, <1>15, <1>16, <1>18


-----------------------------------------------------------------------------
(* The steps of the stack, and what has moved on.                          *)
LEMMA SteadyDiscards == ASSUME Still PROVE DiscardsOf(currentRegion)' = DiscardsOf(currentRegion)
BY Steady, Zenon DEF Still, DiscardsOf

(* A step above the generator that is being discarded, or above the stage  *)
(* that is rendered, leaves the order of the discarded alone.              *)
LEMMA OrderStays ==
  ASSUME StackOK, Still, Height \in Nat, Height' \in Nat, Height > 1, Height' > 1,
         Level(1)' = Level(1), Level(2)'.of = Level(2).of, Level(2)'.what = Level(2).what
  PROVE  Bottom' /\ InOrder' /\ \A s : Waits(s)' = Waits(s)
<1>1. /\ PerVoice(currentRegion)' = PerVoice(currentRegion)
      /\ DiscardsOf(currentRegion)' = DiscardsOf(currentRegion)
  BY Steady, SteadyDiscards
<1>2. Bottom'
  BY <1>1 DEF StackOK, Bottom
<1>3. \A s : Pending(s)' = Pending(s) /\ Discarded(s)' = Discarded(s)
  BY DEF Pending, Discarded
<1>4. \A s : Waits(s)' = Waits(s)
  BY <1>3 DEF Waits
<1>5. InOrder'
  <2>1. /\ \A s, e \in PerVoice(currentRegion) : ~Pending(s) /\ Pending(e) => s < e
        /\ \/ Level(2).of = "stage" /\ \A s \in PerVoice(currentRegion) : Pending(s)
           \/ /\ Level(2).of = "discard" /\ Level(2).what \in PerVoice(currentRegion)
              /\ ~Pending(Level(2).what)
              /\ \A s \in PerVoice(currentRegion) : ~Waits(s) => s < Level(2).what
    BY DEF StackOK, InOrder
  <2>2. PICK P : P = PerVoice(currentRegion) /\ P = PerVoice(currentRegion)'
    BY <1>1
  <2>3. \A s, e \in P : ~Pending(s)' /\ Pending(e)' => s < e
    BY <1>3, <2>1, <2>2
  <2>4. \/ Level(2)'.of = "stage" /\ \A s \in P : Pending(s)'
        \/ \E d \in P : /\ Level(2)'.of = "discard" /\ Level(2)'.what = d /\ ~Pending(d)'
                       /\ \A s \in P : ~Waits(s)' => s < d
    BY <1>3, <1>4, <2>1, <2>2
  <2> QED BY <2>2, <2>3, <2>4 DEF InOrder
<1> QED BY <1>2, <1>4, <1>5

LEMMA CountsStay ==
  ASSUME CountOK, Still, UNCHANGED <<readySources, runs>>, \A s : Waits(s)' = Waits(s)
  PROVE  CountOK'
<1>1. /\ Sources' = Sources /\ PerCycle' = PerCycle
      /\ PerVoice(currentRegion)' = PerVoice(currentRegion)
      /\ \A s : IsOscillator(s)' = IsOscillator(s)
      /\ currentVoice' = currentVoice /\ cycle' = cycle
  BY Steady DEF Still
<1>2. \A s : Ones(s)' = Ones(s) /\ AskedLate(s)' = AskedLate(s)
  BY <1>1 DEF Ones, AskedLate
<1> QED BY <1>1, <1>2 DEF CountOK, Counted, CountedCycle

LEMMA SameKind ==
  ASSUME NEW f, NEW g, g.of = f.of, g.what = f.what
  PROVE  /\ IsGenerator(g) <=> IsGenerator(f)
         /\ Outer(g) <=> Outer(f)
         /\ Inner(g) <=> Inner(f)
BY DEF IsGenerator, Outer, Inner

(* The function on top goes on.                                            *)
LEMMA Replacing ==
  ASSUME AInv, IInv', Still, UNCHANGED <<readySources, runs>>, Height > 1,
         NEW g, work' = With(g), Good(g), g.of = Top.of, g.what = Top.what
  PROVE  AInv'
<1>1. IsStack(work) /\ work # <<>>
  BY DEF AInv, IInv, TurnOK, Height
<1>2. PICK n \in Nat : n = Height /\ n > 1
  BY <1>1, AtReplaced
<1>3. /\ Level(n) = Top /\ Height' = n /\ Level(n)' = g
      /\ \A k \in 1 .. n - 1 : Level(k)' = Level(k)
  BY <1>1, <1>2, AtReplaced DEF Height, Level
<1>4. \A k \in 1 .. n : Level(k)'.of = Level(k).of /\ Level(k)'.what = Level(k).what
  <2> SUFFICES ASSUME NEW k \in 1 .. n
               PROVE  Level(k)'.of = Level(k).of /\ Level(k)'.what = Level(k).what
    OBVIOUS
  <2>1. CASE k = n
    BY <1>3, <2>1
  <2>2. CASE k # n
    BY <1>3, <2>2
  <2> QED BY <2>1, <2>2
<1>5. Level(1)' = Level(1)
  BY <1>2, <1>3
<1>6. Bottom' /\ InOrder' /\ CountOK'
  BY <1>2, <1>3, <1>4, <1>5, OrderStays, CountsStay DEF AInv
<1>7. ASSUME NEW k \in 2 .. n PROVE Good(Level(k)')
  <2>1. CASE k = n
    BY <1>3, <2>1
  <2>2. CASE k # n
    BY <1>2, <1>3, <2>2 DEF AInv, StackOK
  <2> QED BY <2>1, <2>2
<1>8. \A k \in 2 .. Height' : Good(Level(k))'
  BY <1>3, <1>7, Steady
<1>9. Nested'
  <2> SUFFICES ASSUME NEW j \in 2 .. n, NEW k \in 2 .. n, j < k
               PROVE  /\ IsGenerator(Level(j)') => IsOscillator(Level(j)'.what)
                      /\ Outer(Level(j)') => Inner(Level(k)')
                      /\ Level(k)'.of # "discard"
    BY <1>3, Steady, Zenon DEF Nested, IsGenerator
  <2>1. /\ IsGenerator(Level(j)) => IsOscillator(Level(j).what)
        /\ Outer(Level(j)) => Inner(Level(k))
        /\ Level(k).of # "discard"
    BY <1>2 DEF AInv, StackOK, Nested
  <2> QED BY <1>4, <2>1, SameKind, Steady
<1>10. Making'
  <2> SUFFICES ASSUME NEW k \in 2 .. n, IsGenerator(Level(k)') PROVE Level(k)'.what \notin readySources
    BY <1>3 DEF Making, IsGenerator
  <2> QED BY <1>2, <1>4, SameKind DEF AInv, StackOK, Making
<1> QED BY <1>6, <1>8, <1>9, <1>10 DEF AInv, StackOK

(* The function on top calls another.                                      *)
LEMMA Pushing ==
  ASSUME AInv, IInv', Still, UNCHANGED <<readySources, runs>>, Height > 1,
         NEW g, DOMAIN g = Fields, Good(g), g.of = Top.of, g.what = Top.what,
         NEW f, work' = <<f>> \o With(g), Good(f), f.of # "discard",
         IsGenerator(f) => f.what \notin readySources,
         IsGenerator(Top) => IsOscillator(Top.what), Outer(Top) => Inner(f)
  PROVE  AInv'
<1>1. IsStack(work) /\ work # <<>>
  BY DEF AInv, IInv, TurnOK, Height
<1>2. PICK n \in Nat : n = Height /\ n > 1
  BY <1>1, AtReplaced
<1>3. /\ Level(n) = Top /\ Height' = n + 1 /\ Level(n + 1)' = f /\ Level(n)' = g
      /\ \A k \in 1 .. n - 1 : Level(k)' = Level(k)
  BY <1>1, <1>2, AtReplaced, AtCalled DEF Height, Level
<1>4. \A k \in 1 .. n : Level(k)'.of = Level(k).of /\ Level(k)'.what = Level(k).what
  <2> SUFFICES ASSUME NEW k \in 1 .. n
               PROVE  Level(k)'.of = Level(k).of /\ Level(k)'.what = Level(k).what
    OBVIOUS
  <2>1. CASE k = n
    BY <1>3, <2>1
  <2>2. CASE k # n
    BY <1>3, <2>2
  <2> QED BY <2>1, <2>2
<1>5. Level(1)' = Level(1)
  BY <1>2, <1>3
<1>6. Bottom' /\ InOrder' /\ CountOK'
  BY <1>2, <1>3, <1>4, <1>5, OrderStays, CountsStay DEF AInv
<1>7. ASSUME NEW k \in 2 .. n + 1 PROVE Good(Level(k)')
  <2>1. CASE k = n \/ k = n + 1
    BY <1>3, <2>1
  <2>2. CASE ~(k = n \/ k = n + 1)
    BY <1>2, <1>3, <2>2 DEF AInv, StackOK
  <2> QED BY <2>1, <2>2
<1>8. \A k \in 2 .. Height' : Good(Level(k))'
  BY <1>3, <1>7, Steady
<1>9. Nested'
  <2> SUFFICES ASSUME NEW j \in 2 .. n + 1, NEW k \in 2 .. n + 1, j < k
               PROVE  /\ IsGenerator(Level(j)') => IsOscillator(Level(j)'.what)
                      /\ Outer(Level(j)') => Inner(Level(k)')
                      /\ Level(k)'.of # "discard"
    BY <1>3, Steady, Zenon DEF Nested, IsGenerator
  <2>1. j \in 2 .. n
    OBVIOUS
  <2>2. CASE k = n + 1
    <3>1. IsGenerator(Level(j)) => IsOscillator(Level(j).what)
      <4>1. CASE j = n
        BY <1>3, <4>1
      <4>2. CASE j # n
        BY <1>2, <2>1, <4>2 DEF AInv, StackOK, Nested
      <4> QED BY <4>1, <4>2
    <3>2. Outer(Level(j)) => Outer(Top)
      <4>1. CASE j = n
        BY <1>3, <4>1
      <4>2. CASE j # n
        <5>1. Outer(Level(j)) => Inner(Top)
          BY <1>2, <1>3, <2>1, <4>2 DEF AInv, StackOK, Nested
        <5>2. Inner(Top) => Outer(Top)
          BY DEF Inner, Outer, IsGenerator
        <5> QED BY <5>1, <5>2
      <4> QED BY <4>1, <4>2
    <3> QED BY <1>3, <1>4, <2>1, <2>2, <3>1, <3>2, SameKind, Steady
  <2>3. CASE k # n + 1
    <3>1. k \in 2 .. n
      BY <2>3
    <3>2. /\ IsGenerator(Level(j)) => IsOscillator(Level(j).what)
          /\ Outer(Level(j)) => Inner(Level(k))
          /\ Level(k).of # "discard"
      BY <1>2, <2>1, <3>1 DEF AInv, StackOK, Nested
    <3> QED BY <1>4, <2>1, <3>1, <3>2, SameKind, Steady
  <2> QED BY <2>2, <2>3
<1>10. Making'
  <2> SUFFICES ASSUME NEW k \in 2 .. n + 1, IsGenerator(Level(k)') PROVE Level(k)'.what \notin readySources
    BY <1>3 DEF Making, IsGenerator
  <2>1. CASE k = n + 1
    BY <1>3, <2>1
  <2>2. CASE k # n + 1
    BY <1>2, <1>4, <2>2, SameKind DEF AInv, StackOK, Making
  <2> QED BY <2>1, <2>2
<1> QED BY <1>6, <1>8, <1>9, <1>10 DEF AInv, StackOK

LEMMA Numbered ==
  ASSUME patch \in Patches, NEW r
  PROVE  PerVoice(r) \subseteq Nat /\ PerVoice(r) \cap PerCycle = {}
<1>1. Len(patch.sources) \in Nat /\ Sources = 1 .. Len(patch.sources)
  BY RenderAssumption DEF RenderAssumption, Sources
<1> QED BY <1>1 DEF PerVoice, PerCycle

(* endVoice, between the generators that it discards.                      *)
LEMMA AtBottom ==
  ASSUME AInv, work # <<>>, ~(Height > 1)
  PROVE  /\ Height = 1 /\ Level(1) = Top /\ Top.of = "stage" /\ Top.left = {}
         /\ Top.todo \in Seq(DiscardsOf(currentRegion)) /\ Rising(Top.todo)
         /\ Top.todo # <<>> => Head(Top.todo)[1] = "discard" /\ Arg \in PerVoice(currentRegion)
<1>1. Height = 1 /\ Level(1) = Top
  BY AtReplaced DEF AInv, IInv, TurnOK
<1>2. /\ Top.of = "stage" /\ Top.left = {}
      /\ Top.todo \in Seq(DiscardsOf(currentRegion)) /\ Rising(Top.todo)
  BY <1>1 DEF AInv, StackOK, Bottom
<1>3. ASSUME Top.todo # <<>> PROVE Head(Top.todo)[1] = "discard" /\ Arg \in PerVoice(currentRegion)
  <2>1. Head(Top.todo) \in DiscardsOf(currentRegion)
    <3>1. PICK Y : Y = DiscardsOf(currentRegion)
      OBVIOUS
    <3>2. Head(Top.todo) \in Y
      BY <1>2, <1>3, <3>1
    <3> QED BY <3>1, <3>2
  <2> QED BY <2>1 DEF DiscardsOf, Discard, Arg
<1> QED BY <1>1, <1>2, <1>3

LEMMA PendingLess ==
  ASSUME AInv, work # <<>>, ~(Height > 1), Top.todo # <<>>, Still,
         Height' \in Nat, Height' > 0, Level(1)' = Onward, NEW e, e = Arg
  PROVE  /\ Bottom'
         /\ Pending(e) /\ ~Pending(e)'
         /\ \A s \in PerVoice(currentRegion) :
              /\ s # e => (Pending(s)' <=> Pending(s))
              /\ Pending(s)' => e < s
<1>1. /\ Height = 1 /\ Level(1) = Top /\ Top.of = "stage" /\ Top.left = {} /\ Rising(Top.todo)
      /\ Top.todo \in Seq(DiscardsOf(currentRegion))
  BY AtBottom
<1>2. PICK Y : Y = DiscardsOf(currentRegion)
  OBVIOUS
<1>3. PICK t \in Seq(Y) : t = Top.todo /\ t # <<>>
  BY <1>1, <1>2
<1>4. PICK u : u = Tail(t)
  OBVIOUS
<1>5. PICK m \in Nat : m = Len(t) /\ m > 0 /\ DOMAIN t = 1 .. m
  BY <1>3
<1>6. u \in Seq(Y) /\ DOMAIN u = 1 .. m - 1 /\ \A i \in 1 .. m - 1 : u[i] = t[i + 1]
  BY <1>3, <1>4, <1>5
<1>7. Onward.of = "stage" /\ Onward.left = {} /\ Onward.todo = u
  <2>1. DOMAIN Top = Fields
    BY Popped DEF AInv, IInv, TurnOK, Top
  <2> QED BY <1>1, <1>3, <1>4, <2>1 DEF Onward, Fields
<1>8. Rising(u)
  <2>1. \A i, j \in 1 .. m : i < j => t[i][2] < t[j][2]
    BY <1>1, <1>3, <1>5 DEF Rising
  <2>2. ASSUME NEW i \in 1 .. m - 1, NEW j \in 1 .. m - 1, i < j PROVE u[i][2] < u[j][2]
    <3>1. i + 1 \in 1 .. m /\ j + 1 \in 1 .. m /\ i + 1 < j + 1
      BY <2>2
    <3> QED BY <1>6, <2>1, <3>1
  <2> QED BY <1>6, <2>2 DEF Rising
<1>9. Bottom'
  BY <1>2, <1>6, <1>7, <1>8, SteadyDiscards DEF Bottom
<1>10. ASSUME NEW s
       PROVE  /\ Pending(s) <=> \E i \in 1 .. m : t[i] = Discard(s)
              /\ Pending(s)' <=> \E i \in 1 .. m - 1 : t[i + 1] = Discard(s)
  <2>1. PICK d : d = Discard(s)
    OBVIOUS
  <2>2. Pending(s) <=> \E i \in 1 .. m : t[i] = d
    BY <1>1, <1>3, <1>5, <2>1 DEF Pending
  <2>3. Pending(s)' <=> \E i \in 1 .. m - 1 : u[i] = d
    BY <1>6, <1>7, <2>1 DEF Pending
  <2>4. (\E i \in 1 .. m - 1 : u[i] = d) <=> \E i \in 1 .. m - 1 : t[i + 1] = d
    BY <1>6
  <2> QED BY <2>1, <2>2, <2>3, <2>4
<1>11. t[1] = Discard(e)
  <2>1. t[1] \in Y /\ e = t[1][2]
    BY <1>3, <1>5 DEF Arg
  <2> QED BY <1>2, <2>1 DEF DiscardsOf, Discard
<1>12. ASSUME NEW s, Pending(s)' PROVE e < s
  <2>1. PICK i \in 1 .. m - 1 : t[i + 1] = Discard(s)
    BY <1>10, <1>12
  <2>2. 1 \in 1 .. m /\ i + 1 \in 1 .. m /\ 1 < i + 1
    OBVIOUS
  <2>3. t[1][2] < t[i + 1][2]
    BY <1>1, <1>3, <1>5, <2>2 DEF Rising
  <2> QED BY <1>11, <2>1, <2>3 DEF Discard
<1>13. e \in Nat
  BY <1>1, <1>3, AtBottom, Numbered DEF AInv, IInv, VoicesOK
<1>14. Pending(e) /\ ~Pending(e)'
  <2>1. 1 \in 1 .. m
    BY <1>5
  <2>2. ~(e < e)
    BY <1>13
  <2> QED BY <1>10, <1>11, <1>12, <2>1, <2>2
<1>15. ASSUME NEW s, s # e PROVE Pending(s)' <=> Pending(s)
  <2>1. ASSUME NEW i \in 1 .. m, t[i] = Discard(s) PROVE \E j \in 1 .. m - 1 : t[j + 1] = Discard(s)
    <3>1. i # 1
      BY <1>11, <1>15, <2>1 DEF Discard
    <3>2. i - 1 \in 1 .. m - 1 /\ (i - 1) + 1 = i
      BY <3>1
    <3> QED BY <2>1, <3>2
  <2>2. \A j \in 1 .. m - 1 : j + 1 \in 1 .. m
    OBVIOUS
  <2> QED BY <1>10, <2>1, <2>2
<1> QED BY <1>9, <1>12, <1>14, <1>15

(* What is ready needs no discarding.                                      *)
LEMMA DiscardingNone ==
  ASSUME AInv, IInv', Still, UNCHANGED <<readySources, runs>>,
         work # <<>>, ~(Height > 1), Top.todo # <<>>, Arg \in readySources, work' = Resumed
  PROVE  AInv'
<1>0. PICK e : e = Arg
  OBVIOUS
<1>1. Height = 1
  BY AtBottom
<1>2. Height' = 1 /\ Level(1)' = Onward
  BY <1>1, AtReplaced DEF AInv, IInv, TurnOK, Resumed, Height, Level
<1>3. PICK P : P = PerVoice(currentRegion) /\ P = PerVoice(currentRegion)'
  BY Steady
<1>4. /\ Bottom' /\ Pending(e) /\ ~Pending(e)' /\ e \in P
      /\ \A s \in P : /\ s # e => (Pending(s)' <=> Pending(s))
                      /\ Pending(s)' => e < s
  BY <1>0, <1>2, <1>3, AtBottom, PendingLess
<1>5. \A s : (Waits(s) <=> Pending(s)) /\ (Waits(s)' <=> Pending(s)')
  BY <1>1, <1>2 DEF Waits, Discarded
<1>6. InOrder'
  <2>1. \A s, d \in P : ~Pending(s) /\ Pending(d) => s < d
    BY <1>1, <1>3 DEF AInv, StackOK, InOrder
  <2>2. \A s, d \in P : ~Pending(s)' /\ Pending(d)' => s < d
    BY <1>4, <2>1
  <2> QED BY <1>2, <1>3, <2>2 DEF InOrder
<1>7. CountOK'
  <2>1. /\ Sources' = Sources /\ PerCycle' = PerCycle
        /\ \A s : IsOscillator(s)' = IsOscillator(s)
        /\ currentVoice' = currentVoice /\ cycle' = cycle
    BY Steady DEF Still
  <2>2. \A s : Ones(s)' = Ones(s) /\ AskedLate(s)' = AskedLate(s)
    BY <1>3, <2>1 DEF Ones, AskedLate
  <2>3. Ones(e) = 1
    BY <1>0 DEF Ones
  <2>4. DOMAIN runs' = Sources' /\ CountedCycle'
    BY <2>1, <2>2 DEF AInv, CountOK, CountedCycle
  <2>5. Counted'
    <3> SUFFICES ASSUME currentVoice # Nobody, NEW s \in P
                 PROVE  IF Waits(s)' THEN runs[s] = Ones(s)
                        ELSE runs[s] = 1 \/ (runs[s] = 2 /\ AskedLate(s))
      BY <1>3, <2>1, <2>2 DEF Counted
    <3>1. IF Waits(s) THEN runs[s] = Ones(s)
          ELSE runs[s] = 1 \/ (runs[s] = 2 /\ AskedLate(s))
      BY <1>3 DEF AInv, CountOK, Counted
    <3> QED BY <1>4, <1>5, <2>3, <3>1
  <2> QED BY <2>4, <2>5 DEF CountOK
<1> QED BY <1>2, <1>4, <1>6, <1>7 DEF AInv, StackOK, Nested, Making

LEMMA Discarding ==
  ASSUME AInv, IInv', Still, UNCHANGED <<readySources, runs>>,
         work # <<>>, ~(Height > 1), Top.todo # <<>>, Arg \notin readySources,
         work' = Calling(Frame("discard", Arg, Generator(Arg), {}))
  PROVE  AInv'
<1>0. PICK e : e = Arg
  OBVIOUS
<1>1. Height = 1
  BY AtBottom
<1>2. PICK f : f = Frame("discard", Arg, Generator(Arg), {})
  OBVIOUS
<1>3. Height' = 2 /\ Level(1)' = Onward /\ Level(2)' = f
  BY <1>1, <1>2, AtCalled, OnwardSame DEF AInv, IInv, TurnOK, Calling, Resumed, Height, Level
<1>4. PICK P : P = PerVoice(currentRegion) /\ P = PerVoice(currentRegion)'
  BY Steady
<1>5. /\ Bottom' /\ Pending(e) /\ ~Pending(e)' /\ e \in P
      /\ \A s \in P : /\ s # e => (Pending(s)' <=> Pending(s))
                      /\ Pending(s)' => e < s
  BY <1>0, <1>3, <1>4, AtBottom, PendingLess
<1>6. f.of = "discard" /\ f.what = e /\ f.todo = Generator(e) /\ f.left = {}
  BY <1>0, <1>2 DEF Frame
<1>7. Good(f)
  <2>1. e \in Sources /\ e \in Own
    BY <1>4, <1>5 DEF PerVoice, Own
  <2>2. /\ Generator(e) \in Seq(OscillatorWords(e))
        /\ ~IsOscillator(e) => Generator(e) = <<>>
    BY <2>1, GeneratorSays DEF AInv, IInv, VoicesOK
  <2> QED BY <1>6, <2>1, <2>2 DEF Good, GoodGenerator, IsGenerator
<1>8. \A k \in 2 .. Height' : Good(Level(k))'
  <2>1. Good(f)'
    BY <1>7, Steady
  <2> QED BY <1>3, <2>1
<1>9. \A s \in P : (Waits(s) <=> Pending(s)) /\ (Waits(s)' <=> Pending(s))
  BY <1>1, <1>3, <1>5, <1>6 DEF Waits, Discarded
<1>10. InOrder'
  <2>1. \A s, d \in P : ~Pending(s) /\ Pending(d) => s < d
    BY <1>1, <1>4 DEF AInv, StackOK, InOrder
  <2>2. \A s, d \in P : ~Pending(s)' /\ Pending(d)' => s < d
    BY <1>5, <2>1
  <2>4. ~Pending(e)' /\ \A s \in P : ~Waits(s)' => s < e
    BY <1>5, <1>9, <2>1
  <2>5. Level(2)'.of = "discard" /\ Level(2)'.what = e
    BY <1>0, <1>3, <1>6
  <2> QED BY <1>3, <1>4, <1>5, <2>2, <2>4, <2>5 DEF InOrder
<1>11. CountOK'
  <2>1. /\ Sources' = Sources /\ PerCycle' = PerCycle
        /\ \A s : IsOscillator(s)' = IsOscillator(s)
        /\ currentVoice' = currentVoice /\ cycle' = cycle
    BY Steady DEF Still
  <2>2. \A s : Ones(s)' = Ones(s) /\ AskedLate(s)' = AskedLate(s)
    BY <1>4, <2>1 DEF Ones, AskedLate
  <2> QED BY <1>4, <1>9, <2>1, <2>2 DEF AInv, CountOK, Counted, CountedCycle
<1>12. Nested' /\ Making'
  <2>1. \A k \in 2 .. 2 : k = 2
    OBVIOUS
  <2>2. Level(2)'.what \notin readySources'
    BY <1>0, <1>3, <1>6
  <2>3. Nested'
    BY <1>3, <2>1 DEF Nested
  <2>4. Making'
    BY <1>3, <2>1, <2>2 DEF Making
  <2> QED BY <2>3, <2>4
<1> QED BY <1>5, <1>8, <1>10, <1>11, <1>12 DEF AInv, StackOK

(* endVoice returns: every generator has moved on.                         *)
LEMMA TurnEnds ==
  ASSUME AInv, IInv', Still, Return, ~(Height > 1)
  PROVE  AInv'
<1>1. work # <<>> /\ Top.todo = <<>> /\ work' = Tail(work)
  BY DEF Return
<1>2. Height = 1 /\ Level(1) = Top /\ Top.of = "stage"
  BY <1>1, AtBottom
<1>3. Height' = 0
  BY <1>1, <1>2, AtPopped DEF AInv, IInv, TurnOK, Height
<1>4. UNCHANGED <<readySources, runs>>
  BY <1>2 DEF Return
<1>5. \A s : ~Waits(s) /\ ~Waits(s)'
  BY <1>1, <1>2, <1>3 DEF Waits, Pending, Discarded
<1>6. CountOK'
  <2>1. \A s : Waits(s) \in BOOLEAN /\ Waits(s)' \in BOOLEAN
    BY DEF Waits
  <2> QED BY <1>4, <1>5, <2>1, CountsStay DEF AInv
<1> QED BY <1>3, <1>6 DEF AInv, StackOK, Bottom, Nested, Making, InOrder

(* The stack below the function that returns.                              *)
LEMMA Uncovered ==
  ASSUME AInv, Still, Return, Height > 1, NEW n, n = Height
  PROVE  /\ n \in Nat /\ n > 1 /\ Level(n) = Top /\ Height' = n - 1
         /\ \A k \in 1 .. n - 1 : Level(k)' = Level(k)
         /\ \A k \in 2 .. Height' : Good(Level(k))'
         /\ Nested'
<1>1. IsStack(work) /\ work # <<>> /\ work' = Tail(work)
  BY DEF Return, AInv, IInv, TurnOK
<1>2. n \in Nat /\ n > 1 /\ Level(n) = Top
  BY <1>1, AtReplaced
<1>3. Height' = n - 1 /\ \A k \in 1 .. n - 1 : Level(k)' = Level(k)
  BY <1>1, <1>2, AtPopped DEF Height, Level
<1>4. \A k \in 2 .. Height' : Good(Level(k))'
  <2>1. \A k \in 2 .. n - 1 : Good(Level(k)')
    BY <1>2, <1>3 DEF AInv, StackOK
  <2> QED BY <1>3, <2>1, Steady
<1>5. Nested'
  <2> SUFFICES ASSUME NEW j \in 2 .. n - 1, NEW k \in 2 .. n - 1, j < k
               PROVE  /\ IsGenerator(Level(j)') => IsOscillator(Level(j)'.what)
                      /\ Outer(Level(j)') => Inner(Level(k)')
                      /\ Level(k)'.of # "discard"
    BY <1>3, Steady, Zenon DEF Nested, IsGenerator
  <2>1. j \in 2 .. n /\ k \in 2 .. n /\ Level(j)' = Level(j) /\ Level(k)' = Level(k)
    BY <1>2, <1>3
  <2> QED BY <1>2, <2>1 DEF AInv, StackOK, Nested
<1> QED BY <1>2, <1>3, <1>4, <1>5

(* The matrix, or the stages of the voice, have nothing to count.          *)
LEMMA PlainReturns ==
  ASSUME AInv, IInv', Still, Return, Height > 1, ~IsGenerator(Top)
  PROVE  AInv'
<1>1. PICK n : n = Height
  OBVIOUS
<1>2. /\ n \in Nat /\ n > 1 /\ Level(n) = Top /\ Height' = n - 1
      /\ \A k \in 1 .. n - 1 : Level(k)' = Level(k)
      /\ \A k \in 2 .. Height' : Good(Level(k))'
      /\ Nested'
  BY <1>1, Uncovered
<1>3. UNCHANGED <<readySources, runs>>
  BY DEF Return, IsGenerator
<1>4. Making'
  <2>1. \A k \in 2 .. n - 1 : Level(k)' = Level(k) /\ k \in 2 .. n
    BY <1>2
  <2> QED BY <1>1, <1>2, <1>3, <2>1 DEF AInv, StackOK, Making, IsGenerator
<1>5. Level(1)' = Level(1)
  BY <1>2
<1>6. Bottom' /\ InOrder' /\ \A s : Waits(s)' = Waits(s)
  <2>1. CASE n > 2
    <3>1. 2 \in 1 .. n - 1
      BY <1>2, <2>1
    <3>2. Level(2)' = Level(2)
      BY <1>2, <3>1
    <3> QED BY <1>1, <1>2, <1>5, <2>1, <3>2, OrderStays DEF AInv
  <2>2. CASE n = 2
    <3>1. /\ PerVoice(currentRegion)' = PerVoice(currentRegion)
          /\ DiscardsOf(currentRegion)' = DiscardsOf(currentRegion)
      BY Steady, SteadyDiscards
    <3>2. \A s : (Pending(s)' <=> Pending(s)) /\ ~Discarded(s) /\ ~Discarded(s)'
      BY <1>1, <1>2, <1>5, <2>2 DEF Pending, Discarded, IsGenerator
    <3>3. Bottom'
      BY <1>1, <1>2, <1>5, <2>2, <3>1 DEF AInv, StackOK, Bottom
    <3>4. InOrder'
      BY <1>1, <1>2, <2>2, <3>1, <3>2 DEF AInv, StackOK, InOrder
    <3>5. ASSUME NEW s PROVE Waits(s)' = Waits(s)
      <4>1. Waits(s) <=> Pending(s)
        BY <3>2 DEF Waits
      <4>2. Waits(s)' <=> Pending(s)'
        BY <3>2 DEF Waits
      <4>3. Waits(s) \in BOOLEAN /\ Waits(s)' \in BOOLEAN
        BY DEF Waits
      <4> QED BY <3>2, <4>1, <4>2, <4>3
    <3> QED BY <3>3, <3>4, <3>5
  <2> QED BY <1>2, <2>1, <2>2
<1>7. CountOK'
  BY <1>3, <1>6, CountsStay DEF AInv
<1> QED BY <1>2, <1>4, <1>6, <1>7 DEF AInv, StackOK

(* A generator that nobody asked for has moved on.                         *)
LEMMA DiscardedReturns ==
  ASSUME AInv, IInv', Still, Return, Height > 1, Top.of = "discard"
  PROVE  AInv'
<1>1. PICK n : n = Height
  OBVIOUS
<1>2. /\ n \in Nat /\ n > 1 /\ Level(n) = Top /\ Height' = n - 1
      /\ \A k \in 1 .. n - 1 : Level(k)' = Level(k)
      /\ \A k \in 2 .. Height' : Good(Level(k))'
      /\ Nested'
  BY <1>1, Uncovered
<1>3. n = 2
  <2> SUFFICES ASSUME n > 2 PROVE FALSE
    BY <1>2
  <2>1. 2 \in 2 .. n /\ n \in 2 .. n /\ 2 < n
    BY <1>2
  <2> QED BY <1>1, <1>2, <2>1 DEF AInv, StackOK, Nested
<1>4. PICK d : d = Top.what
  OBVIOUS
<1>5. UNCHANGED readySources /\ runs' = [runs EXCEPT ![d] = @ + 1]
  BY <1>4 DEF Return
<1>6. PICK P : P = PerVoice(currentRegion) /\ P = PerVoice(currentRegion)'
  BY Steady
<1>7. /\ d \in P /\ ~Pending(d) /\ d \notin readySources
      /\ \A s, e \in P : ~Pending(s) /\ Pending(e) => s < e
  <2>1. /\ d \in P /\ ~Pending(d) /\ \A s, e \in P : ~Pending(s) /\ Pending(e) => s < e
    BY <1>1, <1>2, <1>3, <1>4, <1>6 DEF AInv, StackOK, InOrder
  <2>2. 2 \in 2 .. Height
    BY <1>1, <1>3
  <2>3. d \notin readySources
    BY <1>2, <1>3, <1>4, <2>2 DEF AInv, StackOK, Making, IsGenerator
  <2> QED BY <2>1, <2>3
<1>8. /\ Sources' = Sources /\ PerCycle' = PerCycle
      /\ DiscardsOf(currentRegion)' = DiscardsOf(currentRegion)
      /\ \A s : IsOscillator(s)' = IsOscillator(s)
      /\ currentVoice' = currentVoice /\ cycle' = cycle
  BY Steady, SteadyDiscards DEF Still
<1>9. Height' = 1 /\ Level(1)' = Level(1)
  BY <1>2, <1>3
<1>10. \A s : /\ Pending(s)' <=> Pending(s)
              /\ Waits(s) <=> (Pending(s) \/ s = d)
              /\ Waits(s)' <=> Pending(s)
  BY <1>1, <1>2, <1>3, <1>4, <1>9 DEF Pending, Waits, Discarded
<1>11. Bottom'
  BY <1>1, <1>3, <1>8, <1>9 DEF AInv, StackOK, Bottom
<1>12. InOrder'
  BY <1>6, <1>7, <1>9, <1>10 DEF InOrder
<1>13. Making'
  BY <1>9 DEF Making
<1>14. \A s : Ones(s)' = Ones(s) /\ AskedLate(s)' = AskedLate(s)
  BY <1>5, <1>6, <1>8 DEF Ones, AskedLate
<1>15. P \subseteq Sources /\ PerCycle \subseteq Sources /\ DOMAIN runs = Sources /\ d \notin PerCycle
  BY <1>6, <1>7, Numbered DEF PerVoice, PerCycle, AInv, CountOK, IInv, VoicesOK
<1>16. DOMAIN runs' = Sources' /\ \A s \in Sources : s # d => runs'[s] = runs[s]
  BY <1>5, <1>8, <1>15
<1>17. CountedCycle'
  BY <1>8, <1>14, <1>15, <1>16 DEF AInv, CountOK, CountedCycle
<1>18. Counted'
  <2> SUFFICES ASSUME currentVoice # Nobody, NEW s \in P
               PROVE  IF Pending(s) THEN runs'[s] = Ones(s)
                      ELSE runs'[s] = 1 \/ (runs'[s] = 2 /\ AskedLate(s))
    BY <1>6, <1>8, <1>10, <1>14 DEF Counted
  <2>1. IF Waits(s) THEN runs[s] = Ones(s)
        ELSE runs[s] = 1 \/ (runs[s] = 2 /\ AskedLate(s))
    BY <1>6 DEF AInv, CountOK, Counted
  <2>2. CASE s = d
    <3>1. runs[d] = 0
      BY <1>7, <1>10, <2>1, <2>2 DEF Ones
    <3> QED BY <1>5, <1>7, <1>15, <2>2, <3>1
  <2>3. CASE s # d
    BY <1>10, <1>15, <1>16, <2>1, <2>3
  <2> QED BY <2>2, <2>3
<1> QED BY <1>2, <1>11, <1>12, <1>13, <1>16, <1>17, <1>18 DEF AInv, StackOK, CountOK

(* A generator that was asked for has moved on.                            *)
LEMMA RunReturns ==
  ASSUME AInv, IInv', Still, Return, Height > 1, Top.of = "run"
  PROVE  AInv'
<1>1. PICK n : n = Height
  OBVIOUS
<1>2. /\ n \in Nat /\ n > 1 /\ Level(n) = Top /\ Height' = n - 1
      /\ \A k \in 1 .. n - 1 : Level(k)' = Level(k)
      /\ \A k \in 2 .. Height' : Good(Level(k))'
      /\ Nested'
  BY <1>1, Uncovered
<1>3. n > 2
  <2> SUFFICES ASSUME n = 2 PROVE FALSE
    BY <1>2
  <2> QED BY <1>1, <1>2 DEF AInv, StackOK, InOrder
<1>4. PICK w : w = Top.what
  OBVIOUS
<1>5. readySources' = readySources \union {w} /\ runs' = [runs EXCEPT ![w] = @ + 1]
  BY <1>4 DEF Return
<1>6. PICK P : P = PerVoice(currentRegion) /\ P = PerVoice(currentRegion)'
  BY Steady
<1>7. /\ Sources' = Sources /\ PerCycle' = PerCycle
      /\ \A s : IsOscillator(s)' = IsOscillator(s)
      /\ currentVoice' = currentVoice /\ cycle' = cycle
  BY Steady DEF Still
<1>8. w \notin readySources /\ w \in PerCycle \union P
  <2>1. n \in 2 .. Height
    BY <1>1, <1>2
  <2>2. Good(Top) /\ IsGenerator(Top)
    BY <1>2, <2>1 DEF AInv, StackOK, IsGenerator
  <2>3. w \in Own
    BY <1>4, <2>2 DEF Good, GoodStage, GoodTarget, GoodGenerator, IsGenerator
  <2> QED BY <1>2, <1>4, <1>6, <2>1, <2>2, <2>3 DEF AInv, StackOK, Making, Own
<1>9. P \subseteq Sources /\ PerCycle \subseteq Sources /\ DOMAIN runs = Sources /\ P \cap PerCycle = {}
      /\ P \subseteq Nat
  BY <1>6, Numbered DEF PerVoice, PerCycle, AInv, CountOK, IInv, VoicesOK
<1>10. DOMAIN runs' = Sources' /\ \A s \in Sources : s # w => runs'[s] = runs[s]
  BY <1>5, <1>7, <1>9
<1>11. \A j \in 2 .. n - 1 : IsGenerator(Level(j)) => IsOscillator(Level(j).what) /\ ~IsOscillator(w)
  <2> SUFFICES ASSUME NEW j \in 2 .. n - 1, IsGenerator(Level(j))
               PROVE  IsOscillator(Level(j).what) /\ ~IsOscillator(w)
    OBVIOUS
  <2>1. j \in 2 .. n /\ n \in 2 .. n /\ j < n
    BY <1>2
  <2>2. IsOscillator(Level(j).what) /\ (Outer(Level(j)) => Inner(Top))
    BY <1>1, <1>2, <2>1 DEF AInv, StackOK, Nested
  <2>3. Outer(Level(j))
    BY DEF Outer
  <2> QED BY <1>4, <2>2, <2>3 DEF Inner
<1>12. Making'
  <2> SUFFICES ASSUME NEW k \in 2 .. n - 1, IsGenerator(Level(k))
               PROVE  Level(k).what \notin readySources \union {w}
    BY <1>2, <1>5 DEF Making, IsGenerator
  <2>1. Level(k).what # w
    BY <1>11
  <2>2. k \in 2 .. Height
    BY <1>1, <1>2
  <2> QED BY <2>1, <2>2 DEF AInv, StackOK, Making
<1>13. 1 \in 1 .. n - 1 /\ 2 \in 1 .. n - 1 /\ 2 \in 2 .. n - 1
  BY <1>2, <1>3
<1>14. Level(1)' = Level(1) /\ Level(2)' = Level(2)
  BY <1>2, <1>13
<1>15. Bottom' /\ InOrder' /\ \A s : Waits(s)' = Waits(s)
  BY <1>1, <1>2, <1>3, <1>14, OrderStays DEF AInv
<1>16. \A s : Ones(s)' = IF s = w THEN 1 ELSE Ones(s)
  BY <1>5 DEF Ones
<1>17. CountedCycle'
  <2> SUFFICES ASSUME cycle, NEW s \in PerCycle PROVE runs'[s] = Ones(s)'
    BY <1>7 DEF CountedCycle
  <2>1. runs[s] = Ones(s)
    BY DEF AInv, CountOK, CountedCycle
  <2>2. CASE s = w
    <3>1. runs[w] = 0
      BY <1>8, <2>1, <2>2 DEF Ones
    <3> QED BY <1>5, <1>9, <1>16, <2>2, <3>1
  <2>3. CASE s # w
    BY <1>9, <1>10, <1>16, <2>1, <2>3
  <2> QED BY <2>2, <2>3
(* What is behind its turn to be discarded: only a generator that is being *)
(* discarded asks then.                                                    *)
<1>18. ASSUME NEW s \in P, ~Waits(s)
       PROVE  \E d \in P : /\ d > s /\ IsOscillator(d) /\ d \notin readySources \union {w}
                           /\ ~IsOscillator(w)
  <2>1. /\ Level(2).of = "discard" /\ Level(2).what \in P
        /\ s < Level(2).what
    BY <1>1, <1>2, <1>6, <1>18 DEF AInv, StackOK, InOrder, Waits
  <2>2. IsGenerator(Level(2)) /\ 2 \in 2 .. Height
    BY <1>1, <1>2, <1>3, <2>1 DEF IsGenerator
  <2>3. IsOscillator(Level(2).what) /\ ~IsOscillator(w)
    BY <1>11, <1>13, <2>2
  <2>4. Level(2).what \notin readySources
    BY <2>2 DEF AInv, StackOK, Making
  <2>5. Level(2).what # w
    BY <2>3
  <2> QED BY <1>9, <2>1, <2>3, <2>4, <2>5
<1>19. Counted'
  <2> SUFFICES ASSUME currentVoice # Nobody, NEW s \in P
               PROVE  IF Waits(s) THEN runs'[s] = Ones(s)'
                      ELSE runs'[s] = 1 \/ (runs'[s] = 2 /\ AskedLate(s)')
    BY <1>6, <1>7, <1>15 DEF Counted
  <2>1. IF Waits(s) THEN runs[s] = Ones(s)
        ELSE runs[s] = 1 \/ (runs[s] = 2 /\ AskedLate(s))
    BY <1>6 DEF AInv, CountOK, Counted
  <2>2. CASE s = w
    <3>1. CASE Waits(s)
      <4>1. runs[w] = 0
        BY <1>8, <2>1, <2>2, <3>1 DEF Ones
      <4> QED BY <1>5, <1>9, <1>16, <2>2, <3>1, <4>1
    <3>2. CASE ~Waits(s)
      <4>1. runs[w] = 1
        BY <1>8, <2>1, <2>2, <3>2 DEF AskedLate
      <4>2. runs'[w] = 2
        BY <1>5, <1>9, <2>2, <4>1
      <4>3. AskedLate(s)'
        BY <1>5, <1>6, <1>7, <1>18, <2>2, <3>2 DEF AskedLate
      <4> QED BY <2>2, <3>2, <4>2, <4>3
    <3> QED BY <3>1, <3>2
  <2>3. CASE s # w
    <3>1. runs'[s] = runs[s] /\ Ones(s)' = Ones(s)
      BY <1>9, <1>10, <1>16, <2>3
    <3>2. ASSUME ~Waits(s), AskedLate(s) PROVE AskedLate(s)'
      <4>1. s \in readySources' /\ \E d \in P : d > s /\ IsOscillator(d) /\ d \notin readySources'
        BY <1>5, <1>18, <3>2 DEF AskedLate
      <4> QED BY <1>6, <1>7, <4>1 DEF AskedLate
    <3> QED BY <2>1, <3>1, <3>2
  <2> QED BY <2>2, <2>3
<1> QED BY <1>2, <1>10, <1>12, <1>15, <1>17, <1>19 DEF AInv, StackOK, CountOK

(* A function above endVoice, about to do something.                       *)
LEMMA Aloft ==
  ASSUME AInv, NEW what, Doing(what), what # "discard"
  PROVE  /\ Height > 1 /\ work # <<>> /\ IsStack(work) /\ Good(Top) /\ patch \in Patches
         /\ Top.todo # <<>> /\ Head(Top.todo)[1] = what
         /\ DOMAIN Top = Fields /\ DOMAIN Onward = Fields /\ Good(Onward)
         /\ Onward.of = Top.of /\ Onward.what = Top.what
         /\ Onward.todo = Tail(Top.todo) /\ Onward.left = Top.left
<1>1. /\ work # <<>> /\ IsStack(work) /\ patch \in Patches
      /\ Top.todo # <<>> /\ Head(Top.todo)[1] = what
  BY DEF Doing, AInv, IInv, TurnOK, VoicesOK
<1>2. Height > 1
  BY <1>1, AtBottom
<1>3. Good(Top)
  <2>1. PICK n \in Nat : n = Height /\ n > 1 /\ Level(n) = Top
    BY <1>1, <1>2, AtReplaced
  <2>2. n \in 2 .. Height
    BY <2>1
  <2> QED BY <2>1, <2>2 DEF AInv, StackOK
<1>4. DOMAIN Top = Fields
  BY <1>1, Popped DEF Top
<1>5. /\ DOMAIN Onward = Fields /\ Onward.of = Top.of /\ Onward.what = Top.what
      /\ Onward.todo = Tail(Top.todo) /\ Onward.left = Top.left
  BY <1>4 DEF Onward, Fields
<1>6. Good(Onward)
  BY <1>1, <1>3, <1>5, Spoken
<1> QED BY <1>1, <1>2, <1>3, <1>4, <1>5, <1>6

LEMMA Resuming ==
  ASSUME AInv, IInv', Still, UNCHANGED <<readySources, runs>>,
         NEW what, Doing(what), what # "discard", work' = Resumed
  PROVE  AInv'
BY Aloft, Replacing DEF Resumed

LEMMA Asking ==
  ASSUME AInv, IInv', Still, GetModulation
  PROVE  AInv'
<1> DEFINE asked == Arg \in Targets /\ Arg[1] = currentRegion /\ Arg \notin readyTargets
<1>1. Doing("ask") /\ UNCHANGED <<readySources, runs>>
  BY DEF GetModulation
<1>2. CASE ~asked
  <2>1. work' = Resumed
    BY <1>2 DEF GetModulation
  <2> QED BY <1>1, <2>1, Resuming
<1>3. CASE asked
  <2>1. PICK f : f = Frame("target", Arg, <<>>, patch.feeds[Arg])
    OBVIOUS
  <2>2. work' = <<f>> \o With(Onward) /\ Arg \in Targets
    BY <1>3, <2>1 DEF GetModulation, Calling, Resumed
  <2>3. f.of = "target" /\ f.what = Arg /\ f.todo = <<>> /\ f.left = patch.feeds[Arg]
    BY <2>1 DEF Frame
  <2>4. Good(f)
    <3>1. \A X : <<>> \in Seq(X)
      OBVIOUS
    <3> QED BY <2>2, <2>3, <3>1 DEF Good, GoodTarget
  <2>5. /\ Height > 1 /\ Good(Top) /\ patch \in Patches
        /\ Top.todo # <<>> /\ Head(Top.todo)[1] = "ask"
        /\ DOMAIN Onward = Fields /\ Good(Onward)
        /\ Onward.of = Top.of /\ Onward.what = Top.what
    BY <1>1, Aloft
  <2>6. /\ IsGenerator(Top) => IsOscillator(Top.what)
        /\ Outer(Top) => Arg \in LowTargets
    BY <2>2, <2>5, Spoken DEF Arg
  <2>7. Outer(Top) => Inner(f)
    BY <2>3, <2>6 DEF Inner
  <2>8. f.of # "discard" /\ ~IsGenerator(f)
    BY <2>3 DEF IsGenerator
  <2> QED BY <1>1, <2>2, <2>4, <2>5, <2>6, <2>7, <2>8, Pushing
<1> QED BY <1>2, <1>3

LEMMA Running ==
  ASSUME AInv, IInv', Still, Generate("run")
  PROVE  AInv'
<1>1. Doing("run") /\ UNCHANGED <<readySources, runs>>
  BY DEF Generate, buffers
<1>2. CASE Arg \in readySources
  <2>1. work' = Resumed
    BY <1>2 DEF Generate
  <2> QED BY <1>1, <2>1, Resuming
<1>3. CASE Arg \notin readySources
  <2>1. PICK f : f = Frame("run", Arg, Generator(Arg), {})
    OBVIOUS
  <2>2. work' = <<f>> \o With(Onward)
    BY <1>3, <2>1 DEF Generate, Calling, Resumed
  <2>3. f.of = "run" /\ f.what = Arg /\ f.todo = Generator(Arg) /\ f.left = {}
    BY <2>1 DEF Frame
  <2>4. /\ Height > 1 /\ Good(Top) /\ patch \in Patches
        /\ Top.todo # <<>> /\ Head(Top.todo)[1] = "run"
        /\ DOMAIN Onward = Fields /\ Good(Onward)
        /\ Onward.of = Top.of /\ Onward.what = Top.what
    BY <1>1, Aloft
  <2>5. /\ Top.of = "target" /\ Arg \in Own
        /\ Top.what \in LowTargets => ~IsOscillator(Arg)
    BY <2>4, Spoken DEF Arg
  <2>6. Arg \in Sources
    BY <2>5 DEF Own, PerCycle, PerVoice
  <2>7. Good(f)
    BY <2>3, <2>4, <2>5, <2>6, GeneratorSays DEF Good, GoodGenerator, IsGenerator
  <2>8. ~IsGenerator(Top) /\ (Outer(Top) => Inner(f))
    BY <2>3, <2>5 DEF IsGenerator, Outer, Inner
  <2> QED BY <1>1, <1>3, <2>2, <2>3, <2>4, <2>7, <2>8, Pushing
<1> QED BY <1>2, <1>3

LEMMA Adding ==
  ASSUME AInv, IInv', Still, AddSource
  PROVE  AInv'
<1>1. work # <<>> /\ Top.todo = <<>> /\ Top.left # {} /\ UNCHANGED <<readySources, runs>>
  BY DEF AddSource, buffers
<1>2. Height > 1
  BY <1>1, AtBottom
<1>3. Good(Top)
  <2>1. PICK n \in Nat : n = Height /\ n > 1 /\ Level(n) = Top
    BY <1>1, <1>2, AtReplaced DEF AInv, IInv, TurnOK
  <2>2. n \in 2 .. Height
    BY <2>1
  <2> QED BY <2>1, <2>2 DEF AInv, StackOK
<1>4. GoodTarget(Top)
  BY <1>1, <1>3 DEF Good, GoodStage, GoodGenerator
<1>5. PICK c \in Top.left :
        work' = With([Top EXCEPT !.left = @ \ {c},
                        !.todo = IF c.source \in PerCycle \union PerVoice(currentRegion)
                                 THEN <<Run(c.source), Ask(c.depth)>> ELSE <<>>])
  BY DEF AddSource
<1>6. PICK todo : todo = IF c.source \in PerCycle \union PerVoice(currentRegion)
                         THEN <<Run(c.source), Ask(c.depth)>> ELSE <<>>
  OBVIOUS
<1>7. PICK g : g = [Top EXCEPT !.left = @ \ {c}, !.todo = todo]
  OBVIOUS
<1>8. DOMAIN Top = Fields
  BY <1>1, Popped DEF Top, AInv, IInv, TurnOK
<1>9. g.of = Top.of /\ g.what = Top.what /\ g.left = Top.left \ {c} /\ g.todo = todo
  BY <1>7, <1>8 DEF Fields
<1>10. todo \in Seq(TargetWords(Top.what))
  <2>1. PICK X : X = TargetWords(Top.what)
    OBVIOUS
  <2>2. c \in patch.feeds[Top.what]
    BY <1>4 DEF GoodTarget
  <2>3. CASE c.source \in Own
    <3>1. Run(c.source) \in X /\ Ask(c.depth) \in X
      BY <2>1, <2>2, <2>3 DEF TargetWords
    <3>2. todo = <<Run(c.source), Ask(c.depth)>>
      BY <1>6, <2>3 DEF Own
    <3> QED BY <2>1, <3>1, <3>2
  <2>4. CASE c.source \notin Own
    <3>1. todo = <<>>
      BY <1>6, <2>4 DEF Own
    <3> QED BY <3>1
  <2> QED BY <2>3, <2>4
<1>11. Good(g)
  BY <1>4, <1>9, <1>10 DEF Good, GoodTarget
<1>12. work' = With(g)
  BY <1>5, <1>6, <1>7
<1> QED BY <1>1, <1>2, <1>9, <1>11, <1>12, Replacing

LEMMA TakingGiving ==
  ASSUME AInv, IInv', Still, TakeBuffer \/ GiveBuffer
  PROVE  AInv'
<1>1. PICK what \in {"take", "give"} : Doing(what)
  BY DEF TakeBuffer, GiveBuffer
<1>2. UNCHANGED <<readySources, runs>>
  BY DEF TakeBuffer, GiveBuffer, buffers
<1>3. /\ Height > 1 /\ Good(Top)
      /\ DOMAIN Top = Fields /\ DOMAIN Onward = Fields /\ Good(Onward)
      /\ Onward.of = Top.of /\ Onward.what = Top.what
  BY <1>1, Aloft
<1> DEFINE taken == [Onward EXCEPT !.held[Arg] = @ + 1]
           given == [Onward EXCEPT !.held[Arg] = @ - 1]
           returning == [Top EXCEPT !.todo = <<>>]
<1>4. /\ taken.of = Onward.of /\ taken.what = Onward.what
      /\ taken.todo = Onward.todo /\ taken.left = Onward.left
      /\ given.of = Onward.of /\ given.what = Onward.what
      /\ given.todo = Onward.todo /\ given.left = Onward.left
      /\ returning.of = Top.of /\ returning.what = Top.what
      /\ returning.todo = <<>> /\ returning.left = Top.left
  BY <1>3 DEF Fields
<1>5. work' \in {With(taken), With(given), With(returning)}
  BY DEF TakeBuffer, GiveBuffer
<1> HIDE DEF taken, given, returning
<1>6. Good(taken) /\ Good(given)
  BY <1>3, <1>4 DEF Good, GoodStage, GoodTarget, GoodGenerator, IsGenerator
<1>7. Good(returning)
  BY <1>3, <1>4, Emptied
<1> QED BY <1>2, <1>3, <1>4, <1>5, <1>6, <1>7, Replacing

LEMMA DiscardSteps ==
  ASSUME AInv, IInv', Still, Generate("discard")
  PROVE  AInv'
<1>1. /\ Doing("discard") /\ work # <<>> /\ Top.todo # <<>> /\ Head(Top.todo)[1] = "discard"
      /\ UNCHANGED <<readySources, runs>>
  BY DEF Generate, buffers, Doing
<1>2. ~(Height > 1)
  <2> SUFFICES ASSUME Height > 1 PROVE FALSE
    OBVIOUS
  <2>1. PICK n \in Nat : n = Height /\ n > 1 /\ Level(n) = Top
    BY <1>1, AtReplaced DEF AInv, IInv, TurnOK
  <2>2. n \in 2 .. Height
    BY <2>1
  <2>3. Good(Top)
    BY <2>1, <2>2 DEF AInv, StackOK
  <2> QED BY <1>1, <2>3, Spoken DEF AInv, IInv, VoicesOK
<1> QED BY <1>1, <1>2, DiscardingNone, Discarding DEF Generate

LEMMA StageCounts ==
  ASSUME AInv, IInv', Still, MatrixStep
  PROVE  AInv'
<1>1. CASE UseScratch
  BY <1>1, Resuming DEF UseScratch, buffers
<1>2. CASE Return
  BY <1>2, TurnEnds, PlainReturns, DiscardedReturns, RunReturns DEF IsGenerator
<1> QED BY <1>1, <1>2, TakingGiving, Asking, Adding, Running, DiscardSteps DEF MatrixStep

-----------------------------------------------------------------------------
(* The turns and the blocks.                                               *)
(* Nothing on the stack, and no voice's turn.                              *)
LEMMA Resting ==
  ASSUME IInv', work' = <<>>, currentVoice' = Nobody, DOMAIN runs' = Sources', CountedCycle'
  PROVE  AInv'
<1>1. Height' = 0
  BY DEF Height
<1> QED BY <1>1 DEF AInv, StackOK, Bottom, Nested, Making, InOrder, CountOK, Counted

LEMMA TurnBegins == ASSUME AInv, IInv', BeginVoice PROVE AInv'
<1>1. PICK v, r : v = First(waiting) /\ r = voice[v].region
  OBVIOUS
<1>2. /\ patch \in Patches /\ v \in waiting /\ r \in DOMAIN patch.regions
      /\ UNCHANGED <<patch, cycle>>
  BY <1>1, FirstIsOne DEF BeginVoice, clock, AInv, IInv, VoicesOK
<1>3. /\ currentRegion' = r /\ work' = Stages(v)
      /\ readySources' = readySources \ PerVoice(r)
      /\ runs' = [s \in Sources |-> IF s \in PerVoice(r) THEN 0 ELSE runs[s]]
  BY <1>1 DEF BeginVoice, BeginVoiceOfMatrix
<1>4. PICK P : P = PerVoice(r) /\ P = PerVoice(currentRegion)'
  BY <1>2, <1>3 DEF PerVoice, Sources
<1>5. /\ Sources' = Sources /\ PerCycle' = PerCycle
      /\ P \subseteq Sources /\ PerCycle \subseteq Sources /\ P \cap PerCycle = {}
  BY <1>2, <1>4, Numbered DEF Sources, PerCycle, PerVoice
<1>6. DiscardsOf(currentRegion)' = DiscardsOf(r) /\ StageWords(currentRegion)' = StageWords(r)
  BY <1>3, <1>4 DEF DiscardsOf, StageWords
<1>7. PICK n \in Nat : n = Len(Stages(v)) /\ n > 1
  BY <1>1, <1>2, StagesUp
<1>8. /\ Height' = n /\ Level(1)' = Discards(r)
      /\ \A k \in 2 .. n : /\ Level(k)'.of = "stage" /\ Level(k)'.left = {}
                           /\ Level(k)'.todo \in Seq(StageWords(r))
  BY <1>1, <1>2, <1>3, <1>7, StagesUp DEF Height, Level
<1>9. PICK t : t = Discards(r).todo
  OBVIOUS
<1>10. /\ Discards(r).of = "stage" /\ Discards(r).left = {}
       /\ t \in Seq(DiscardsOf(r)) /\ Rising(t)
       /\ \A s \in P : \E i \in DOMAIN t : t[i] = Discard(s)
  BY <1>2, <1>4, <1>9, DiscardsRise
<1>11. Bottom'
  BY <1>6, <1>8, <1>9, <1>10 DEF Bottom
<1>12. \A k \in 2 .. Height' : Good(Level(k))'
  BY <1>6, <1>8 DEF Good, GoodStage
<1>13. Nested' /\ Making'
  <2>1. \A k \in 2 .. n : ~IsGenerator(Level(k)') /\ ~Outer(Level(k)') /\ Level(k)'.of # "discard"
    BY <1>8 DEF IsGenerator, Outer
  <2>2. \A k \in 2 .. n : ~Outer(Level(k))'
    BY <1>8 DEF IsGenerator, Outer
  <2>3. Nested'
    BY <1>8, <2>1, <2>2 DEF Nested, IsGenerator
  <2>4. Making'
    BY <1>8, <2>1 DEF Making, IsGenerator
  <2> QED BY <2>3, <2>4
<1>14. ASSUME NEW s \in P PROVE Pending(s)'
  <2>1. PICK d : d = Discard(s)
    OBVIOUS
  <2>2. \E i \in DOMAIN Level(1)'.todo : Level(1)'.todo[i] = d
    BY <1>8, <1>9, <1>10, <2>1
  <2> QED BY <1>7, <1>8, <2>1, <2>2 DEF Pending
<1>15. InOrder'
  <2>1. Level(2)'.of = "stage"
    BY <1>7, <1>8
  <2> QED BY <1>4, <1>14, <2>1 DEF InOrder
<1>16. Counted'
  <2>1. ASSUME NEW s \in P PROVE Waits(s)' /\ runs'[s] = 0 /\ Ones(s)' = 0
    BY <1>3, <1>4, <1>5, <1>14, <2>1 DEF Waits, Ones
  <2> QED BY <1>4, <2>1 DEF Counted
<1>17. CountedCycle'
  <2> SUFFICES ASSUME cycle, NEW s \in PerCycle PROVE runs'[s] = Ones(s)'
    BY <1>2, <1>5 DEF CountedCycle
  <2>1. runs[s] = Ones(s)
    BY DEF AInv, CountOK, CountedCycle
  <2>2. runs'[s] = runs[s] /\ Ones(s)' = Ones(s)
    BY <1>3, <1>4, <1>5 DEF Ones
  <2> QED BY <2>1, <2>2
<1>18. DOMAIN runs' = Sources'
  BY <1>3, <1>5
<1> QED BY <1>11, <1>12, <1>13, <1>15, <1>16, <1>17, <1>18 DEF AInv, StackOK, CountOK

LEMMA CountsUnchanged ==
  ASSUME CountedCycle, DOMAIN runs = Sources, UNCHANGED <<patch, readySources, runs, cycle>>
  PROVE  CountedCycle' /\ DOMAIN runs' = Sources'
<1>1. PerCycle' = PerCycle /\ Sources' = Sources
  BY DEF PerCycle, Sources
<1>2. \A s : Ones(s)' = Ones(s)
  BY DEF Ones
<1> QED BY <1>1, <1>2 DEF CountedCycle

LEMMA AStart == Init => AInv
<1> SUFFICES ASSUME Init PROVE AInv
  OBVIOUS
<1>1. IInv
  BY Start
<1>2. /\ work = <<>> /\ currentVoice = Nobody /\ ~cycle /\ DOMAIN runs = Sources
  BY DEF Init, MatrixInit, ClockInit
<1>3. Height = 0
  BY <1>2 DEF Height
<1> QED BY <1>1, <1>2, <1>3
        DEF AInv, StackOK, Bottom, Nested, Making, InOrder, CountOK, Counted, CountedCycle

LEMMA AStutters == ASSUME AInv, IInv', UNCHANGED vars PROVE AInv'
<1>1. Still /\ UNCHANGED <<work, readySources, runs>>
  BY DEF vars, matrix, buffers, clock, Still
<1>2. /\ Sources' = Sources /\ PerCycle' = PerCycle
      /\ PerVoice(currentRegion)' = PerVoice(currentRegion)
      /\ DiscardsOf(currentRegion)' = DiscardsOf(currentRegion)
      /\ \A s : IsOscillator(s)' = IsOscillator(s)
      /\ \A f : Good(f)' = Good(f) /\ Outer(f)' = Outer(f) /\ Inner(f)' = Inner(f)
  BY <1>1, Steady, SteadyDiscards
<1>3. Height' = Height /\ \A k : Level(k)' = Level(k)
  BY <1>1 DEF Height, Level
<1>4. \A k \in 2 .. Height' : Good(Level(k))'
  BY <1>2, <1>3 DEF AInv, StackOK
<1>5. Bottom'
  BY <1>2, <1>3 DEF AInv, StackOK, Bottom
<1>6. Nested' /\ Making'
  <2>1. Nested'
    <3>1. \A j, k \in 2 .. Height :
            j < k => /\ IsGenerator(Level(j)) => IsOscillator(Level(j).what)
                     /\ Outer(Level(j)) => Inner(Level(k))
                     /\ Level(k).of # "discard"
      BY DEF AInv, StackOK, Nested
    <3> QED BY <1>2, <1>3, <3>1, Zenon DEF Nested, IsGenerator
  <2>2. Making'
    BY <1>1, <1>3 DEF AInv, StackOK, Making, IsGenerator
  <2> QED BY <2>1, <2>2
<1>7. \A s : Pending(s)' = Pending(s) /\ Discarded(s)' = Discarded(s)
  BY <1>3 DEF Pending, Discarded
<1>8. \A s : Waits(s)' = Waits(s)
  BY <1>7 DEF Waits
<1>9. InOrder'
  <2>1. InOrder
    BY DEF AInv, StackOK
  <2> QED BY <1>2, <1>3, <1>7, <1>8, <2>1 DEF InOrder
<1>10. CountOK'
  BY <1>1, <1>8, CountsStay DEF AInv
<1> QED BY <1>4, <1>5, <1>6, <1>9, <1>10 DEF AInv, StackOK

LEMMA AStep == AInv /\ [Next]_vars => AInv'
<1> SUFFICES ASSUME AInv, [Next]_vars PROVE AInv'
  OBVIOUS
<1>1. IInv /\ IInv' /\ CountedCycle /\ DOMAIN runs = Sources
  BY Step DEF AInv, CountOK
<1>2. ~cycle => currentVoice = Nobody /\ work = <<>>
  BY <1>1 DEF IInv, TurnOK
<1>3. ASSUME ~cycle, UNCHANGED <<matrix, cycle>> PROVE AInv'
  BY <1>1, <1>2, <1>3, CountsUnchanged, Resting DEF matrix
<1>4. ASSUME NEW v \in Voice, ReleaseVoice(v) PROVE AInv'
  BY <1>3, <1>4 DEF ReleaseVoice, clock
<1>5. ASSUME NEW v \in Voice, NEW r, NEW delay, NEW note, StartVoice(v, r, delay, note) PROVE AInv'
  BY <1>3, <1>5 DEF StartVoice, clock
<1>6. CASE HostMessage
  <2>1. ~cycle /\ UNCHANGED <<matrix, cycle>>
    BY <1>6 DEF HostMessage, TimePosition, SetTempo, SetTimeSignature, SetPlaying,
                SetTimePosition, Between
  <2> QED BY <1>3, <2>1
<1>7. ASSUME NEW n, BeginBlock(n) PROVE AInv'
  <2>1. /\ ~cycle /\ UNCHANGED <<patch, work, currentVoice>>
        /\ readySources' = readySources \ PerCycle
        /\ runs' = [s \in Sources |-> IF s \in PerCycle THEN 0 ELSE runs[s]]
    BY <1>7 DEF BeginBlock, BeginCycle, BeginCycleOfMatrix
  <2>2. PerCycle' = PerCycle /\ Sources' = Sources /\ PerCycle \subseteq Sources
    BY <2>1 DEF PerCycle, Sources
  <2>3. CountedCycle' /\ DOMAIN runs' = Sources'
    BY <2>1, <2>2 DEF CountedCycle, Ones
  <2> QED BY <1>1, <1>2, <2>1, <2>3, Resting
<1>8. CASE BeginVoice
  BY <1>1, <1>8, TurnBegins
<1>9. CASE Stage
  <2>1. MatrixStep /\ Still
    BY <1>9 DEF Stage, MatrixStep, TakeBuffer, GiveBuffer, UseScratch, GetModulation, AddSource,
                Generate, Return, clock, Still
  <2> QED BY <1>1, <2>1, StageCounts
<1>10. CASE AskClock
  <2>1. Doing("clock") /\ work' = Resumed /\ Still /\ UNCHANGED <<readySources, runs>>
    BY <1>10 DEF AskClock, GetRunning, Still, buffers
  <2> QED BY <1>1, <2>1, Resuming
<1>11. CASE PlaySample
  <2>1. Doing("play") /\ work' = Resumed /\ Still /\ UNCHANGED <<readySources, runs>>
    BY <1>11 DEF PlaySample, clock, buffers, Still
  <2> QED BY <1>1, <2>1, Resuming
<1>12. CASE VoiceDone
  BY <1>1, <1>12, CountsUnchanged, Resting DEF VoiceDone, buffers, clock
<1>13. CASE EndBlock
  <2>1. /\ ~cycle' /\ currentVoice = Nobody /\ UNCHANGED <<patch, work, currentVoice>>
        /\ DOMAIN runs' = Sources
    BY <1>13 DEF EndBlock, EndCycle, EndCycleOfMatrix
  <2>2. work = <<>>
    BY <1>1, <2>1 DEF IInv, TurnOK
  <2>3. Sources' = Sources /\ CountedCycle'
    BY <2>1 DEF Sources, CountedCycle
  <2> QED BY <1>1, <2>1, <2>2, <2>3, Resting
<1>14. CASE UNCHANGED vars
  BY <1>1, <1>14, AStutters
<1>15. Over => UNCHANGED vars
  BY DEF Over
<1> QED BY <1>4, <1>5, <1>6, <1>7, <1>8, <1>9, <1>10, <1>11, <1>12, <1>13, <1>14, <1>15 DEF Next

(* The only steps that end a turn or a block.                              *)
LEMMA Advanced ==
  AInv /\ [Next]_vars =>
    [ /\ currentVoice # Nobody /\ currentVoice' = Nobody =>
           \A s \in PerVoice(currentRegion) :
             runs'[s] = 1 \/ (runs'[s] = 2 /\ AskedLate(s))
      /\ cycle /\ ~cycle' => \A s \in PerCycle : runs'[s] = 1 ]_vars
<1> SUFFICES ASSUME AInv, Next
             PROVE  /\ currentVoice # Nobody /\ currentVoice' = Nobody =>
                         \A s \in PerVoice(currentRegion) :
                           runs'[s] = 1 \/ (runs'[s] = 2 /\ AskedLate(s))
                    /\ cycle /\ ~cycle' => \A s \in PerCycle : runs'[s] = 1
  OBVIOUS
<1>1. ~cycle => currentVoice = Nobody
  BY DEF AInv, IInv, TurnOK
<1>2. ASSUME currentVoice' = currentVoice, cycle' = cycle PROVE
        /\ ~(currentVoice # Nobody /\ currentVoice' = Nobody) /\ ~(cycle /\ ~cycle')
  BY <1>2
<1>3. ASSUME ~cycle PROVE
        /\ ~(currentVoice # Nobody /\ currentVoice' = Nobody) /\ ~(cycle /\ ~cycle')
  BY <1>1, <1>3
<1>4. CASE \E v \in Voice : ReleaseVoice(v)
  BY <1>3, <1>4 DEF ReleaseVoice
<1>5. CASE \E v \in Voice, r \in DOMAIN patch.regions, delay \in patch.delays, note \in patch.owners :
             StartVoice(v, r, delay, note)
  BY <1>3, <1>5 DEF StartVoice
<1>6. CASE HostMessage
  BY <1>3, <1>6 DEF HostMessage, TimePosition, SetTempo, SetTimeSignature, SetPlaying,
                    SetTimePosition, Between
<1>7. CASE \E n \in patch.sizes : BeginBlock(n)
  BY <1>3, <1>7 DEF BeginBlock, BeginCycle
<1>8. CASE BeginVoice
  BY <1>8 DEF BeginVoice, clock
<1>9. CASE Stage
  BY <1>2, <1>9 DEF Stage, MatrixStep, TakeBuffer, GiveBuffer, UseScratch, GetModulation, AddSource,
                    Generate, Return, clock
<1>10. CASE AskClock
  BY <1>2, <1>10 DEF AskClock, GetRunning
<1>11. CASE PlaySample
  BY <1>2, <1>11 DEF PlaySample, clock
<1>12. CASE VoiceDone
  <2>1. work = <<>> /\ currentVoice # Nobody /\ runs' = runs /\ cycle' = cycle
    BY <1>12 DEF VoiceDone, buffers, clock
  <2>2. Height = 0
    BY <2>1 DEF Height
  <2>3. \A s : ~Waits(s)
    BY <2>2 DEF Waits, Pending, Discarded
  <2>4. \A s \in PerVoice(currentRegion) : runs[s] = 1 \/ (runs[s] = 2 /\ AskedLate(s))
    BY <2>1, <2>3 DEF AInv, CountOK, Counted
  <2> QED BY <2>1, <2>4
<1>13. CASE EndBlock
  <2>1. /\ cycle /\ currentVoice = Nobody
        /\ runs' = [s \in Sources |-> IF s \in PerCycle \ readySources THEN runs[s] + 1 ELSE runs[s]]
    BY <1>13 DEF EndBlock, EndCycleOfMatrix
  <2>2. \A s \in PerCycle : s \in Sources /\ runs[s] = Ones(s)
    BY <2>1 DEF AInv, CountOK, CountedCycle, PerCycle
  <2>3. \A s \in PerCycle : runs'[s] = 1
    BY <2>1, <2>2 DEF Ones
  <2> QED BY <2>1, <2>3
<1>14. CASE Over
  BY <1>3, <1>14 DEF Over
<1> QED BY <1>4, <1>5, <1>6, <1>7, <1>8, <1>9, <1>10, <1>11, <1>12, <1>13, <1>14 DEF Next

(* Every turn of a voice moves each generator of its region on by the      *)
(* block, and only one that was asked for too late twice; every block      *)
(* moves each controller on once, whoever asks for it.                     *)
THEOREM AdvancesOnce == Spec => AdvanceOnce
BY AStart, AStep, Advanced, PTL DEF Spec, AdvanceOnce

-----------------------------------------------------------------------------
(* What the functions on the stack hold.                                   *)
Pools == {"mono", "stereo", "index"}
EnoughRoom ==
  /\ DOMAIN Capacity = Pools /\ \A p \in Pools : Capacity[p] \in Nat
  /\ Capacity["mono"] >= 6 /\ Capacity["stereo"] >= 2 /\ Capacity["index"] >= 4

Nothing == [p \in Pools |-> 0]
Hand(f) == <<f.held["mono"], f.held["index"]>>
Oscillates(f) == IsGenerator(f) /\ IsOscillator(f.what)
HasRoom(f) ==
  /\ f.held \in [Pools -> Nat]
  /\ f.of = "stage" => f.held["stereo"] = 0 /\ Hand(f) \in Hands /\ Fits(f.todo, Hand(f))
  /\ Oscillates(f) =>
       /\ f.held["stereo"] = 0 /\ f.held["index"] = 0
       /\ \/ f.held["mono"] = 1 /\ f.todo \in Seq(AskWords(f.what))
          \/ /\ f.held["mono"] = 0
             /\ \E u \in Seq(AskWords(f.what)) : f.todo = <<Take("mono")>> \o u
  /\ f.of # "stage" /\ ~Oscillates(f) => f.held = Nothing

(* The stage under way is level n.  One oscillator at a time, on level g,  *)
(* holds a buffer beside what the stage holds, which then leaves it two;   *)
(* the stages still to come hold nothing.                                  *)
Taken(n, g) ==
  [mono |-> 1 + Level(n).held["mono"] + (IF g = 0 THEN 0 ELSE Level(g).held["mono"]),
   stereo |-> 2, index |-> Level(n).held["index"]]
PoolAt(n, g) ==
  /\ n \in 1 .. Height /\ g \in {0} \union (n + 1 .. Height)
  /\ \A k \in 1 .. Height :
       /\ HasRoom(Level(k))
       /\ Level(k).of = "stage" <=> k <= n
       /\ k < n => Level(k).held = Nothing
       /\ Oscillates(Level(k)) <=> k = g
       /\ k > n /\ Level(n).held["mono"] > 3 => Inner(Level(k))
  /\ used = Taken(n, g)
PoolOK ==
  /\ ~short
  /\ Height = 0 => used = IF cycle THEN CallbackBuffers ELSE Nothing
  /\ Height > 0 => \E n, g \in 0 .. Height : PoolAt(n, g)

LEMMA HandFits ==
  ASSUME NEW f, HasRoom(f), f.of = "stage"
  PROVE  /\ f.held["mono"] \in 0 .. 5 /\ f.held["stereo"] = 0 /\ f.held["index"] \in 0 .. 4
BY DEF HasRoom, Hand, Hands

(* What is taken at most: all but one of the single buffers; and all of    *)
(* them only while an oscillator does not run.                             *)
LEMMA TakenAtMost ==
  ASSUME EnoughRoom, NEW n \in Nat, NEW g \in Nat, PoolAt(n, g), Height \in Nat
  PROVE  /\ Level(n).held["mono"] \in 0 .. 5 /\ Level(n).held["index"] \in 0 .. 4
         /\ g # 0 => /\ Level(n).held["mono"] \in 0 .. 3 /\ Level(g).held["mono"] \in {0, 1}
                      /\ Level(g).held["stereo"] = 0 /\ Level(g).held["index"] = 0
                      /\ Oscillates(Level(g)) /\ Level(g).of # "stage"
         /\ DOMAIN used = Pools /\ used["stereo"] = 2
         /\ used["index"] = Level(n).held["index"]
         /\ used["mono"] = 1 + Level(n).held["mono"] + (IF g = 0 THEN 0 ELSE Level(g).held["mono"])
<1>1. /\ n \in 1 .. Height /\ g \in {0} \union (n + 1 .. Height) /\ used = Taken(n, g)
      /\ HasRoom(Level(n)) /\ Level(n).of = "stage"
  BY DEF PoolAt
<1>2. Level(n).held["mono"] \in 0 .. 5 /\ Level(n).held["index"] \in 0 .. 4
  BY <1>1, HandFits
<1>3. ASSUME g # 0
      PROVE  /\ Level(n).held["mono"] <= 3 /\ Level(g).held["mono"] \in {0, 1}
             /\ Level(g).held["stereo"] = 0 /\ Level(g).held["index"] = 0
             /\ Oscillates(Level(g)) /\ Level(g).of # "stage"
  <2>1. g \in 1 .. Height /\ g > n
    BY <1>1, <1>3
  <2>2. /\ HasRoom(Level(g)) /\ Oscillates(Level(g)) /\ Level(g).of # "stage"
        /\ Level(n).held["mono"] > 3 => Inner(Level(g))
    BY <2>1 DEF PoolAt
  <2>3. ~Inner(Level(g))
    BY <2>2 DEF Inner, Oscillates, IsGenerator
  <2>4. Level(n).held["mono"] <= 3
    BY <1>2, <2>2, <2>3
  <2> QED BY <2>2, <2>4 DEF HasRoom
<1>4. /\ DOMAIN used = Pools /\ used["stereo"] = 2
      /\ used["index"] = Level(n).held["index"]
      /\ used["mono"] = 1 + Level(n).held["mono"] + (IF g = 0 THEN 0 ELSE Level(g).held["mono"])
  BY <1>1 DEF Taken, Pools
<1> QED BY <1>2, <1>3, <1>4

LEMMA PoolEnough == EnoughRoom /\ AInv /\ PoolOK => PoolSuffices
<1> SUFFICES ASSUME EnoughRoom, AInv, PoolOK PROVE PoolSuffices
  OBVIOUS
<1>1. IsStack(work) /\ (work # <<>> => cycle)
  BY DEF AInv, IInv, TurnOK
<1>2. Height \in Nat /\ (Height = 0 <=> work = <<>>)
  BY <1>1 DEF IsStack, Height
<1>3. CASE Height = 0
  BY <1>2, <1>3 DEF PoolOK, PoolSuffices, EnoughRoom, CallbackBuffers, Nothing, Pools
<1>4. CASE Height > 0
  <2>1. PICK n \in Nat, g \in Nat : PoolAt(n, g)
    BY <1>2, <1>4 DEF PoolOK
  <2>2. \A p \in Pools : used[p] <= Capacity[p]
    BY <1>2, <2>1, TakenAtMost DEF EnoughRoom, Pools
  <2> QED BY <1>1, <1>2, <1>4, <2>2 DEF PoolOK, PoolSuffices, EnoughRoom
<1> QED BY <1>2, <1>3, <1>4

LEMMA SteadyRoom ==
  ASSUME Still
  PROVE  \A f : HasRoom(f)' = HasRoom(f) /\ Oscillates(f)' = Oscillates(f) /\ Inner(f)' = Inner(f)
<1>1. /\ Targets' = Targets /\ LowTargets' = LowTargets /\ \A s : IsOscillator(s)' = IsOscillator(s)
      /\ patch' = patch /\ \A f : Inner(f)' = Inner(f)
  BY Steady DEF Still
<1>2. \A t : Swayed(t)' = Swayed(t)
  BY <1>1, Zenon DEF Swayed
<1>3. \A x, a, b : Does(x, a, b)' = Does(x, a, b)
  BY <1>2, SMT DEF Does, Mono, Index, Give, Take
<1>4. \A t, a : Fits(t, a)' = Fits(t, a)
  BY <1>3, Zenon DEF Fits, Goes
<1>5. \A s : AskWords(s)' = AskWords(s)
  BY <1>1, Zenon DEF AskWords
<1>6. \A f : Oscillates(f)' = Oscillates(f)
  BY <1>1, Zenon DEF Oscillates
<1>7. \A f : HasRoom(f)' = HasRoom(f)
  BY <1>4, <1>5, <1>6, Zenon DEF HasRoom
<1> QED BY <1>1, <1>6, <1>7

LEMMA SameOscillates ==
  ASSUME NEW f, NEW g, g.of = f.of, g.what = f.what
  PROVE  Oscillates(g) <=> Oscillates(f)
BY SameKind DEF Oscillates

(* The function on top goes on.                                            *)
LEMMA PoolReplaced ==
  ASSUME EnoughRoom, AInv, Still, ~short', work # <<>>,
         NEW n \in Nat, NEW g \in Nat, PoolAt(n, g),
         NEW f, work' = With(f), f.of = Top.of, f.what = Top.what, HasRoom(f),
         used' = [p \in Pools |-> used[p] + f.held[p] - Top.held[p]]
  PROVE  PoolOK'
<1>1. IsStack(work)
  BY DEF AInv, IInv, TurnOK
<1>2. PICK h \in Nat : h = Height /\ h > 0
  BY <1>1, AtReplaced
<1>3. /\ Level(h) = Top /\ Height' = h /\ Level(h)' = f
      /\ \A k \in 1 .. h - 1 : Level(k)' = Level(k)
  BY <1>1, <1>2, AtReplaced DEF Height, Level
<1>4. n \in 1 .. h /\ g \in {0} \union (n + 1 .. h)
  BY <1>2 DEF PoolAt
<1>5. ASSUME NEW k \in 1 .. h
      PROVE  /\ HasRoom(Level(k)) /\ HasRoom(Level(k)')
             /\ Level(k)'.of = Level(k).of /\ Level(k)'.what = Level(k).what
  <2>1. HasRoom(Level(k))
    BY <1>2 DEF PoolAt
  <2>2. CASE k = h
    BY <1>3, <2>1, <2>2
  <2>3. CASE k # h
    BY <1>3, <2>1, <2>3
  <2> QED BY <2>2, <2>3
<1>6. ASSUME NEW k \in 1 .. h
      PROVE  /\ HasRoom(Level(k)')
             /\ Level(k)'.of = "stage" <=> k <= n
             /\ k < n => Level(k)'.held = Nothing
             /\ Oscillates(Level(k)') <=> k = g
             /\ k > n /\ Level(n)'.held["mono"] > 3 => Inner(Level(k)')
  <2>1. /\ Level(k).of = "stage" <=> k <= n
        /\ k < n => Level(k).held = Nothing
        /\ Oscillates(Level(k)) <=> k = g
        /\ k > n /\ Level(n).held["mono"] > 3 => Inner(Level(k))
    BY <1>2 DEF PoolAt
  <2>2. Oscillates(Level(k)') <=> Oscillates(Level(k))
    BY <1>5, SameOscillates
  <2>3. Inner(Level(k)') <=> Inner(Level(k))
    BY <1>5, SameKind
  <2>4. k < n => Level(k)' = Level(k)
    BY <1>3, <1>4
  <2>5. k > n => Level(n)' = Level(n)
    BY <1>3, <1>4
  <2> QED BY <1>5, <2>1, <2>2, <2>3, <2>4, <2>5
<1>7. HasRoom(Top) /\ HasRoom(f)
  BY <1>2, <1>3, <1>5
<1>8. f.held \in [Pools -> Nat] /\ Top.held \in [Pools -> Nat]
  BY <1>7 DEF HasRoom
<1>9. /\ DOMAIN used = Pools /\ used["stereo"] = 2 /\ used["index"] = Level(n).held["index"]
      /\ used["mono"] = 1 + Level(n).held["mono"] + (IF g = 0 THEN 0 ELSE Level(g).held["mono"])
      /\ Level(n).held["mono"] \in 0 .. 5 /\ Level(n).held["index"] \in 0 .. 4
      /\ g # 0 => Level(g).held["mono"] \in {0, 1}
  BY <1>2, TakenAtMost
<1>10. /\ used'["stereo"] = 2 + f.held["stereo"] - Top.held["stereo"]
       /\ used'["index"] = used["index"] + f.held["index"] - Top.held["index"]
       /\ used'["mono"] = used["mono"] + f.held["mono"] - Top.held["mono"]
       /\ DOMAIN used' = Pools
  <2>1. DOMAIN used' = Pools /\ \A p \in Pools : used'[p] = used[p] + f.held[p] - Top.held[p]
    OBVIOUS
  <2>2. "mono" \in Pools /\ "stereo" \in Pools /\ "index" \in Pools
    BY DEF Pools
  <2> QED BY <1>9, <2>1, <2>2
<1> DEFINE Right ==
             /\ used'["stereo"] = 2 /\ used'["index"] = Level(n)'.held["index"]
             /\ used'["mono"] = 1 + Level(n)'.held["mono"] + (IF g = 0 THEN 0 ELSE Level(g)'.held["mono"])
<1>11. ASSUME n = h PROVE Right
  <2>1. g = 0 /\ Level(n)' = f /\ Level(n) = Top /\ Top.of = "stage"
    BY <1>2, <1>3, <1>4, <1>11 DEF PoolAt
  <2>2. f.held["stereo"] = 0 /\ Top.held["stereo"] = 0
    BY <1>7, <2>1, HandFits
  <2> QED BY <1>8, <1>9, <1>10, <2>1, <2>2 DEF Pools, Right
<1>12. ASSUME n # h, g = h PROVE Right
  <2>1. /\ Level(n)' = Level(n) /\ Level(g)' = f /\ Level(g) = Top /\ g # 0
        /\ Oscillates(Top) /\ Oscillates(f)
    BY <1>2, <1>3, <1>4, <1>12, SameOscillates DEF PoolAt
  <2>2. /\ f.held["stereo"] = 0 /\ Top.held["stereo"] = 0
        /\ f.held["index"] = 0 /\ Top.held["index"] = 0
    BY <1>7, <2>1 DEF HasRoom
  <2>3. used["mono"] = 1 + Level(n).held["mono"] + Top.held["mono"] /\ Top.held["mono"] \in {0, 1}
    BY <1>9, <2>1
  <2>4. f.held["mono"] \in Nat
    BY <1>8 DEF Pools
  <2>5. used'["mono"] = 1 + Level(n)'.held["mono"] + f.held["mono"]
    <3>1. Level(n)'.held["mono"] = Level(n).held["mono"] /\ Level(n).held["mono"] \in Nat
      BY <1>9, <2>1
    <3>2. used'["mono"] = used["mono"] + f.held["mono"] - Top.held["mono"]
      BY <1>10
    <3>3. \A m, c \in Nat, b \in {0, 1} : ((1 + m + b) + c) - b = 1 + m + c
      OBVIOUS
    <3>4. used["mono"] + f.held["mono"] - Top.held["mono"] = 1 + Level(n).held["mono"] + f.held["mono"]
      BY <2>3, <2>4, <3>1, <3>3
    <3> QED BY <3>1, <3>2, <3>4
  <2>6. used'["stereo"] = 2 /\ used'["index"] = Level(n)'.held["index"]
    BY <1>9, <1>10, <2>1, <2>2
  <2> QED BY <2>1, <2>5, <2>6 DEF Right
<1>13. ASSUME n # h, g # h PROVE Right
  <2>1. /\ Level(n)' = Level(n) /\ (g # 0 => Level(g)' = Level(g))
        /\ Top.of # "stage" /\ ~Oscillates(Top) /\ ~Oscillates(f)
    <3>1. Level(n)' = Level(n) /\ (g # 0 => Level(g)' = Level(g))
      BY <1>3, <1>4, <1>13
    <3>2. /\ (Level(h).of = "stage" <=> h <= n)
          /\ (Oscillates(Level(h)) <=> h = g)
      BY <1>2 DEF PoolAt
    <3> QED BY <1>3, <1>4, <1>13, <3>1, <3>2, SameOscillates
  <2>2. f.held = Nothing /\ Top.held = Nothing
    BY <1>7, <2>1 DEF HasRoom
  <2> QED BY <1>9, <1>10, <2>1, <2>2 DEF Pools, Nothing, Right
<1>14. used' = Taken(n, g)'
  <2>1. Right
    BY <1>11, <1>12, <1>13
  <2>2. \A p \in Pools : p = "mono" \/ p = "stereo" \/ p = "index"
    BY DEF Pools
  <2>3. used' = [p \in Pools |-> used'[p]]
    BY <1>10
  <2>4. Taken(n, g)' = [p \in Pools |-> Taken(n, g)'[p]]
    BY DEF Taken, Pools
  <2>5. \A p \in Pools : used'[p] = Taken(n, g)'[p]
    BY <2>1, <2>2 DEF Taken, Right
  <2> QED BY <2>3, <2>4, <2>5
<1>15. PoolAt(n, g)'
  BY <1>3, <1>4, <1>6, <1>14, SteadyRoom DEF PoolAt
<1>16. n \in 0 .. Height' /\ g \in 0 .. Height' /\ Height' # 0
  BY <1>2, <1>3, <1>4
<1> QED BY <1>15, <1>16 DEF PoolOK

(* The function on top calls another.                                      *)
LEMMA PoolPushed ==
  ASSUME EnoughRoom, AInv, Still, ~short', work # <<>>, UNCHANGED used,
         NEW n \in Nat, NEW g \in Nat, PoolAt(n, g),
         NEW e, DOMAIN e = Fields, e.of = Top.of, e.what = Top.what, e.held = Top.held, HasRoom(e),
         NEW f, work' = <<f>> \o With(e), f.of # "stage", f.held = Nothing, HasRoom(f),
         Outer(Top) => Inner(f), Top.of = "stage" /\ Top.held["mono"] > 3 => Inner(f)
  PROVE  PoolOK'
<1>1. IsStack(work)
  BY DEF AInv, IInv, TurnOK
<1>2. PICK h \in Nat : h = Height /\ h > 0
  BY <1>1, AtReplaced
<1>3. /\ Level(h) = Top /\ Height' = h + 1 /\ Level(h + 1)' = f /\ Level(h)' = e
      /\ \A k \in 1 .. h - 1 : Level(k)' = Level(k)
  BY <1>1, <1>2, AtReplaced, AtCalled DEF Height, Level
<1>4. n \in 1 .. h /\ g \in {0} \union (n + 1 .. h)
  BY <1>2 DEF PoolAt
<1>5. ASSUME NEW k \in 1 .. h
      PROVE  /\ HasRoom(Level(k)')
             /\ Level(k)'.of = Level(k).of /\ Level(k)'.what = Level(k).what
             /\ Level(k)'.held = Level(k).held
  <2>1. HasRoom(Level(k))
    BY <1>2 DEF PoolAt
  <2>2. CASE k = h
    BY <1>3, <2>1, <2>2
  <2>3. CASE k # h
    BY <1>3, <2>1, <2>3
  <2> QED BY <2>2, <2>3
<1>6. /\ Level(n).held["mono"] > 3 => Inner(f)
      /\ g # 0 => Inner(f)
  <2>1. CASE n = h
    <3>1. Top.of = "stage"
      BY <1>2, <1>3, <1>4, <2>1 DEF PoolAt
    <3> QED BY <1>3, <1>4, <2>1, <3>1
  <2>2. CASE n # h
    <3>1. Inner(Top) => Outer(Top)
      BY DEF Inner, Outer, IsGenerator
    <3>2. Level(n).held["mono"] > 3 => Inner(Top)
      BY <1>2, <1>3, <1>4, <2>2 DEF PoolAt
    <3>3. ASSUME g # 0 PROVE Outer(Top)
      <4>1. Outer(Level(g))
        BY <1>2, <1>4, <3>3 DEF PoolAt, Oscillates, Outer
      <4>2. CASE g = h
        BY <1>3, <4>1, <4>2
      <4>3. CASE g # h
        <5>1. g \in 2 .. h /\ h \in 2 .. h /\ g < h
          BY <1>4, <3>3, <4>3
        <5>2. Inner(Level(h))
          BY <1>2, <4>1, <5>1 DEF AInv, StackOK, Nested
        <5> QED BY <1>3, <3>1, <5>2
      <4> QED BY <4>2, <4>3
    <3> QED BY <3>1, <3>2, <3>3
  <2> QED BY <2>1, <2>2
<1>7. Inner(f) => ~Oscillates(f)
  BY DEF Inner, Oscillates, IsGenerator
<1>8. PICK c : c = IF Oscillates(f) THEN h + 1 ELSE g
  OBVIOUS
<1>9. c \in {0} \union (n + 1 .. h + 1) /\ (c # h + 1 => c = g)
  BY <1>4, <1>8
<1>10. ASSUME NEW k \in 1 .. h + 1
       PROVE  /\ HasRoom(Level(k)')
              /\ Level(k)'.of = "stage" <=> k <= n
              /\ k < n => Level(k)'.held = Nothing
              /\ Oscillates(Level(k)') <=> k = c
              /\ k > n /\ Level(n)'.held["mono"] > 3 => Inner(Level(k)')
  <2>1. Level(n)'.held = Level(n).held
    BY <1>4, <1>5
  <2>2. CASE k = h + 1
    <3>1. Level(k)' = f /\ k > n
      BY <1>3, <1>4, <2>2
    <3>2. Oscillates(f) <=> k = c
      BY <1>4, <1>8, <2>2
    <3> QED BY <1>4, <1>6, <2>1, <3>1, <3>2
  <2>3. CASE k # h + 1
    <3>1. k \in 1 .. h
      BY <2>3
    <3>2. /\ Level(k).of = "stage" <=> k <= n
          /\ k < n => Level(k).held = Nothing
          /\ Oscillates(Level(k)) <=> k = g
          /\ k > n /\ Level(n).held["mono"] > 3 => Inner(Level(k))
      BY <1>2, <3>1 DEF PoolAt
    <3>3. Oscillates(Level(k)') <=> Oscillates(Level(k))
      BY <1>5, <3>1, SameOscillates
    <3>4. Inner(Level(k)') <=> Inner(Level(k))
      BY <1>5, <3>1, SameKind
    <3>5. k = c <=> k = g
      <4>1. Oscillates(f) => g = 0
        BY <1>6, <1>7
      <4> QED BY <1>8, <2>3, <3>1, <4>1
    <3> QED BY <1>5, <2>1, <3>1, <3>2, <3>3, <3>4, <3>5
  <2> QED BY <2>2, <2>3
<1>11. used' = Taken(n, c)'
  <2>1. used = Taken(n, g) /\ Level(n)'.held = Level(n).held
    BY <1>2, <1>4, <1>5 DEF PoolAt
  <2>2. Level(n).held["mono"] \in 0 .. 5
    BY <1>2, TakenAtMost
  <2>3. (IF c = 0 THEN 0 ELSE Level(c)'.held["mono"]) = (IF g = 0 THEN 0 ELSE Level(g).held["mono"])
    <3>1. CASE Oscillates(f)
      <4>1. c = h + 1 /\ g = 0 /\ c # 0
        BY <1>2, <1>6, <1>7, <1>8, <3>1
      <4>2. Level(c)'.held["mono"] = 0
        BY <1>3, <4>1 DEF Nothing, Pools
      <4> QED BY <4>1, <4>2
    <3>2. CASE ~Oscillates(f)
      <4>1. c = g /\ (g # 0 => g \in 1 .. h)
        BY <1>4, <1>8, <3>2
      <4> QED BY <1>5, <4>1
    <3> QED BY <3>1, <3>2
  <2> QED BY <2>1, <2>3 DEF Taken
<1>12. PoolAt(n, c)'
  <2>1. n \in 1 .. Height' /\ c \in {0} \union (n + 1 .. Height')
    BY <1>3, <1>4, <1>9
  <2> QED BY <1>3, <1>10, <1>11, <2>1, SteadyRoom DEF PoolAt
<1>13. n \in 0 .. Height' /\ c \in 0 .. Height' /\ Height' # 0
  BY <1>2, <1>3, <1>4, <1>9
<1> QED BY <1>12, <1>13 DEF PoolOK

(* The function on top returns.                                            *)
LEMMA PoolPopped ==
  ASSUME EnoughRoom, AInv, AInv', Still, ~short, Return,
         NEW n \in Nat, NEW g \in Nat, PoolAt(n, g)
  PROVE  PoolOK'
<1>1. IsStack(work) /\ work # <<>> /\ work' = Tail(work) /\ ~short' /\ cycle' /\ cycle
  BY DEF AInv, IInv, TurnOK, Return, Still
<1>2. PICK h \in Nat : h = Height /\ h > 0
  BY <1>1, AtReplaced
<1>3. /\ Level(h) = Top /\ Height' = h - 1
      /\ \A k \in 1 .. h - 1 : Level(k)' = Level(k)
  BY <1>1, <1>2, AtReplaced, AtPopped DEF Height, Level
<1>4. n \in 1 .. h /\ g \in {0} \union (n + 1 .. h)
  BY <1>2 DEF PoolAt
<1>5. /\ DOMAIN used = Pools /\ used["stereo"] = 2 /\ used["index"] = Level(n).held["index"]
      /\ used["mono"] = 1 + Level(n).held["mono"] + (IF g = 0 THEN 0 ELSE Level(g).held["mono"])
      /\ Level(n).held["mono"] \in 0 .. 5 /\ Level(n).held["index"] \in 0 .. 4
      /\ g # 0 => /\ Level(g).held["mono"] \in {0, 1}
                  /\ Level(g).held["stereo"] = 0 /\ Level(g).held["index"] = 0
  BY <1>2, TakenAtMost
<1>6. /\ used' = [p \in Pools |-> used'[p]]
      /\ used'["stereo"] = 2 - Top.held["stereo"]
      /\ used'["index"] = used["index"] - Top.held["index"]
      /\ used'["mono"] = used["mono"] - Top.held["mono"]
  <2>1. used' = [p \in Pools |-> used[p] - Top.held[p]]
    BY <1>5 DEF Return
  <2>2. "mono" \in Pools /\ "stereo" \in Pools /\ "index" \in Pools
    BY DEF Pools
  <2> QED BY <1>5, <2>1, <2>2
<1>7. ASSUME NEW k \in 1 .. h
      PROVE  /\ HasRoom(Level(k))
             /\ Level(k).of = "stage" <=> k <= n
             /\ k < n => Level(k).held = Nothing
             /\ Oscillates(Level(k)) <=> k = g
             /\ k > n /\ Level(n).held["mono"] > 3 => Inner(Level(k))
  BY <1>2 DEF PoolAt
<1> DEFINE Left(m, c) ==
             /\ \A k \in 1 .. h - 1 : /\ k <= m <=> k <= n
                                      /\ k < m => k < n
                                      /\ k = c <=> k = g
             /\ m < n => m = h - 1
             /\ used'["stereo"] = 2 /\ used'["index"] = Level(m).held["index"]
             /\ used'["mono"] = 1 + Level(m).held["mono"]
                                + (IF c = 0 THEN 0 ELSE Level(c).held["mono"])
<1>8. ASSUME NEW m \in 1 .. h - 1, NEW c \in {0} \union (m + 1 .. h - 1), Left(m, c)
      PROVE  PoolOK'
  <2>1. ASSUME NEW k \in 1 .. h - 1
        PROVE  /\ HasRoom(Level(k)')
               /\ Level(k)'.of = "stage" <=> k <= m
               /\ k < m => Level(k)'.held = Nothing
               /\ Oscillates(Level(k)') <=> k = c
               /\ k > m /\ Level(m)'.held["mono"] > 3 => Inner(Level(k)')
    <3>1. Level(k)' = Level(k) /\ Level(m)' = Level(m)
      BY <1>3
    <3>2. k > m => m = n
      BY <1>4, <1>8
    <3> QED BY <1>7, <1>8, <3>1, <3>2
  <2>2. used' = Taken(m, c)'
    <3>1. \A p \in Pools : p = "mono" \/ p = "stereo" \/ p = "index"
      BY DEF Pools
    <3>2. used' = [p \in Pools |-> used'[p]]
      BY <1>6
    <3>3. Taken(m, c)' = [p \in Pools |-> Taken(m, c)'[p]]
      BY DEF Taken, Pools
    <3>4. Level(m)' = Level(m) /\ (c # 0 => Level(c)' = Level(c))
      BY <1>3
    <3>5. \A p \in Pools : used'[p] = Taken(m, c)'[p]
      BY <1>8, <3>1, <3>4 DEF Taken
    <3> QED BY <3>2, <3>3, <3>5
  <2>3. PoolAt(m, c)'
    BY <1>3, <2>1, <2>2, SteadyRoom DEF PoolAt
  <2>4. m \in 0 .. Height' /\ c \in 0 .. Height' /\ Height' # 0
    BY <1>2, <1>3
  <2> QED BY <1>1, <2>3, <2>4 DEF PoolOK
<1>9. CASE h = 1
  <2>1. n = 1 /\ g = 0 /\ Level(n) = Top /\ Top.of = "stage" /\ HasRoom(Top)
    BY <1>3, <1>4, <1>7, <1>9
  <2>2. Top.held["stereo"] = 0
    BY <2>1, HandFits
  <2>3. used'["mono"] = 1 /\ used'["stereo"] = 2 /\ used'["index"] = 0
    BY <1>5, <1>6, <2>1, <2>2
  <2>4. used' = CallbackBuffers
    <3>1. \A p \in Pools : p = "mono" \/ p = "stereo" \/ p = "index"
      BY DEF Pools
    <3>2. CallbackBuffers = [p \in Pools |-> CallbackBuffers[p]]
      BY DEF CallbackBuffers, Pools
    <3>3. \A p \in Pools : used'[p] = CallbackBuffers[p]
      BY <2>3, <3>1 DEF CallbackBuffers
    <3> QED BY <1>6, <3>2, <3>3
  <2> QED BY <1>1, <1>3, <1>9, <2>4 DEF PoolOK
<1>10. CASE h > 1 /\ n = h
  <2>1. g = 0 /\ Level(n) = Top /\ Top.of = "stage" /\ HasRoom(Top) /\ h - 1 \in 1 .. h
    BY <1>3, <1>4, <1>7, <1>10
  <2>2. Level(h - 1).held = Nothing
    BY <1>7, <1>10, <2>1
  <2>3. Top.held["stereo"] = 0
    BY <2>1, HandFits
  <2>4. used'["mono"] = 1 /\ used'["stereo"] = 2 /\ used'["index"] = 0
    BY <1>5, <1>6, <2>1, <2>3
  <2>5. Level(h - 1).held["mono"] = 0 /\ Level(h - 1).held["index"] = 0
    BY <2>2 DEF Nothing, Pools
  <2>6. h - 1 \in 1 .. h - 1
    BY <1>10
  <2>7. Left(h - 1, 0)
    BY <1>10, <2>1, <2>4, <2>5, <2>6
  <2> HIDE DEF Left
  <2> QED BY <1>8, <2>6, <2>7
<1>11. CASE n # h /\ g = h
  <2>1. Level(g) = Top /\ g # 0 /\ n \in 1 .. h - 1
    BY <1>2, <1>3, <1>4, <1>11
  <2>2. /\ used'["mono"] = 1 + Level(n).held["mono"] /\ used'["stereo"] = 2
        /\ used'["index"] = Level(n).held["index"]
    BY <1>5, <1>6, <2>1
  <2>3. \A k \in 1 .. h - 1 : (k <= n <=> k <= n) /\ (k < n => k < n) /\ (k = 0 <=> k = g)
    BY <1>11
  <2>4. ~(n < n) /\ 1 + Level(n).held["mono"] = 1 + Level(n).held["mono"] + 0
    BY <1>5
  <2>5. Left(n, 0)
    BY <2>2, <2>3, <2>4
  <2> HIDE DEF Left
  <2> QED BY <1>8, <2>1, <2>5
<1>12. CASE n # h /\ g # h
  <2>1. Top.of # "stage" /\ ~Oscillates(Top) /\ HasRoom(Top)
    BY <1>2, <1>3, <1>4, <1>7, <1>12
  <2>2. Top.held = Nothing
    BY <2>1 DEF HasRoom
  <2>3. Top.held["mono"] = 0 /\ Top.held["stereo"] = 0 /\ Top.held["index"] = 0
    BY <2>2 DEF Nothing, Pools
  <2>4. /\ used'["mono"] = used["mono"] /\ used'["stereo"] = 2 /\ used'["index"] = used["index"]
    BY <1>5, <1>6, <2>3
  <2>5. n \in 1 .. h - 1 /\ g \in {0} \union (n + 1 .. h - 1)
    BY <1>4, <1>12
  <2>7. used'["index"] = Level(n).held["index"]
    BY <1>5, <2>4
  <2>8. used'["mono"] = 1 + Level(n).held["mono"] + (IF g = 0 THEN 0 ELSE Level(g).held["mono"])
    BY <1>5, <2>4
  <2>9. Left(n, g)
    BY <1>4, <2>4, <2>7, <2>8
  <2> HIDE DEF Left
  <2> QED BY <1>8, <2>5, <2>9
<1> QED BY <1>2, <1>4, <1>9, <1>10, <1>11, <1>12

(* What the function on top holds, and what is taken.                      *)
LEMMA OnTop ==
  ASSUME EnoughRoom, AInv, PoolOK, work # <<>>
  PROVE  /\ \E n, g \in Nat : PoolAt(n, g)
         /\ HasRoom(Top) /\ DOMAIN Top = Fields /\ DOMAIN used = Pools
         /\ \E X : Top.todo \in Seq(X)
         /\ Top.of = "stage" => /\ used["mono"] = 1 + Top.held["mono"] /\ used["index"] = Top.held["index"]
         /\ Oscillates(Top) => used["mono"] \in Nat /\ used["mono"] <= 4 + Top.held["mono"]
<1>1. IsStack(work) /\ DOMAIN Top = Fields
  BY Popped DEF AInv, IInv, TurnOK, Top
<1>2. PICK h \in Nat : h = Height /\ h > 0 /\ Level(h) = Top
  BY <1>1, AtReplaced
<1>3. PICK n \in 0 .. h, g \in 0 .. h : PoolAt(n, g)
  BY <1>2 DEF PoolOK
<1>4. /\ n \in 1 .. h /\ g \in {0} \union (n + 1 .. h)
      /\ HasRoom(Top) /\ (Top.of = "stage" <=> h <= n) /\ (Oscillates(Top) <=> h = g)
  BY <1>2, <1>3 DEF PoolAt
<1>5. /\ DOMAIN used = Pools /\ used["index"] = Level(n).held["index"]
      /\ used["mono"] = 1 + Level(n).held["mono"] + (IF g = 0 THEN 0 ELSE Level(g).held["mono"])
      /\ Level(n).held["mono"] \in 0 .. 5
      /\ g # 0 => Level(n).held["mono"] \in 0 .. 3 /\ Level(g).held["mono"] \in {0, 1}
  BY <1>2, <1>3, TakenAtMost
<1>6. Top.of = "stage" => used["mono"] = 1 + Top.held["mono"] /\ used["index"] = Top.held["index"]
  <2>1. Top.of = "stage" => n = h /\ g = 0
    BY <1>4
  <2> QED BY <1>2, <1>5, <2>1
<1>7. Oscillates(Top) => used["mono"] \in Nat /\ used["mono"] <= 4 + Top.held["mono"]
  <2>1. Oscillates(Top) => g = h /\ g # 0
    BY <1>2, <1>4
  <2> QED BY <1>2, <1>5, <2>1
<1>8. \E X : Top.todo \in Seq(X)
  <2>1. CASE Height > 1
    <3>1. Good(Top)
      BY <1>2, <2>1 DEF AInv, StackOK
    <3> QED BY <3>1 DEF Good, GoodStage, GoodTarget, GoodGenerator
  <2>2. CASE ~(Height > 1)
    BY <2>2, AtBottom
  <2> QED BY <2>1, <2>2
<1> QED BY <1>1, <1>3, <1>4, <1>5, <1>6, <1>7, <1>8

LEMMA Worded ==
  ASSUME NEW s, NEW x \in AskWords(s)
  PROVE  x[1] \in {"scratch", "clock", "ask"} /\ (x[1] = "scratch" => x[2] = 1)
BY DEF AskWords, Scratch, Clock, Ask

(* An instruction that neither takes nor gives a buffer.                   *)
LEMMA Carried ==
  ASSUME EnoughRoom, AInv, PoolOK, NEW what, Doing(what), what \notin {"take", "give"}
  PROVE  /\ HasRoom(Onward) /\ DOMAIN Onward = Fields
         /\ Onward.of = Top.of /\ Onward.what = Top.what /\ Onward.held = Top.held
         /\ Onward.left = Top.left
         /\ Top.of = "stage" => Does(Head(Top.todo), Hand(Top), Hand(Top))
         /\ Oscillates(Top) => Head(Top.todo) \in AskWords(Top.what) /\ Top.held["mono"] = 1
<1>1. work # <<>> /\ Top.todo # <<>> /\ Head(Top.todo)[1] = what
  BY DEF Doing
<1>2. PICK X : Top.todo \in Seq(X)
  BY <1>1, OnTop
<1>3. HasRoom(Top) /\ DOMAIN Top = Fields
  BY <1>1, OnTop
<1>4. /\ DOMAIN Onward = Fields /\ Onward.todo = Tail(Top.todo)
      /\ Onward.of = Top.of /\ Onward.what = Top.what /\ Onward.held = Top.held
      /\ Onward.left = Top.left
  BY <1>3 DEF Onward, Fields
<1>5. ASSUME Top.of = "stage"
      PROVE  HasRoom(Onward) /\ Does(Head(Top.todo), Hand(Top), Hand(Top))
  <2>1. Fits(Top.todo, Hand(Top)) /\ Hand(Top) \in Hands
    BY <1>3, <1>5 DEF HasRoom
  <2>2. PICK b \in Hands : Does(Head(Top.todo), Hand(Top), b) /\ Fits(Tail(Top.todo), b)
    BY <1>1, <1>2, <2>1, GoesFirst
  <2>3. b = Hand(Top)
    BY <1>1, <2>2 DEF Does, Mono, Index, Take, Give
  <2>4. ~Oscillates(Onward) /\ Hand(Onward) = Hand(Top)
    BY <1>4, <1>5 DEF Oscillates, IsGenerator, Hand
  <2> QED BY <1>3, <1>4, <1>5, <2>1, <2>2, <2>3, <2>4 DEF HasRoom
<1>6. ASSUME Oscillates(Top)
      PROVE  HasRoom(Onward) /\ Head(Top.todo) \in AskWords(Top.what) /\ Top.held["mono"] = 1
  <2>1. PICK W : W = AskWords(Top.what)
    OBVIOUS
  <2>2. Top.held["mono"] = 1 /\ Top.todo \in Seq(W)
    <3> SUFFICES ASSUME NEW u \in Seq(W), Top.todo = <<Take("mono")>> \o u PROVE FALSE
      BY <1>3, <1>6, <2>1 DEF HasRoom
    <3>1. Head(Top.todo) = Take("mono")
      OBVIOUS
    <3> QED BY <1>1, <3>1 DEF Take
  <2>3. Head(Top.todo) \in W /\ Tail(Top.todo) \in Seq(W)
    BY <1>1, <2>2
  <2>4. Oscillates(Onward) /\ Onward.of # "stage"
    BY <1>4, <1>6, SameOscillates DEF Oscillates, IsGenerator
  <2> QED BY <1>3, <1>4, <1>6, <2>1, <2>2, <2>3, <2>4 DEF HasRoom
<1>7. ASSUME Top.of # "stage", ~Oscillates(Top)
      PROVE  HasRoom(Onward)
  BY <1>3, <1>4, <1>7, SameOscillates DEF HasRoom
<1> QED BY <1>4, <1>5, <1>6, <1>7

LEMMA PoolResumed ==
  ASSUME EnoughRoom, AInv, PoolOK, Still, ~short', UNCHANGED used,
         NEW what, Doing(what), what \notin {"take", "give"}, work' = Resumed
  PROVE  PoolOK'
<1>1. work # <<>>
  BY DEF Doing
<1>2. PICK n \in Nat, g \in Nat : PoolAt(n, g)
  BY <1>1, OnTop
<1>3. /\ HasRoom(Onward) /\ Onward.of = Top.of /\ Onward.what = Top.what /\ Onward.held = Top.held
  BY Carried
<1>4. work' = With(Onward)
  BY DEF Resumed
<1>5. Height \in Nat
  BY <1>1, AtReplaced DEF AInv, IInv, TurnOK
<1>6. \A p \in Pools : used[p] \in Int /\ Onward.held[p] \in Int /\ Onward.held[p] = Top.held[p]
  <2>1. /\ used["stereo"] = 2 /\ used["index"] \in Nat /\ used["mono"] \in Nat
    BY <1>2, <1>5, TakenAtMost
  <2>2. Onward.held \in [Pools -> Nat]
    BY <1>3 DEF HasRoom
  <2> QED BY <1>3, <2>1, <2>2 DEF Pools
<1>7. used' = [p \in Pools |-> used[p] + Onward.held[p] - Top.held[p]]
  <2>1. used = Taken(n, g)
    BY <1>2 DEF PoolAt
  <2>2. used = [p \in Pools |-> used[p]]
    BY <2>1 DEF Taken, Pools
  <2> QED BY <1>6, <2>2
<1> QED BY <1>1, <1>2, <1>3, <1>4, <1>7, PoolReplaced

(* Targets ask and run; only stages and oscillators do other things.       *)
LEMMA Workers ==
  ASSUME AInv, NEW what, Doing(what), what \notin {"run", "ask", "discard"}
  PROVE  Top.of = "stage" \/ Oscillates(Top)
<1>1. /\ Good(Top) /\ Top.todo # <<>> /\ Head(Top.todo)[1] = what
  BY Aloft
<1>2. CASE GoodStage(Top)
  BY <1>2 DEF GoodStage
<1>3. CASE GoodGenerator(Top)
  BY <1>1, <1>3 DEF GoodGenerator, Oscillates
<1>4. CASE GoodTarget(Top)
  <2>1. PICK W : W = TargetWords(Top.what)
    OBVIOUS
  <2>2. Head(Top.todo) \in W
    BY <1>1, <1>4, <2>1 DEF GoodTarget
  <2>3. Head(Top.todo)[1] \in {"run", "ask"}
    BY <2>1, <2>2 DEF TargetWords, Run, Ask
  <2> QED BY <1>1, <2>3
<1> QED BY <1>1, <1>2, <1>3, <1>4 DEF Good

LEMMA ScratchFits ==
  ASSUME EnoughRoom, AInv, PoolOK, Still, UseScratch
  PROVE  PoolOK'
<1>1. /\ Doing("scratch") /\ work # <<>> /\ work' = Resumed /\ UNCHANGED used
      /\ short' = (short \/ used["mono"] + Arg > Capacity["mono"])
  BY DEF UseScratch, Doing
<1>2. PICK x : x = Head(Top.todo) /\ x[1] = "scratch" /\ Arg = x[2]
  BY <1>1 DEF Doing, Arg
<1>3. /\ HasRoom(Top)
      /\ Top.of = "stage" => used["mono"] = 1 + Top.held["mono"]
      /\ Oscillates(Top) => used["mono"] \in Nat /\ used["mono"] <= 4 + Top.held["mono"]
  BY <1>1, OnTop
<1>4. /\ Top.of = "stage" => Does(x, Hand(Top), Hand(Top))
      /\ Oscillates(Top) => x \in AskWords(Top.what) /\ Top.held["mono"] = 1
  BY <1>1, <1>2, Carried
<1>5. Arg \in Nat /\ used["mono"] + Arg <= 6
  <2>1. CASE Top.of = "stage"
    <3>1. x[2] \in Nat /\ Hand(Top)[1] + x[2] <= 5
      BY <1>2, <1>4, <2>1 DEF Does, Mono, Index, Take, Give
    <3>2. Hand(Top)[1] = Top.held["mono"] /\ Top.held["mono"] \in 0 .. 5
      BY <1>3, <2>1, HandFits DEF Hand
    <3> QED BY <1>2, <1>3, <2>1, <3>1, <3>2
  <2>2. CASE Oscillates(Top)
    <3>1. x[2] = 1
      BY <1>2, <1>4, <2>2, Worded
    <3> QED BY <1>2, <1>3, <1>4, <2>2, <3>1
  <2> QED BY <1>1, <2>1, <2>2, Workers
<1>6. ~short'
  <2>1. ~short /\ Capacity["mono"] >= 6 /\ Capacity["mono"] \in Nat
    BY DEF PoolOK, EnoughRoom, Pools
  <2>2. used["mono"] \in Nat
    <3>1. Top.of = "stage" => Top.held["mono"] \in 0 .. 5
      BY <1>3, HandFits
    <3> QED BY <1>1, <1>3, <3>1, Workers
  <2>3. ~(used["mono"] + Arg > Capacity["mono"])
    BY <1>5, <2>1, <2>2
  <2> QED BY <1>1, <2>1, <2>3, Zenon
<1> QED BY <1>1, <1>6, PoolResumed

(* What a frame holds after a buffer more, or less.                        *)
LEMMA Held ==
  ASSUME NEW f, DOMAIN f = Fields, f.held \in [Pools -> Nat], NEW p \in Pools, NEW m \in Nat
  PROVE  LET g == [f EXCEPT !.held[p] = m]
         IN /\ g.of = f.of /\ g.what = f.what /\ g.todo = f.todo /\ g.left = f.left
            /\ g.held \in [Pools -> Nat] /\ g.held[p] = m
            /\ \A q \in Pools : q # p => g.held[q] = f.held[q]
<1>1. PICK h : h = [f.held EXCEPT ![p] = m]
  OBVIOUS
<1>2. h \in [Pools -> Nat] /\ h[p] = m /\ \A q \in Pools : q # p => h[q] = f.held[q]
  BY <1>1
<1>3. PICK g : g = [f EXCEPT !.held = h]
  OBVIOUS
<1>4. g.of = f.of /\ g.what = f.what /\ g.todo = f.todo /\ g.left = f.left /\ g.held = h
  BY <1>3 DEF Fields
<1>5. [f EXCEPT !.held[p] = m] = g
  BY <1>1, <1>3
<1> QED BY <1>2, <1>4, <1>5

(* A buffer more, or less, for the function on top.                        *)
LEMMA PoolChanged ==
  ASSUME EnoughRoom, AInv, PoolOK, Still, ~short', work # <<>>,
         NEW p \in Pools, NEW d \in {-1, 1}, Top.held[p] + d \in Nat,
         NEW e, e = [Onward EXCEPT !.held[p] = @ + d], HasRoom(e), work' = With(e),
         used' = [used EXCEPT ![p] = @ + d]
  PROVE  PoolOK'
<1>1. /\ \E n, g \in Nat : PoolAt(n, g)
      /\ DOMAIN Top = Fields /\ Top.held \in [Pools -> Nat]
  BY OnTop DEF HasRoom
<1>2. PICK n \in Nat, g \in Nat : PoolAt(n, g)
  BY <1>1
<1>3. /\ DOMAIN Onward = Fields /\ Onward.of = Top.of /\ Onward.what = Top.what
      /\ Onward.held = Top.held
  BY <1>1 DEF Onward, Fields
<1>4. /\ e.of = Top.of /\ e.what = Top.what /\ e.held[p] = Top.held[p] + d
      /\ \A q \in Pools : q # p => e.held[q] = Top.held[q]
  <2>1. PICK m \in Nat : m = Top.held[p] + d
    OBVIOUS
  <2>2. e = [Onward EXCEPT !.held[p] = m]
    BY <1>3, <2>1
  <2> QED BY <1>1, <1>3, <2>1, <2>2, Held
<1>5. Height \in Nat
  BY AtReplaced DEF AInv, IInv, TurnOK
<1>6. \A q \in Pools : used[q] \in Int
  BY <1>2, <1>5, TakenAtMost DEF Pools
<1>7. used = [q \in Pools |-> used[q]]
  BY <1>2 DEF PoolAt, Taken, Pools
<1>8. used' = [q \in Pools |-> used[q] + e.held[q] - Top.held[q]]
  <2>1. used' = [q \in Pools |-> IF q = p THEN used[q] + d ELSE used[q]]
    BY <1>7
  <2>2. ASSUME NEW q \in Pools
        PROVE  used[q] + e.held[q] - Top.held[q] = IF q = p THEN used[q] + d ELSE used[q]
    <3>1. used[q] \in Int /\ Top.held[q] \in Int /\ d \in Int
      BY <1>1, <1>6
    <3>2. CASE q = p
      BY <1>4, <3>1, <3>2
    <3>3. CASE q # p
      BY <1>4, <3>1, <3>3
    <3> QED BY <3>2, <3>3
  <2> QED BY <2>1, <2>2
<1> QED BY <1>2, <1>4, <1>8, PoolReplaced

LEMMA TakeFits ==
  ASSUME EnoughRoom, AInv, PoolOK, Still, TakeBuffer
  PROVE  PoolOK'
<1>1. Doing("take") /\ work # <<>> /\ Top.todo # <<>> /\ Head(Top.todo)[1] = "take"
  BY DEF TakeBuffer, Doing
<1>2. PICK x : x = Head(Top.todo) /\ Arg = x[2]
  BY DEF Arg
<1>3. /\ HasRoom(Top) /\ DOMAIN Top = Fields /\ Top.held \in [Pools -> Nat]
      /\ Top.of = "stage" => used["mono"] = 1 + Top.held["mono"] /\ used["index"] = Top.held["index"]
      /\ Oscillates(Top) => used["mono"] \in Nat /\ used["mono"] <= 4 + Top.held["mono"]
  BY <1>1, OnTop DEF HasRoom
<1>4. PICK X : Top.todo \in Seq(X)
  BY <1>1, OnTop
<1>5. /\ DOMAIN Onward = Fields /\ Onward.of = Top.of /\ Onward.what = Top.what
      /\ Onward.held = Top.held /\ Onward.todo = Tail(Top.todo)
  BY <1>3 DEF Onward, Fields
<1>6. PICK e : e = [Onward EXCEPT !.held[Arg] = @ + 1]
  OBVIOUS
<1>7. ASSUME Arg \in Pools
      PROVE  /\ e.of = Top.of /\ e.what = Top.what /\ e.todo = Tail(Top.todo)
             /\ e.held \in [Pools -> Nat] /\ e.held[Arg] = Top.held[Arg] + 1
             /\ \A q \in Pools : q # Arg => e.held[q] = Top.held[q]
  <2>1. PICK m \in Nat : m = Top.held[Arg] + 1
    BY <1>3, <1>7
  <2>2. e = [Onward EXCEPT !.held[Arg] = m]
    BY <1>5, <1>6, <2>1
  <2> QED BY <1>3, <1>5, <1>7, <2>1, <2>2, Held
<1>8. Arg \in Pools /\ HasRoom(e) /\ used[Arg] < Capacity[Arg]
  <2>1. CASE Top.of = "stage"
    <3>1. Fits(Top.todo, Hand(Top)) /\ Hand(Top) \in Hands /\ Top.held["stereo"] = 0
      BY <1>3, <2>1 DEF HasRoom
    <3>2. PICK b \in Hands : Does(x, Hand(Top), b) /\ Fits(Tail(Top.todo), b)
      BY <1>1, <1>2, <1>4, <3>1, GoesFirst
    <3>3. /\ b[1] \in 0 .. 5 /\ b[2] \in 0 .. 4
          /\ Top.held["mono"] \in 0 .. 5 /\ Top.held["index"] \in 0 .. 4
      BY <1>3, <2>1, HandFits DEF Hands
    <3>4. ~Oscillates(e) \/ ~(Arg \in Pools)
      BY <1>7, <2>1 DEF Oscillates, IsGenerator
    <3>5. CASE x = Mono
      <4>1. Arg = "mono" /\ Arg \in Pools /\ b = <<Top.held["mono"] + 1, Top.held["index"]>>
        BY <1>1, <1>2, <3>2, <3>5 DEF Does, Mono, Index, Take, Give, Pools, Hand
      <4>2. e.held["mono"] = Top.held["mono"] + 1 /\ e.held["index"] = Top.held["index"]
            /\ e.held["stereo"] = 0
        BY <1>7, <3>1, <4>1 DEF Pools
      <4>3. Hand(e) = b
        BY <4>1, <4>2 DEF Hand
      <4>4. HasRoom(e)
        BY <1>7, <2>1, <3>2, <3>4, <4>1, <4>2, <4>3 DEF HasRoom
      <4>5. used["mono"] <= 5 /\ used["mono"] \in Nat
        BY <1>3, <2>1, <3>3, <4>1
      <4> QED BY <4>1, <4>4, <4>5 DEF EnoughRoom
    <3>6. CASE x = Index
      <4>1. Arg = "index" /\ Arg \in Pools /\ b = <<Top.held["mono"], Top.held["index"] + 1>>
        BY <1>1, <1>2, <3>2, <3>6 DEF Does, Mono, Index, Take, Give, Pools, Hand
      <4>2. e.held["mono"] = Top.held["mono"] /\ e.held["index"] = Top.held["index"] + 1
            /\ e.held["stereo"] = 0
        BY <1>7, <3>1, <4>1 DEF Pools
      <4>3. Hand(e) = b
        BY <4>1, <4>2 DEF Hand
      <4>4. HasRoom(e)
        BY <1>7, <2>1, <3>2, <3>4, <4>1, <4>2, <4>3 DEF HasRoom
      <4>5. used["index"] <= 3 /\ used["index"] \in Nat
        BY <1>3, <2>1, <3>3, <4>1
      <4> QED BY <4>1, <4>4, <4>5 DEF EnoughRoom
    <3> QED BY <1>1, <1>2, <3>2, <3>5, <3>6 DEF Does, Give
  <2>2. CASE Oscillates(Top)
    <3>1. PICK W : W = AskWords(Top.what)
      OBVIOUS
    <3>2. /\ Top.held["stereo"] = 0 /\ Top.held["index"] = 0
          /\ \/ Top.held["mono"] = 1 /\ Top.todo \in Seq(W)
             \/ Top.held["mono"] = 0 /\ \E u \in Seq(W) : Top.todo = <<Take("mono")>> \o u
      BY <1>3, <2>2, <3>1 DEF HasRoom
    <3>3. ~(Top.todo \in Seq(W))
      <4> SUFFICES ASSUME Top.todo \in Seq(W) PROVE FALSE
        OBVIOUS
      <4>1. x \in W
        BY <1>1, <1>2
      <4> QED BY <1>1, <1>2, <3>1, <4>1, Worded
    <3>4. PICK u \in Seq(W) : Top.todo = <<Take("mono")>> \o u
      BY <3>2, <3>3
    <3>5. x = Take("mono") /\ Tail(Top.todo) = u
      BY <1>2, <3>4
    <3>6. Arg = "mono" /\ Arg \in Pools
      BY <1>2, <3>5 DEF Take, Pools
    <3>7. e.held["mono"] = 1 /\ e.held["index"] = 0 /\ e.held["stereo"] = 0
      BY <1>7, <3>2, <3>3, <3>6 DEF Pools
    <3>8. Oscillates(e) /\ e.of # "stage"
      BY <1>7, <2>2, <3>6, SameOscillates DEF Oscillates, IsGenerator
    <3>9. HasRoom(e)
      BY <1>7, <3>1, <3>5, <3>6, <3>7, <3>8 DEF HasRoom
    <3>10. used["mono"] \in Nat /\ used["mono"] <= 4
      BY <1>3, <2>2, <3>2, <3>3
    <3> QED BY <3>6, <3>9, <3>10 DEF EnoughRoom, Pools
  <2> QED BY <1>1, <2>1, <2>2, Workers
<1>9. /\ used' = [used EXCEPT ![Arg] = @ + 1] /\ work' = With(e) /\ short' = short
  BY <1>6, <1>8 DEF TakeBuffer
<1>10. Top.held[Arg] + 1 \in Nat /\ ~short'
  BY <1>3, <1>8, <1>9 DEF PoolOK
<1> QED BY <1>1, <1>6, <1>8, <1>9, <1>10, PoolChanged

LEMMA GiveFits ==
  ASSUME EnoughRoom, AInv, PoolOK, Still, GiveBuffer
  PROVE  PoolOK'
<1>1. /\ Doing("give") /\ work # <<>> /\ Top.todo # <<>> /\ Head(Top.todo)[1] = "give"
      /\ used' = [used EXCEPT ![Arg] = @ - 1] /\ work' = With([Onward EXCEPT !.held[Arg] = @ - 1])
      /\ short' = short
  BY DEF GiveBuffer, Doing
<1>2. PICK x : x = Head(Top.todo) /\ Arg = x[2]
  BY DEF Arg
<1>3. HasRoom(Top) /\ DOMAIN Top = Fields /\ Top.held \in [Pools -> Nat]
  BY <1>1, OnTop DEF HasRoom
<1>4. PICK X : Top.todo \in Seq(X)
  BY <1>1, OnTop
<1>5. /\ DOMAIN Onward = Fields /\ Onward.of = Top.of /\ Onward.what = Top.what
      /\ Onward.held = Top.held /\ Onward.todo = Tail(Top.todo)
  BY <1>3 DEF Onward, Fields
<1>6. ~Oscillates(Top)
  <2> SUFFICES ASSUME Oscillates(Top) PROVE FALSE
    OBVIOUS
  <2>1. PICK W : W = AskWords(Top.what)
    OBVIOUS
  <2>2. CASE Top.todo \in Seq(W)
    <3>1. x \in W
      BY <1>1, <1>2, <2>2
    <3> QED BY <1>1, <1>2, <2>1, <3>1, Worded
  <2>3. CASE \E u \in Seq(W) : Top.todo = <<Take("mono")>> \o u
    <3>1. x = Take("mono")
      BY <1>2, <2>3
    <3> QED BY <1>1, <1>2, <3>1 DEF Take
  <2> QED BY <1>3, <2>1, <2>2, <2>3 DEF HasRoom
<1>7. Top.of = "stage"
  BY <1>1, <1>6, Workers
<1>8. Fits(Top.todo, Hand(Top)) /\ Hand(Top) \in Hands /\ Top.held["stereo"] = 0
  BY <1>3, <1>7 DEF HasRoom
<1>9. PICK b \in Hands : Does(x, Hand(Top), b) /\ Fits(Tail(Top.todo), b)
  BY <1>1, <1>2, <1>4, <1>8, GoesFirst
<1>10. x = Give("mono") /\ b = <<Top.held["mono"] - 1, Top.held["index"]>>
  BY <1>1, <1>2, <1>9 DEF Does, Mono, Index, Take, Give, Hand
<1>11. Arg = "mono" /\ Arg \in Pools /\ Top.held["mono"] - 1 \in Nat /\ Top.held["mono"] \in 0 .. 5
  BY <1>2, <1>3, <1>7, <1>9, <1>10, HandFits DEF Give, Pools, Hands
<1>12. PICK m \in Nat : m = Top.held["mono"] - 1
  BY <1>11
<1>13. PICK e : e = [Onward EXCEPT !.held["mono"] = m]
  OBVIOUS
<1>14. /\ e.of = Top.of /\ e.what = Top.what /\ e.todo = Tail(Top.todo)
       /\ e.held \in [Pools -> Nat] /\ e.held["mono"] = m
       /\ e.held["stereo"] = 0 /\ e.held["index"] = Top.held["index"]
  BY <1>3, <1>5, <1>8, <1>13, Held DEF Pools
<1>15. HasRoom(e)
  <2>1. Hand(e) = b
    BY <1>10, <1>12, <1>14 DEF Hand
  <2>2. ~Oscillates(e)
    BY <1>7, <1>14 DEF Oscillates, IsGenerator
  <2> QED BY <1>7, <1>9, <1>14, <2>1, <2>2 DEF HasRoom
<1>16. m = Top.held["mono"] + (-1) /\ used' = [used EXCEPT !["mono"] = used["mono"] - 1]
  BY <1>1, <1>11, <1>12
<1>17. used["mono"] - 1 = used["mono"] + (-1)
  <2>1. used["mono"] = 1 + Top.held["mono"]
    BY <1>1, <1>7, OnTop
  <2> QED BY <1>11, <2>1
<1>18. e = [Onward EXCEPT !.held["mono"] = @ + (-1)]
  BY <1>5, <1>13, <1>16
<1>19. work' = With(e)
  <2>1. [Onward EXCEPT !.held["mono"] = @ - 1] = e
    BY <1>5, <1>12, <1>13
  <2> QED BY <1>1, <1>11, <2>1
<1>20. used' = [used EXCEPT !["mono"] = @ + (-1)]
  BY <1>16, <1>17
<1>21. "mono" \in Pools /\ -1 \in {-1, 1} /\ Top.held["mono"] + (-1) \in Nat /\ ~short'
  BY <1>1, <1>11, <1>12, <1>16 DEF PoolOK
<1> QED BY <1>1, <1>15, <1>18, <1>19, <1>20, <1>21, PoolChanged

LEMMA PlainRoom ==
  ASSUME NEW f, f.held = Nothing, f.of # "stage", ~Oscillates(f)
  PROVE  HasRoom(f)
BY DEF HasRoom, Nothing

LEMMA NewFrame ==
  ASSUME EnoughRoom, NEW of, NEW what, NEW todo, NEW rest
  PROVE  LET f == Frame(of, what, todo, rest)
         IN /\ f.of = of /\ f.what = what /\ f.todo = todo /\ f.left = rest /\ f.held = Nothing
            /\ DOMAIN f = Fields
BY DEF Frame, EnoughRoom, Nothing, Fields

LEMMA AskFits ==
  ASSUME EnoughRoom, AInv, PoolOK, Still, GetModulation
  PROVE  PoolOK'
<1> DEFINE asked == Arg \in Targets /\ Arg[1] = currentRegion /\ Arg \notin readyTargets
<1>1. Doing("ask") /\ work # <<>> /\ UNCHANGED used /\ ~short'
  BY DEF GetModulation, Doing, PoolOK
<1>2. CASE ~asked
  <2>1. work' = Resumed
    BY <1>2 DEF GetModulation
  <2> QED BY <1>1, <2>1, PoolResumed
<1>3. CASE asked
  <2>1. PICK f : f = Frame("target", Arg, <<>>, patch.feeds[Arg])
    OBVIOUS
  <2>2. work' = <<f>> \o With(Onward) /\ Arg \in Targets
    BY <1>3, <2>1 DEF GetModulation, Calling, Resumed
  <2>3. f.of = "target" /\ f.what = Arg /\ f.held = Nothing
    BY <2>1, NewFrame
  <2>4. HasRoom(f)
    BY <2>3, PlainRoom DEF Oscillates, IsGenerator
  <2>5. /\ Good(Top) /\ patch \in Patches /\ Top.todo # <<>> /\ Head(Top.todo)[1] = "ask"
    BY <1>1, Aloft
  <2>6. Outer(Top) => Inner(f)
    BY <2>2, <2>3, <2>5, Spoken DEF Arg, Inner
  <2>7. /\ HasRoom(Onward) /\ DOMAIN Onward = Fields
        /\ Onward.of = Top.of /\ Onward.what = Top.what /\ Onward.held = Top.held
        /\ Top.of = "stage" => Does(Head(Top.todo), Hand(Top), Hand(Top))
    BY <1>1, Carried
  <2>8. Top.of = "stage" /\ Top.held["mono"] > 3 => Inner(f)
    <3> SUFFICES ASSUME Top.of = "stage", Top.held["mono"] > 3 PROVE Arg \in LowTargets
      BY <2>3 DEF Inner
    <3>1. PICK x : x = Head(Top.todo) /\ x[1] = "ask" /\ Arg = x[2]
      BY <2>5 DEF Arg
    <3>2. Does(x, Hand(Top), Hand(Top))
      BY <2>7, <3>1
    <3>3. Swayed(x[2]) => Hand(Top)[1] <= 3
      BY <3>1, <3>2 DEF Does, Mono, Index, Take, Give
    <3>4. Hand(Top)[1] = Top.held["mono"] /\ Top.held["mono"] \in 0 .. 5
      BY <1>1, OnTop, HandFits DEF Hand
    <3>5. ~Swayed(Arg)
      BY <3>1, <3>3, <3>4
    <3> QED BY <2>2, <3>5 DEF Swayed
  <2>9. PICK n \in Nat, g \in Nat : PoolAt(n, g)
    BY <1>1, OnTop
  <2> QED BY <1>1, <2>2, <2>3, <2>4, <2>6, <2>7, <2>8, <2>9, PoolPushed
<1> QED BY <1>2, <1>3

LEMMA AddFits ==
  ASSUME EnoughRoom, AInv, PoolOK, Still, AddSource
  PROVE  PoolOK'
<1>1. work # <<>> /\ Top.todo = <<>> /\ Top.left # {} /\ UNCHANGED used /\ ~short'
  BY DEF AddSource, PoolOK
<1>2. Height > 1
  BY <1>1, AtBottom
<1>3. Good(Top)
  <2>1. PICK n \in Nat : n = Height /\ n > 1 /\ Level(n) = Top
    BY <1>1, <1>2, AtReplaced DEF AInv, IInv, TurnOK
  <2>2. n \in 2 .. Height
    BY <2>1
  <2> QED BY <2>1, <2>2 DEF AInv, StackOK
<1>4. Top.of = "target"
  BY <1>1, <1>3 DEF Good, GoodStage, GoodGenerator, GoodTarget
<1>5. PICK l, t : work' = With([Top EXCEPT !.left = l, !.todo = t])
  BY DEF AddSource
<1>6. PICK e : e = [Top EXCEPT !.left = l, !.todo = t]
  OBVIOUS
<1>7. /\ DOMAIN Top = Fields /\ HasRoom(Top) /\ DOMAIN used = Pools
      /\ \E n, g \in Nat : PoolAt(n, g)
  BY <1>1, OnTop
<1>8. e.of = "target" /\ e.what = Top.what /\ e.held = Top.held
  BY <1>4, <1>6, <1>7 DEF Fields
<1>9. Top.held = Nothing
  BY <1>4, <1>7 DEF HasRoom, Oscillates, IsGenerator
<1>10. HasRoom(e)
  BY <1>8, <1>9, PlainRoom DEF Oscillates, IsGenerator
<1>11. PICK n \in Nat, g \in Nat : PoolAt(n, g)
  BY <1>7
<1>12. used' = [p \in Pools |-> used[p] + e.held[p] - Top.held[p]]
  <2>1. Height \in Nat
    BY <1>1, AtReplaced DEF AInv, IInv, TurnOK
  <2>2. \A p \in Pools : used[p] \in Int /\ e.held[p] = 0 /\ Top.held[p] = 0
    BY <1>8, <1>9, <1>11, <2>1, TakenAtMost DEF Pools, Nothing
  <2>3. used = [p \in Pools |-> used[p]]
    BY <1>11 DEF PoolAt, Taken, Pools
  <2> QED BY <1>1, <2>2, <2>3
<1> QED BY <1>1, <1>4, <1>5, <1>6, <1>8, <1>10, <1>11, <1>12, PoolReplaced

(* Only endVoice discards, at the bottom of the stack.                     *)
LEMMA Grounded ==
  ASSUME AInv, Doing("discard")
  PROVE  ~(Height > 1)
<1> SUFFICES ASSUME Height > 1 PROVE FALSE
  OBVIOUS
<1>1. work # <<>> /\ Top.todo # <<>> /\ Head(Top.todo)[1] = "discard"
  BY DEF Doing
<1>2. PICK n \in Nat : n = Height /\ n > 1 /\ Level(n) = Top
  BY <1>1, AtReplaced DEF AInv, IInv, TurnOK
<1>3. n \in 2 .. Height
  BY <1>2
<1>4. Good(Top)
  BY <1>2, <1>3 DEF AInv, StackOK
<1> QED BY <1>1, <1>4, Spoken DEF AInv, IInv, VoicesOK

LEMMA GenerateFits ==
  ASSUME EnoughRoom, AInv, PoolOK, Still, NEW what \in {"run", "discard"}, Generate(what)
  PROVE  PoolOK'
<1>1. Doing(what) /\ work # <<>> /\ UNCHANGED used /\ ~short' /\ what \notin {"take", "give"}
  BY DEF Generate, Doing, PoolOK
<1>2. CASE Arg \in readySources
  <2>1. work' = Resumed
    BY <1>2 DEF Generate
  <2> QED BY <1>1, <2>1, PoolResumed
<1>3. CASE Arg \notin readySources
  <2>1. PICK f : f = Frame(what, Arg, Generator(Arg), {})
    OBVIOUS
  <2>2. work' = <<f>> \o With(Onward)
    BY <1>3, <2>1 DEF Generate, Calling, Resumed
  <2>3. f.of = what /\ f.what = Arg /\ f.todo = Generator(Arg) /\ f.held = Nothing
    BY <2>1, NewFrame
  <2>4. Arg \in Sources /\ patch \in Patches
    <3>1. patch \in Patches
      BY DEF AInv, IInv, VoicesOK
    <3>2. CASE what = "run"
      <4>1. Good(Top) /\ Top.todo # <<>> /\ Head(Top.todo)[1] = "run"
        BY <1>1, <3>2, Aloft
      <4>2. Arg \in Own
        BY <3>1, <4>1, Spoken DEF Arg
      <4> QED BY <3>1, <4>2 DEF Own, PerCycle, PerVoice
    <3>3. CASE what = "discard"
      <4>1. ~(Height > 1)
        BY <1>1, <3>3, Grounded
      <4>2. Arg \in PerVoice(currentRegion)
        BY <1>1, <4>1, AtBottom DEF Doing
      <4> QED BY <3>1, <4>2 DEF PerVoice
    <3> QED BY <3>2, <3>3
  <2>5. HasRoom(f)
    <3>1. CASE Oscillates(f)
      <4>1. \E u \in Seq(AskWords(Arg)) : f.todo = <<Take("mono")>> \o u
        BY <2>3, <2>4, <3>1, OscillatorSays DEF Generator, Oscillates
      <4>2. /\ f.held \in [Pools -> Nat] /\ f.of # "stage"
            /\ f.held["mono"] = 0 /\ f.held["stereo"] = 0 /\ f.held["index"] = 0
        BY <2>3 DEF Nothing, Pools
      <4> QED BY <2>3, <3>1, <4>1, <4>2 DEF HasRoom
    <3>2. CASE ~Oscillates(f)
      BY <2>3, <3>2, PlainRoom
    <3> QED BY <3>1, <3>2
  <2>6. /\ HasRoom(Onward) /\ DOMAIN Onward = Fields
        /\ Onward.of = Top.of /\ Onward.what = Top.what /\ Onward.held = Top.held
        /\ Top.of = "stage" => Does(Head(Top.todo), Hand(Top), Hand(Top))
    BY <1>1, Carried
  <2>7. Top.of = "stage" /\ Top.held["mono"] > 3 => Inner(f)
    <3> SUFFICES ASSUME Top.of = "stage", Top.held["mono"] > 3 PROVE FALSE
      OBVIOUS
    <3>1. PICK x : x = Head(Top.todo) /\ x[1] = what
      BY <1>1 DEF Doing
    <3>2. Does(x, Hand(Top), Hand(Top))
      BY <2>6, <3>1
    <3>3. Hand(Top)[1] <= 3
      BY <3>1, <3>2 DEF Does, Mono, Index, Take, Give
    <3>4. Hand(Top)[1] = Top.held["mono"] /\ Top.held["mono"] \in 0 .. 5
      BY <1>1, OnTop, HandFits DEF Hand
    <3> QED BY <3>3, <3>4
  <2>8. Outer(Top) => Inner(f)
    <3>1. CASE what = "run"
      <4>1. Good(Top) /\ Top.todo # <<>> /\ Head(Top.todo)[1] = "run"
        BY <1>1, <3>1, Aloft
      <4>2. Top.of = "target" /\ (Top.what \in LowTargets => ~IsOscillator(Arg))
        BY <2>4, <4>1, Spoken DEF Arg
      <4> QED BY <2>3, <3>1, <4>2 DEF Outer, Inner, IsGenerator
    <3>2. CASE what = "discard"
      <4>1. Top.of = "stage"
        BY <1>1, <3>2, Grounded, AtBottom
      <4> QED BY <4>1 DEF Outer, IsGenerator
    <3> QED BY <3>1, <3>2
  <2>9. PICK n \in Nat, g \in Nat : PoolAt(n, g)
    BY <1>1, OnTop
  <2> QED BY <1>1, <2>2, <2>3, <2>5, <2>6, <2>7, <2>8, <2>9, PoolPushed
<1> QED BY <1>2, <1>3

LEMMA StageFits ==
  ASSUME EnoughRoom, AInv, AInv', PoolOK, Still, MatrixStep
  PROVE  PoolOK'
<1>1. CASE Return
  <2>1. work # <<>> /\ ~short
    BY <1>1 DEF Return, PoolOK
  <2>2. PICK n \in Nat, g \in Nat : PoolAt(n, g)
    BY <2>1, OnTop
  <2> QED BY <1>1, <2>1, <2>2, PoolPopped
<1> QED BY <1>1, TakeFits, GiveFits, ScratchFits, AskFits, AddFits, GenerateFits DEF MatrixStep

LEMMA BlockBegins ==
  ASSUME EnoughRoom, AInv, PoolOK, NEW n, BeginBlock(n)
  PROVE  PoolOK'
<1>1. ~cycle /\ cycle' /\ work' = work /\ short' = short
  BY DEF BeginBlock, BeginCycle
<1>2. work = <<>>
  BY <1>1 DEF AInv, IInv, TurnOK
<1>3. Height = 0 /\ Height' = 0
  BY <1>1, <1>2 DEF Height
<1>4. used = Nothing /\ ~short
  BY <1>1, <1>3 DEF PoolOK
<1>5. used' = CallbackBuffers
  <2>1. used' = [p \in Pools |-> CallbackBuffers[p]]
    <3>1. used' = [p \in Pools |-> 0 + CallbackBuffers[p]]
      BY <1>4 DEF BeginBlock, Nothing
    <3>2. \A p \in Pools : CallbackBuffers[p] \in Nat
      BY DEF Pools, CallbackBuffers
    <3> QED BY <3>1, <3>2
  <2>2. CallbackBuffers = [p \in Pools |-> CallbackBuffers[p]]
    BY DEF CallbackBuffers, Pools
  <2> QED BY <2>1, <2>2
<1> QED BY <1>1, <1>3, <1>4, <1>5 DEF PoolOK

LEMMA BlockEnds ==
  ASSUME EnoughRoom, AInv, PoolOK, EndBlock
  PROVE  PoolOK'
<1>1. cycle /\ ~cycle' /\ currentVoice = Nobody /\ work' = work /\ short' = short
  BY DEF EndBlock, EndCycle
<1>2. work = <<>>
  BY <1>1 DEF AInv, IInv, TurnOK
<1>3. Height = 0 /\ Height' = 0
  BY <1>1, <1>2 DEF Height
<1>4. used = CallbackBuffers /\ ~short
  BY <1>1, <1>3 DEF PoolOK
<1>5. used' = Nothing
  <2>1. DOMAIN CallbackBuffers = Pools /\ \A p \in Pools : CallbackBuffers[p] \in Nat
    BY DEF Pools, CallbackBuffers
  <2>2. used' = [p \in Pools |-> CallbackBuffers[p] - CallbackBuffers[p]]
    BY <1>4, <2>1 DEF EndBlock
  <2> QED BY <2>1, <2>2 DEF Nothing
<1> QED BY <1>1, <1>3, <1>4, <1>5 DEF PoolOK

LEMMA VoiceTurns ==
  ASSUME EnoughRoom, AInv, PoolOK, BeginVoice
  PROVE  PoolOK'
<1>1. PICK v, r : v = First(waiting) /\ r = voice[v].region
  OBVIOUS
<1>2. /\ patch \in Patches /\ v \in waiting /\ r \in DOMAIN patch.regions
      /\ cycle /\ currentVoice = Nobody /\ UNCHANGED <<used, short, cycle>>
      /\ work' = Stages(v) /\ UNCHANGED patch
  BY <1>1, FirstIsOne DEF BeginVoice, clock, AInv, IInv, VoicesOK
<1>3. PICK n \in Nat : n = Len(Stages(v)) /\ n > 1
  BY <1>1, <1>2, StagesUp
<1>4. /\ Height' = n
      /\ \A k \in 1 .. n : /\ Level(k)'.of = "stage" /\ Fits(Level(k)'.todo, <<0, 0>>)
                           /\ Level(k)'.held = [p \in DOMAIN Capacity |-> 0]
  BY <1>1, <1>2, <1>3, StagesUp DEF Height, Level
<1>5. work = <<>> /\ used = CallbackBuffers /\ ~short
  <2>1. work = <<>>
    BY <1>2 DEF AInv, IInv, TurnOK
  <2>2. Height = 0
    BY <2>1 DEF Height
  <2> QED BY <1>2, <2>1, <2>2 DEF PoolOK
<1>6. \A t, a : Fits(t, a)' = Fits(t, a)
  <2>1. \A t : Swayed(t)' = Swayed(t)
    BY <1>2 DEF Swayed, Targets, LowTargets, IsOscillator
  <2>2. \A x, a, b : Does(x, a, b)' = Does(x, a, b)
    BY <2>1, SMT DEF Does, Mono, Index, Give, Take
  <2> QED BY <2>2, Zenon DEF Fits, Goes
<1>7. ASSUME NEW k \in 1 .. n
      PROVE  /\ HasRoom(Level(k))' /\ Level(k)'.of = "stage" /\ ~Oscillates(Level(k))'
             /\ Level(k)'.held = Nothing
  <2>1. Level(k)'.of = "stage" /\ Level(k)'.held = Nothing /\ Fits(Level(k)'.todo, <<0, 0>>)
    BY <1>4 DEF EnoughRoom, Nothing
  <2>2. ~Oscillates(Level(k))'
    BY <2>1 DEF Oscillates, IsGenerator
  <2>3. Hand(Level(k))' = <<0, 0>>
    BY <2>1 DEF Hand, Nothing, Pools
  <2>4. <<0, 0>> \in Hands
    BY InHands
  <2>5. Fits(Level(k).todo, Hand(Level(k)))'
    BY <1>6, <2>1, <2>3
  <2>6. Level(k)'.held \in [Pools -> Nat] /\ Level(k)'.held["stereo"] = 0
    BY <2>1 DEF Nothing, Pools
  <2>7. HasRoom(Level(k))'
    BY <2>1, <2>2, <2>3, <2>4, <2>5, <2>6 DEF HasRoom, Hands
  <2> QED BY <2>1, <2>2, <2>7
<1>8. used' = Taken(n, 0)'
  <2>1. Level(n)'.held["mono"] = 0 /\ Level(n)'.held["index"] = 0
    BY <1>3, <1>7 DEF Nothing, Pools
  <2>2. Taken(n, 0)' = [mono |-> 1, stereo |-> 2, index |-> 0]
    BY <2>1 DEF Taken
  <2> QED BY <1>2, <1>5, <2>2 DEF CallbackBuffers
<1>9. PoolAt(n, 0)'
  <2>1. n \in 1 .. Height' /\ 0 \in {0} \union (n + 1 .. Height')
    BY <1>3, <1>4
  <2>2. \A k \in 1 .. n : k <= n /\ k # 0
    BY <1>3
  <2> QED BY <1>4, <1>7, <1>8, <2>1, <2>2 DEF PoolAt
<1>10. n \in 0 .. Height' /\ 0 \in 0 .. Height' /\ Height' # 0
  BY <1>3, <1>4
<1> QED BY <1>2, <1>5, <1>9, <1>10 DEF PoolOK

LEMMA PoolRests ==
  ASSUME PoolOK, work = <<>>, UNCHANGED <<work, used, cycle, short>>
  PROVE  PoolOK'
<1>1. Height = 0 /\ Height' = 0
  BY DEF Height
<1> QED BY <1>1 DEF PoolOK, Nothing, CallbackBuffers

LEMMA PoolStutters ==
  ASSUME PoolOK, UNCHANGED vars
  PROVE  PoolOK'
<1>1. Still /\ UNCHANGED <<work, used, short, cycle>>
  BY DEF vars, matrix, buffers, clock, Still
<1>2. Height' = Height /\ \A k : Level(k)' = Level(k)
  BY <1>1 DEF Height, Level
<1>3. ASSUME NEW n, NEW g, PoolAt(n, g) PROVE PoolAt(n, g)'
  <2>1. Taken(n, g)' = Taken(n, g)
    BY <1>2 DEF Taken
  <2> QED BY <1>1, <1>2, <1>3, <2>1, SteadyRoom DEF PoolAt
<1> QED BY <1>1, <1>2, <1>3 DEF PoolOK

LEMMA PoolStep == EnoughRoom /\ AInv /\ AInv' /\ PoolOK /\ [Next]_vars => PoolOK'
<1> SUFFICES ASSUME EnoughRoom, AInv, AInv', PoolOK, [Next]_vars PROVE PoolOK'
  OBVIOUS
<1>1. ~cycle => work = <<>>
  BY DEF AInv, IInv, TurnOK
<1>2. ASSUME ~cycle, UNCHANGED <<matrix, cycle>> PROVE PoolOK'
  BY <1>1, <1>2, PoolRests DEF matrix
<1>3. ASSUME NEW v \in Voice, ReleaseVoice(v) PROVE PoolOK'
  BY <1>2, <1>3 DEF ReleaseVoice, clock
<1>4. ASSUME NEW v \in Voice, NEW r, NEW delay, NEW note, StartVoice(v, r, delay, note) PROVE PoolOK'
  BY <1>2, <1>4 DEF StartVoice, clock
<1>5. CASE HostMessage
  <2>1. ~cycle /\ UNCHANGED <<matrix, cycle>>
    BY <1>5 DEF HostMessage, TimePosition, SetTempo, SetTimeSignature, SetPlaying,
                SetTimePosition, Between
  <2> QED BY <1>2, <2>1
<1>6. ASSUME NEW n, BeginBlock(n) PROVE PoolOK'
  BY <1>6, BlockBegins
<1>7. CASE BeginVoice
  BY <1>7, VoiceTurns
<1>8. CASE Stage
  <2>1. MatrixStep /\ Still
    BY <1>8 DEF Stage, MatrixStep, TakeBuffer, GiveBuffer, UseScratch, GetModulation, AddSource,
                Generate, Return, clock, Still
  <2> QED BY <2>1, StageFits
<1>9. CASE AskClock
  <2>1. Doing("clock") /\ work' = Resumed /\ Still /\ UNCHANGED <<used, short>>
    BY <1>9 DEF AskClock, GetRunning, Still
  <2> QED BY <2>1, PoolResumed DEF PoolOK
<1>10. CASE PlaySample
  <2>1. Doing("play") /\ work' = Resumed /\ Still /\ UNCHANGED <<used, short>>
    BY <1>10 DEF PlaySample, clock, Still
  <2> QED BY <2>1, PoolResumed DEF PoolOK
<1>11. CASE VoiceDone
  BY <1>11, PoolRests DEF VoiceDone, clock
<1>12. CASE EndBlock
  BY <1>12, BlockEnds
<1>13. CASE UNCHANGED vars
  BY <1>13, PoolStutters
<1>14. Over => UNCHANGED vars
  BY DEF Over
<1> QED BY <1>3, <1>4, <1>5, <1>6, <1>7, <1>8, <1>9, <1>10, <1>11, <1>12, <1>13, <1>14 DEF Next

LEMMA PoolStarts == EnoughRoom /\ Init => PoolOK
<1> SUFFICES ASSUME EnoughRoom, Init PROVE PoolOK
  OBVIOUS
<1>1. work = <<>> /\ ~short /\ ~cycle /\ used = [p \in DOMAIN Capacity |-> 0]
  BY DEF Init, MatrixInit, ClockInit
<1>2. Height = 0
  BY <1>1 DEF Height
<1> QED BY <1>1, <1>2 DEF PoolOK, Nothing, EnoughRoom

(* However many voices, filters, oscillators and connections there are, a  *)
(* pool of the size that Config.h gives it never runs short, so that no    *)
(* getBuffer of a stage or of the matrix returns nothing, and what a block *)
(* has taken it has given back when it ends.                               *)
THEOREM PoolNeverShort == EnoughRoom => (Spec => []PoolSuffices)
<1> SUFFICES ASSUME EnoughRoom PROVE Spec => []PoolSuffices
  OBVIOUS
<1>1. Init => AInv /\ PoolOK
  BY AStart, PoolStarts
<1>2. (AInv /\ PoolOK) /\ [Next]_vars => (AInv /\ PoolOK)'
  BY AStep, PoolStep
<1>3. AInv /\ PoolOK => PoolSuffices
  BY PoolEnough
<1> QED BY <1>1, <1>2, <1>3, PTL DEF Spec

-----------------------------------------------------------------------------
(* The beat clock, whoever drives it.                                      *)

(* Positions stay whole numbers of ticks in every signature.               *)
LEMMA ConvertedType ==
  ASSUME NEW b \in Int, NEW u \in Nat \ {0}, NEW v \in Nat \ {0}
  PROVE  Converted(b, u, v) \in Int
BY DEF Converted

(* A step of n frames is n steps of one frame.                             *)
LEMMA Steps ==
  ASSUME NEW n \in Int, NEW s \in Int
  PROVE  s + (n - 1) * s = n * s
<1>1. (n - 1) * s = n * s - 1 * s
  OBVIOUS
<1> QED BY <1>1

(* The positions of the frames to fill in, and the one that is left.       *)
LEMMA ClientType ==
  ASSUME ClockOK, NEW d \in Nat
  PROVE  ClientAfter(d) \in Int /\ AppliedAfter(d) \in BOOLEAN
<1>1. ASSUME NEW k \in Int PROVE k * speed \in Int
  BY DEF ClockOK
<1>2. (d - 1 - fill) \in Int
  BY DEF ClockOK
<1>3. (d - 1 - fill) * speed \in Int
  BY <1>1, <1>2
<1> QED BY <1>3 DEF ClockOK, ClientAfter, PositionAt, AppliedAfter

(* A call of the host whose delay is heeded fills nothing in while the     *)
(* transport runs.                                                         *)
LEMMA NothingFilled ==
  ASSUME ClockOK, ~Ahead, NEW d \in Nat, Between(d)
  PROVE  /\ playing => ClientAfter(d) = client /\ AppliedAfter(d) = apply
         /\ ~playing => /\ ClientAfter(d) = IF apply THEN host ELSE client
                        /\ AppliedAfter(d) = FALSE
<1>1. playing => d <= fill
  BY DEF Between
<1>2. playing => ClientAfter(d) = client
  BY <1>1 DEF ClientAfter, ClockOK
<1>3. playing => AppliedAfter(d) = apply
  BY <1>1 DEF AppliedAfter, ClockOK
<1>4. ~playing => ClientAfter(d) = IF apply THEN host ELSE client
  BY DEF ClientAfter, PositionAt
<1>5. ~playing => AppliedAfter(d) = FALSE
  BY DEF AppliedAfter
<1> QED BY <1>2, <1>3, <1>4, <1>5

-----------------------------------------------------------------------------
(* The invariant.                                                          *)
LEMMA ClockStart == ClockInit => ClockOK
<1> SUFFICES ASSUME ClockInit PROVE ClockOK
  OBVIOUS
<1>1. speed \in Int /\ unit \in Nat \ {0}
  BY ClockAssumption DEF ClockAssumption, ClockInit
<1>2. host \in Int /\ client \in Int /\ frames \in Nat /\ fill \in Nat
  BY DEF ClockInit
<1>3. playing \in BOOLEAN /\ apply \in BOOLEAN /\ cycle \in BOOLEAN /\ ~cycle
  BY Zenon DEF ClockInit
<1> QED BY <1>1, <1>2, <1>3, Zenon DEF ClockOK

LEMMA ClockStep == ClockOK /\ [ClockNext]_clock => ClockOK'
<1> SUFFICES ASSUME ClockOK, [ClockNext]_clock PROVE ClockOK'
  OBVIOUS
<1> USE ClockAssumption DEF ClockAssumption
<1>1. ASSUME NEW d \in Delay, NEW s \in Speed, SetTempo(d, s) PROVE ClockOK'
  BY <1>1, ClientType DEF SetTempo, Between, FillBufferUpTo, Filled, ClockOK
<1>2. ASSUME NEW d \in Delay, NEW u \in Unit, SetTimeSignature(d, u) PROVE ClockOK'
  <2>1. ClientAfter(d) \in Int /\ AppliedAfter(d) \in BOOLEAN
    BY ClientType
  <2>2. /\ Converted(host, unit, u) \in Int
        /\ Converted(ClientAfter(d), unit, u) \in Int
    BY <2>1, ConvertedType DEF ClockOK
  <2> QED BY <1>2, <2>1, <2>2 DEF SetTimeSignature, Between, Filled, ClockOK
<1>3. ASSUME NEW d \in Delay, NEW p \in Place, SetTimePosition(d, p) PROVE ClockOK'
  BY <1>3, ClientType DEF SetTimePosition, Between, Filled, ClockOK
<1>4. ASSUME NEW d \in Delay, NEW on \in BOOLEAN, SetPlaying(d, on) PROVE ClockOK'
  BY <1>4, ClientType DEF SetPlaying, Between, FillBufferUpTo, Filled, ClockOK
<1>5. CASE ClearClock
  <2>1. /\ speed' \in Int /\ unit' \in Nat \ {0} /\ host' \in Int /\ client' \in Int
        /\ frames' \in Nat /\ fill' \in Nat
    BY <1>5 DEF ClearClock, ClockOK
  <2>2. playing' \in BOOLEAN /\ apply' \in BOOLEAN /\ cycle' \in BOOLEAN /\ ~cycle'
    BY <1>5, Zenon DEF ClearClock, ClockOK
  <2> QED BY <2>1, <2>2, Zenon DEF ClockOK
<1>6. ASSUME NEW n \in Size, BeginCycle(n) PROVE ClockOK'
  BY <1>6 DEF BeginCycle, ClockOK
<1>7. CASE GetRunning
  <2>1. ClientAfter(frames) \in Int /\ AppliedAfter(frames) \in BOOLEAN
    BY ClientType DEF ClockOK
  <2> QED BY <1>7, <2>1 DEF GetRunning, FillBufferUpTo, Filled, ClockOK
<1>8. CASE EndCycle
  <2>1. ClientAfter(frames) \in Int /\ AppliedAfter(frames) \in BOOLEAN
    BY ClientType DEF ClockOK
  <2> QED BY <1>8, <2>1 DEF EndCycle, FillBufferUpTo, Filled, ClockOK
<1>9. CASE UNCHANGED clock
  BY <1>9 DEF clock, ClockOK
<1> QED BY <1>1, <1>2, <1>3, <1>4, <1>5, <1>6, <1>7, <1>8, <1>9 DEF ClockNext, HostCall

(* The state of the clock is well typed, and a block has its positions     *)
(* filled in as a whole.                                                   *)
THEOREM ClockTypeCorrect == ClockSpec => []ClockOK
BY ClockStart, ClockStep, PTL DEF ClockSpec

-----------------------------------------------------------------------------
(* The refinement.                                                         *)
LEMMA PromisedStart == ClockInit => Promised!Init
BY ClockAssumption DEF ClockAssumption, ClockInit, Promised!Init

(* Filling in a block of which nothing is filled advances the position by  *)
(* all of its frames; a block that is filled in stays as it is.            *)
LEMMA FillStep ==
  ASSUME ClockOK, cycle, FillBufferUpTo(frames), cycle' \in BOOLEAN,
         UNCHANGED <<speed, unit, playing, host, frames>>
  PROVE  [Promised!Next]_Promised!transport
<1>1. CASE fill = frames
  <2>1. fill' = frames
    BY <1>1 DEF FillBufferUpTo, Filled, ClockOK
  <2>2. client' = IF playing THEN client ELSE IF apply THEN host ELSE client
    BY <1>1 DEF FillBufferUpTo, ClientAfter, PositionAt, ClockOK
  <2>3. apply' = (apply /\ playing)
    BY <1>1 DEF FillBufferUpTo, AppliedAfter, ClockOK
  <2> QED BY <1>1, <2>1, <2>2, <2>3 DEF Promised!transport, ClockOK
<1>2. CASE fill = 0 /\ frames > 0
  <2>1. fill' = frames /\ apply' = FALSE
    <3>1. fill' = frames /\ ~(frames <= fill)
      BY <1>2 DEF FillBufferUpTo, Filled, ClockOK
    <3> QED BY <3>1, Zenon DEF FillBufferUpTo, AppliedAfter
  <2>2. client' = IF ~playing THEN IF apply THEN host ELSE client
                  ELSE (IF apply THEN host ELSE client + speed) + (frames - 1 - 0) * speed
    BY <1>2 DEF FillBufferUpTo, ClientAfter, PositionAt, ClockOK
  <2>3. client + speed + (frames - 1) * speed = client + frames * speed
    <3>1. /\ speed + (frames - 1) * speed = frames * speed
          /\ (frames - 1) * speed \in Int /\ frames * speed \in Int
      BY Steps DEF ClockOK
    <3> QED BY <3>1 DEF ClockOK
  <2>4. frames - 1 - 0 = frames - 1 /\ frames - 0 = frames /\ frames - frames = 0
    BY DEF ClockOK
  <2>5. client' = IF ~playing THEN IF apply THEN host ELSE client
                  ELSE IF apply THEN host + (frames - 1) * speed ELSE client + frames * speed
    BY <2>2, <2>3, <2>4
  <2>6. Promised!Advance
    BY <1>2, <2>1, <2>4, <2>5 DEF Promised!Advance, ClockOK
  <2> QED BY <2>6 DEF Promised!Next
<1> QED BY <1>1, <1>2 DEF ClockOK

LEMMA PromisedStep ==
  ~Ahead /\ ClockOK /\ [ClockNext]_clock => [Promised!Next]_Promised!transport
<1> SUFFICES ASSUME ~Ahead, ClockOK, [ClockNext]_clock
             PROVE  [Promised!Next]_Promised!transport
  OBVIOUS
<1> USE ClockAssumption DEF ClockAssumption
<1>1. ASSUME NEW d \in Delay, NEW s \in Speed, SetTempo(d, s)
      PROVE  Promised!SetTempo
  BY <1>1, NothingFilled DEF SetTempo, Between, FillBufferUpTo, ClockOK, Promised!SetTempo
<1>2. ASSUME NEW d \in Delay, NEW u \in Unit, SetTimeSignature(d, u)
      PROVE  Promised!SetSignature
  <2>1. /\ ~cycle /\ ~cycle' /\ unit' = u /\ u \in Int
        /\ speed' = speed /\ playing' = playing
        /\ host' = (host * u) \div unit
        /\ client' = (ClientAfter(d) * u) \div unit
        /\ apply' = AppliedAfter(d)
    BY <1>2 DEF SetTimeSignature, Between, Converted
  <2>2. CASE playing
    <3>1. client' = (client * u) \div unit /\ apply' = apply
      BY <2>1, <2>2, <1>2, NothingFilled DEF SetTimeSignature
    <3> QED BY <2>1, <2>2, <3>1 DEF Promised!SetSignature, Promised!Converted
  <2>3. CASE ~playing
    <3>1. client' = ((IF apply THEN host ELSE client) * u) \div unit /\ apply' = FALSE
      BY <2>1, <2>3, <1>2, NothingFilled DEF SetTimeSignature
    <3> QED BY <2>1, <2>3, <3>1 DEF Promised!SetSignature, Promised!Converted
  <2> QED BY <2>2, <2>3
<1>3. ASSUME NEW d \in Delay, NEW p \in Place, SetTimePosition(d, p)
      PROVE  Promised!Locate
  BY <1>3, NothingFilled DEF SetTimePosition, Between, ClockOK, Promised!Locate
<1>4. ASSUME NEW d \in Delay, NEW on \in BOOLEAN, SetPlaying(d, on)
      PROVE  Promised!SetPlaying
  BY <1>4, NothingFilled DEF SetPlaying, Between, FillBufferUpTo, ClockOK, Promised!SetPlaying
<1>5. CASE ClearClock
  BY <1>5 DEF ClearClock, Promised!Clear, Promised!Next, ClockOK
<1>6. ASSUME NEW n \in Size, BeginCycle(n) PROVE Promised!Begin
  BY <1>6 DEF BeginCycle, ClockOK, Promised!Begin
<1>7. CASE GetRunning
  BY <1>7, FillStep DEF GetRunning, ClockOK
<1>8. CASE EndCycle
  BY <1>8, FillStep DEF EndCycle, ClockOK
<1>9. CASE UNCHANGED clock
  BY <1>9 DEF clock, Promised!transport
<1> QED BY <1>1, <1>2, <1>3, <1>4, <1>5, <1>6, <1>7, <1>8, <1>9
        DEF ClockNext, HostCall, Promised!Next

(* However late the positions of a block are asked for, or never, each of  *)
(* its frames moves the position once, and the host's position is applied  *)
(* once: the beat clock implements Transport.                              *)
THEOREM ClockCounts == ~Ahead => (ClockSpec => CountsEveryFrame)
<1>1. ClockSpec => []ClockOK
  BY ClockTypeCorrect
<1>2. ASSUME ~Ahead PROVE ClockOK /\ [ClockNext]_clock => [Promised!Next]_Promised!transport
  BY <1>2, PromisedStep
<1>3. ASSUME ~Ahead PROVE ClockSpec => CountsEveryFrame
  <2>1. ClockOK /\ [ClockNext]_clock => [Promised!Next]_Promised!transport
    BY <1>2, <1>3
  <2> QED BY <1>1, <2>1, PromisedStart, PTL DEF ClockSpec, CountsEveryFrame, Promised!Spec
<1> QED BY <1>3

-----------------------------------------------------------------------------
(* The clock in the blocks of the engine.                                  *)
LEMMA ClockDriven ==
  ASSUME patch \in Patches, [Next]_vars
  PROVE  [ClockNext]_clock
<1>1. ASSUME NEW n \in patch.sizes, BeginBlock(n) PROVE ClockNext
  BY <1>1, RenderAssumption DEF RenderAssumption, BeginBlock, ClockNext
<1>2. HostMessage => HostCall
  BY DEF HostMessage, TimePosition, HostCall
<1>3. AskClock => GetRunning
  BY DEF AskClock
<1>4. EndBlock => EndCycle
  BY DEF EndBlock
<1>5. ASSUME NEW v \in Voice, ReleaseVoice(v) PROVE UNCHANGED clock
  BY <1>5 DEF ReleaseVoice
<1>6. ASSUME NEW v \in Voice, NEW r, NEW delay, NEW note, StartVoice(v, r, delay, note)
      PROVE  UNCHANGED clock
  BY <1>6 DEF StartVoice
<1>7. BeginVoice \/ Stage \/ PlaySample \/ VoiceDone => UNCHANGED clock
  BY DEF BeginVoice, Stage, PlaySample, VoiceDone
<1>8. Over \/ UNCHANGED vars => UNCHANGED clock
  BY DEF Over, vars
<1> QED BY <1>1, <1>2, <1>3, <1>4, <1>5, <1>6, <1>7, <1>8 DEF Next, ClockNext

(* The engine drives its clock as the clock's specification allows, so the *)
(* clock counts every frame, whichever voices ask for it.                  *)
THEOREM EngineCountsFrames == ~Ahead => (Spec => CountsEveryFrame)
<1>1. Init => ClockInit
  BY DEF Init
<1>2. Spec => [](patch \in Patches)
  <2>1. Spec => []IInv
    BY Start, Step, PTL DEF Spec
  <2>2. IInv => patch \in Patches
    BY DEF IInv, VoicesOK
  <2> QED BY <2>1, <2>2, PTL
<1>3. patch \in Patches /\ [Next]_vars => [ClockNext]_clock
  BY ClockDriven
<1>4. Spec => ClockSpec
  BY <1>1, <1>2, <1>3, PTL DEF Spec, ClockSpec
<1> QED BY <1>4, ClockCounts
=============================================================================
