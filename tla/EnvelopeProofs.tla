---------------------------- MODULE EnvelopeProofs ----------------------------
(***************************************************************************)
(* The amplitude envelopes, for all shapes, block sizes and offsets: a     *)
(* release takes effect when it is due and not before, and the steps of a  *)
(* note are those NoteLife allows.                                         *)
(***************************************************************************)
EXTENDS VoiceEnvelope, FiniteSetTheorems, TLAPS

-----------------------------------------------------------------------------
(* The invariant.                                                          *)
(***************************************************************************)
(* What both kinds of envelope have: the spans of a block, and the history.*)
BlocksOK ==
  /\ patch \in Patches \cup FlexPatches
  /\ voice \in {"idle", "playing", "cleanMeUp"}
  /\ rendering \in BOOLEAN /\ asked \in BOOLEAN
  /\ left \in Nat /\ rest \in Nat /\ toGo \in Nat /\ wait \in Int
  /\ frames \in Nat \ {0} /\ now \in Nat
  /\ rendering => voice # "idle"
  /\ ~rendering => left = 0 /\ rest = 0

Fields == {"state", "level", "delay", "attackStep", "decayRate", "releaseRate", "hold",
           "start", "sustain", "releaseDelay", "shouldRelease", "freeRunning", "dynamic", "delta"}

IsEg(e) ==
  /\ DOMAIN e = Fields
  /\ e.state \in Stage /\ e.delay \in Int /\ e.hold \in Int
  /\ e.attackStep \in Nat \ {0} /\ e.start \in Level /\ e.sustain \in Level
  /\ e.state \in {"delay", "attack"} => e.level \in Int
  /\ e.releaseDelay \in Nat \cup {-1}
  /\ e.shouldRelease \in BOOLEAN /\ e.freeRunning \in BOOLEAN /\ e.dynamic \in BOOLEAN

(* The delay of a note, as the envelope and as the history count it.       *)
DelayCounts ==
  /\ IF eg.state = "delay" THEN eg.delay >= 0 ELSE eg.delay <= 0
  /\ eg.state = "delay" /\ rest > 0 => left > 0 /\ eg.delay = 0
  /\ patch.dynamic \/ toGo <= Greatest(eg.delay, 0)
  /\ ~patch.dynamic => ~eg.dynamic /\ rest = 0

(* A release to come is no nearer than the countdowns of the envelope say, *)
(* and no further.                                                         *)
ReleaseCounts ==
  /\ ~eg.shouldRelease /\ voice # "idle" => wait = 0 /\ eg.releaseDelay <= 0
  /\ eg.shouldRelease /\ eg.state \in Held /\ voice = "playing" =>
       /\ wait >= eg.releaseDelay
       /\ eg.delay <= Greatest(eg.releaseDelay, 0)
  /\ ~patch.dynamic /\ eg.state \in Held =>
       wait <= Greatest(eg.releaseDelay, Greatest(eg.delay, 0))

EgInv == IsEg(eg) /\ DelayCounts /\ ReleaseCounts

FlexFields == {"stage", "level", "time", "source", "target", "length", "delay",
               "untilRelease", "isReleased", "freeRunning", "late"}

IsFlexEg(e) ==
  /\ DOMAIN e = FlexFields
  /\ e.stage \in Nat /\ e.time \in Nat /\ e.delay \in Nat /\ e.late \in Nat
  /\ e.level \in Int /\ e.source \in Int /\ e.target \in Int
  /\ e.length \in Int /\ e.length <= Longest
  /\ e.untilRelease \in Nat \cup {None}
  /\ e.isReleased \in BOOLEAN /\ e.freeRunning \in BOOLEAN

(* The frames skipped for the trigger offset do not count for a release.   *)
FlexCounts ==
  /\ toGo = flex.delay
  /\ flex.untilRelease # None =>
       /\ ~FlexFinished(flex) /\ voice = "playing" =>
            wait >= flex.untilRelease + flex.delay - flex.late
       /\ wait <= Greatest(flex.untilRelease, flex.delay)
  /\ ~patch.dynamic => rest = 0

(* The level is that of the time in the stage.                             *)
FlexLevel ==
  ~patch.dynamic /\ ~FlexFinished(flex) /\ flex.length > 0 => flex.level = LevelAt(flex, flex.time)

FlexInv == IsFlexEg(flex) /\ FlexCounts /\ FlexLevel

(* A note that is held: nothing has told its envelope to end.              *)
Holds ==
  voice = "playing" /\ ~asked =>
    IF IsFlex
    THEN flex.untilRelease = None /\ ~flex.isReleased
         /\ (flex.freeRunning \/ flex.stage <= patch.sustain)
    ELSE eg.freeRunning \/ (~eg.shouldRelease /\ eg.state \in Held)

AdsrInv == ~IsFlex /\ BlocksOK /\ EgInv /\ Holds
PointsInv == IsFlex /\ BlocksOK /\ FlexInv /\ Holds

(* A voice keeps to one kind of envelope; the fields of the other stay.    *)
OthersStay ==
  /\ IsFlex => ~eg.shouldRelease
  /\ ~IsFlex => flex.untilRelease = None

IInv == OthersStay /\ (AdsrInv \/ PointsInv)

(* A dynamic envelope sets its delay anew in every chunk in which it finds *)
(* itself in that stage.  Only without one does it keep time.              *)
SteadyDelay == \A p \in Patches : p.dynamic => \A s \in p.shapes : s.delay = 0

-----------------------------------------------------------------------------
(* Sizes and counts of frames.                                             *)
LEMMA FewFrames ==
  ASSUME NEW size \in Nat, NEW S \in SUBSET (1 .. size)
  PROVE  Cardinality(S) \in 0 .. size
<1>1. IsFiniteSet(1 .. size) /\ Cardinality(1 .. size) = size
  <2>1. 1 .. size = {} \/ size >= 1
    OBVIOUS
  <2> QED BY <2>1, FS_Interval
<1>2. IsFiniteSet(S) /\ Cardinality(S) <= size
  BY <1>1, FS_Subset
<1> QED BY <1>2, FS_CardinalityType

(* As few frames, then, stay above a level.                                *)
LEMMA AboveCount ==
  ASSUME NEW x, NEW rate, NEW floor, NEW size \in Nat
  PROVE  Above(x, rate, floor, size) \in 0 .. size
<1>1. PICK S : S = {n \in 1 .. size : Faded(x, rate, n) > floor}
  OBVIOUS
<1>2. S \in SUBSET (1 .. size)
  BY <1>1
<1>3. Cardinality(S) \in 0 .. size
  BY <1>2, FewFrames
<1> QED BY <1>1, <1>3 DEF Above

(* A countdown over a number of frames.                                    *)
LEMMA SpentCount ==
  ASSUME NEW n \in Int, NEW size \in Nat
  PROVE  /\ Counted(n, size) \in 0 .. size /\ Spent(n, size) \in Int
         /\ n <= 0 => Counted(n, size) = 0
         /\ Spent(n, size) > 0 => Spent(n, size) = n - Counted(n, size)
         /\ Spent(n, size) <= 0 => n <= Counted(n, size)
BY DEF Counted, Spent, Least, Greatest

-----------------------------------------------------------------------------
(* A turn of the ADSR envelope's loop.                                     *)

(* The delay and the release offset, when a turn begins.                   *)
LEMMA Entering ==
  ASSUME BlocksOK, EgInv, left > 0, NEW f, f = Entered(eg)
  PROVE  /\ IsEg(f) /\ Size(eg, left) \in 1 .. left
         /\ \A x \in Fields \ {"state", "releaseDelay"} : f[x] = eg[x]
         /\ f.state \in {eg.state, "release"}
         /\ ~eg.shouldRelease => f = eg
         /\ f.state # "delay" => f.delay <= 0
         /\ f.state # eg.state => Due(eg)
<1>1. IsEg(eg)
  BY DEF EgInv
<1>2. left \in Nat
  BY DEF BlocksOK
<1>3. Size(eg, left) \in 1 .. left
  BY <1>1, <1>2 DEF Size, Least, IsEg
<1>4. IsEg(f)
  <2>1. CASE Due(eg) /\ eg.releaseDelay = 0
    BY <1>1, <2>1 DEF Entered, IsEg, Fields, Stage
  <2>2. CASE ~(Due(eg) /\ eg.releaseDelay = 0)
    BY <1>1, <2>2 DEF Entered, IsEg, Fields, Stage
  <2> QED BY <2>1, <2>2
<1>5. \A x \in Fields \ {"state", "releaseDelay"} : f[x] = eg[x]
  BY <1>1 DEF Entered, IsEg, Fields
<1>6. f.state \in {eg.state, "release"} /\ (f.state # eg.state => Due(eg))
  BY <1>1 DEF Entered, IsEg, Fields
<1>7. ~eg.shouldRelease => f = eg
  BY DEF Entered, Due
<1>8. f.state # "delay" => f.delay <= 0
  <2>1. f.delay = eg.delay
    BY <1>5 DEF Fields
  <2>2. Due(eg) => eg.delay <= 0
    BY DEF Due
  <2>3. eg.state # "delay" => eg.delay <= 0
    BY DEF EgInv, DelayCounts
  <2> QED BY <1>6, <2>1, <2>2, <2>3
<1> QED BY <1>3, <1>4, <1>5, <1>6, <1>7, <1>8

(* What a turn makes of an envelope that has entered it.                   *)
Turned(f, e, count) ==
  /\ IsEg(e)
  /\ e.releaseDelay = f.releaseDelay /\ e.dynamic = f.dynamic /\ e.freeRunning = f.freeRunning
  /\ e.state \in Held <=> f.state \in Held
  /\ f.shouldRelease => e.shouldRelease
  /\ e.shouldRelease /\ ~f.shouldRelease => count = 0 /\ f.freeRunning /\ e.state = "sustain"
  /\ IF e.state = "delay" THEN f.state = "delay" /\ e.delay = f.delay - count /\ e.delay > 0
     ELSE e.delay <= 0 /\ f.delay <= count

(* Every stage makes of the envelope what Turned says.                     *)
LEMMA SegmentTurns ==
  ASSUME BlocksOK, EgInv, Segment
  PROVE  \E e : \E count \in 0 .. Size(eg, left) :
           /\ left > 0 /\ Advance(e, count) /\ Turned(Entered(eg), e, count)
<1>0. left > 0
  BY DEF Segment, InDelay, InAttack, InHold, InDecay, InSustain, InRelease, InFadeout, InDone,
         Rendering
<1> DEFINE size == Size(eg, left)
<1>1. PICK f : f = Entered(eg)
  OBVIOUS
<1>2. IsEg(f) /\ size \in Nat \ {0} /\ (f.state # "delay" => f.delay <= 0)
  BY <1>0, <1>1, Entering DEF BlocksOK
<1>3. f.delay = eg.delay
  BY <1>0, <1>1, Entering DEF Fields
<1> HIDE DEF size
<1>4. SUFFICES \E e : \E count \in 0 .. size : Advance(e, count) /\ Turned(f, e, count)
  BY <1>0, <1>1 DEF size
<1>5. CASE InDelay
  <2>1. PICK spent : spent = Spent(f.delay, size)
    OBVIOUS
  <2>2. PICK count : count = Counted(f.delay, size)
    OBVIOUS
  <2>3. PICK e : e = [f EXCEPT !.level = IF count > 0 THEN f.start ELSE @, !.delay = spent,
                         !.state = IF spent <= 0 THEN "attack" ELSE @]
    OBVIOUS
  <2>4. f.state = "delay" /\ Advance(e, count)
    BY <1>1, <1>5, <2>1, <2>2, <2>3 DEF InDelay, Rendering, size
  <2>5. /\ count \in 0 .. size /\ spent \in Int
        /\ spent > 0 => spent = f.delay - count
        /\ spent <= 0 => f.delay <= count
    BY <1>2, <2>1, <2>2, SpentCount DEF IsEg
  <2>6. IsEg(e)
    BY <1>2, <2>3, <2>4, <2>5 DEF IsEg, Fields, Stage, Level
  <2>7. Turned(f, e, count)
    BY <1>2, <2>3, <2>4, <2>5, <2>6 DEF Turned, IsEg, Fields, Held
  <2> QED BY <2>4, <2>5, <2>7
(* Where only the level, the hold or the stage among the later ones moves. *)
<1>6. ASSUME NEW e, NEW count \in 0 .. size, Advance(e, count), DOMAIN e = Fields,
             f.state # "delay",
             \A x \in Fields \ {"state", "level", "hold", "delta"} : e[x] = f[x],
             e.state \in Stage \ {"delay"}, e.state \in Held <=> f.state \in Held,
             e.state = "attack" => e.level \in Int, e.hold \in Int
      PROVE  Advance(e, count) /\ Turned(f, e, count)
  <2>1. IsEg(e)
    BY <1>2, <1>6 DEF IsEg, Fields
  <2>2. f.delay <= 0 /\ 0 <= count
    BY <1>2, <1>6
  <2> QED BY <1>2, <1>6, <2>1, <2>2 DEF Turned, IsEg, Fields
<1>7. CASE InAttack
  <2>1. PICK below : below = Greatest(Full - 1 - f.level, 0) \div f.attackStep
    OBVIOUS
  <2>2. f.state = "attack" /\ f.level \in Int /\ f.attackStep \in Nat \ {0}
    BY <1>1, <1>2, <1>7 DEF InAttack, Rendering, IsEg
  <2>3. Greatest(Full - 1 - f.level, 0) \in Nat
    BY <2>2, EnvelopeAssumption DEF EnvelopeAssumption, Greatest
  <2>4. below \in Nat
    BY <2>1, <2>2, <2>3
  <2>5. CASE below >= size
    <3>1. PICK e : e = [f EXCEPT !.level = @ + size * f.attackStep]
      OBVIOUS
    <3>2. Advance(e, size)
      BY <1>1, <1>7, <2>1, <2>5, <3>1 DEF InAttack, size
    <3>3. size * f.attackStep \in Int
      BY <1>2, <2>2
    <3>4. Advance(e, size) /\ Turned(f, e, size)
      BY <1>2, <1>6, <2>2, <3>1, <3>2, <3>3 DEF IsEg, Fields, Stage
    <3> QED BY <1>2, <3>4
  <2>6. CASE ~(below >= size)
    <3>1. PICK e : e = [f EXCEPT !.level = Full, !.state = "hold"]
      OBVIOUS
    <3>2. Advance(e, below)
      BY <1>1, <1>7, <2>1, <2>6, <3>1 DEF InAttack, size
    <3>3. below \in 0 .. size
      BY <1>2, <2>4, <2>6
    <3>4. Advance(e, below) /\ Turned(f, e, below)
      BY <1>2, <1>6, <2>2, <3>1, <3>2, <3>3 DEF IsEg, Fields, Stage, Held
    <3> QED BY <3>3, <3>4
  <2> QED BY <2>5, <2>6
<1>8. CASE InHold
  <2>1. PICK e : e = [f EXCEPT !.hold = Spent(f.hold, size),
                        !.state = IF Spent(f.hold, size) <= 0 THEN "decay" ELSE @]
    OBVIOUS
  <2>2. f.state = "hold" /\ Advance(e, Counted(f.hold, size))
    BY <1>1, <1>8, <2>1 DEF InHold, Rendering, size
  <2>3. Counted(f.hold, size) \in 0 .. size /\ Spent(f.hold, size) \in Int
    BY <1>2, SpentCount DEF IsEg
  <2>4. Turned(f, e, Counted(f.hold, size))
    BY <1>2, <1>6, <2>1, <2>2, <2>3 DEF IsEg, Fields, Stage, Held
  <2> QED BY <2>2, <2>3, <2>4
<1>9. CASE InDecay
  <2>1. PICK count : count = Above(f.level, f.decayRate, f.sustain, size)
    OBVIOUS
  <2>2. count \in 0 .. size
    BY <1>2, <2>1, AboveCount
  <2>3. f.state = "decay"
    BY <1>1, <1>9 DEF InDecay, Rendering
  <2>4. PICK x, level :
          \/ Advance([f EXCEPT !.state = "sustain", !.level = level,
                               !.delta = Slope(level - f.sustain)], count)
          \/ Advance([f EXCEPT !.level = x], count)
    BY <1>1, <1>9, <2>1 DEF InDecay, size
  <2>5. ASSUME NEW e, Advance(e, count),
               \/ e = [f EXCEPT !.state = "sustain", !.level = level,
                               !.delta = Slope(level - f.sustain)]
               \/ e = [f EXCEPT !.level = x]
        PROVE  Turned(f, e, count)
    BY <1>2, <1>6, <2>2, <2>3, <2>5 DEF IsEg, Fields, Stage, Held
  <2> QED BY <2>2, <2>4, <2>5
<1>10. CASE InSustain
  <2>1. f.state = "sustain"
    BY <1>1, <1>10 DEF InSustain, Rendering
  <2>2. CASE ~f.shouldRelease /\ f.freeRunning
    <3>1. PICK e : e = [f EXCEPT !.shouldRelease = TRUE]
      OBVIOUS
    <3>2. Advance(e, 0)
      BY <1>1, <1>10, <2>2, <3>1 DEF InSustain
    <3>3. IsEg(e)
      BY <1>2, <3>1 DEF IsEg, Fields
    <3>4. Turned(f, e, 0)
      BY <1>2, <2>1, <2>2, <3>1, <3>3 DEF Turned, IsEg, Fields
    <3> QED BY <1>2, <3>2, <3>4
  <2>3. CASE ~(~f.shouldRelease /\ f.freeRunning)
    <3>1. PICK e : e = [f EXCEPT !.level = @ + Settling(f, size) * f.delta]
      OBVIOUS
    <3>2. Advance(e, size)
      BY <1>1, <1>10, <2>3, <3>1 DEF InSustain, size
    <3>3. Turned(f, e, size)
      BY <1>2, <1>6, <2>1, <3>1, <3>2 DEF IsEg, Fields, Stage, Held
    <3> QED BY <1>2, <3>2, <3>3
  <2> QED BY <2>2, <2>3
<1>11. CASE InRelease
  <2>1. PICK count : count = Above(f.level, f.releaseRate, Threshold, size)
    OBVIOUS
  <2>2. count \in 0 .. size
    BY <1>2, <2>1, AboveCount
  <2>3. f.state = "release"
    BY <1>1, <1>11 DEF InRelease, Rendering
  <2>4. PICK level :
          \/ Advance([f EXCEPT !.level = level], count)
          \/ Advance([f EXCEPT !.level = level, !.state = "fadeout",
                               !.delta = Slope(Greatest(Threshold, level))], count)
    BY <1>1, <1>11, <2>1 DEF InRelease, size
  <2>5. ASSUME NEW e, Advance(e, count),
               \/ e = [f EXCEPT !.level = level, !.state = "fadeout",
                               !.delta = Slope(Greatest(Threshold, level))]
               \/ e = [f EXCEPT !.level = level]
        PROVE  Turned(f, e, count)
    BY <1>2, <1>6, <2>2, <2>3, <2>5, ZenonT(60) DEF IsEg, Fields, Stage, Held
  <2> QED BY <2>2, <2>4, <2>5
<1>12. CASE InFadeout
  <2>1. PICK count : count = Cardinality({n \in 1 .. size : f.level + n * f.delta > 0})
    OBVIOUS
  <2>2. count \in 0 .. size
    <3>1. PICK S : S = {n \in 1 .. size : f.level + n * f.delta > 0}
      OBVIOUS
    <3>2. S \in SUBSET (1 .. size)
      BY <3>1
    <3>3. Cardinality(S) \in 0 .. size
      BY <1>2, <3>2, FewFrames
    <3> QED BY <2>1, <3>1, <3>3
  <2>3. f.state = "fadeout"
    BY <1>1, <1>12 DEF InFadeout, Rendering
  <2>4. \/ Advance([f EXCEPT !.level = @ + size * f.delta], count)
        \/ Advance([f EXCEPT !.level = 0, !.state = "done"], count)
    BY <1>1, <1>12, <2>1 DEF InFadeout, size
  <2>5. ASSUME NEW e, Advance(e, count),
               \/ e = [f EXCEPT !.level = @ + size * f.delta]
               \/ e = [f EXCEPT !.level = 0, !.state = "done"]
        PROVE  Turned(f, e, count)
    BY <1>2, <1>6, <2>2, <2>3, <2>5 DEF IsEg, Fields, Stage, Held
  <2> QED BY <2>2, <2>4, <2>5
<1>13. CASE InDone
  <2>1. PICK e : e = [f EXCEPT !.level = 0]
    OBVIOUS
  <2>2. f.state = "done" /\ Advance(e, size)
    BY <1>1, <1>13, <2>1 DEF InDone, Rendering, size
  <2>3. Turned(f, e, size)
    BY <1>2, <1>6, <2>1, <2>2 DEF IsEg, Fields, Stage, Held
  <2> QED BY <1>2, <2>2, <2>3
<1> QED BY <1>5, <1>7, <1>8, <1>9, <1>10, <1>11, <1>12, <1>13 DEF Segment

(* The frames of a turn count down the delay, the release and the history  *)
(* alike.                                                                  *)
LEMMA AdvanceKeeps ==
  ASSUME BlocksOK, EgInv, Holds, ~IsFlex, left > 0, NEW f, f = Entered(eg), NEW e,
         NEW count \in 0 .. Size(eg, left), Advance(e, count), Turned(f, e, count)
  PROVE  AdsrInv'
<1>1. /\ IsEg(eg) /\ IsEg(f) /\ IsEg(e) /\ left \in Nat /\ count \in Nat /\ count <= Size(eg, left)
      /\ Size(eg, left) \in 1 .. left
  BY Entering DEF BlocksOK, EgInv, Turned
<1>2. /\ UNCHANGED <<patch, voice, frames, now, rendering, rest, asked, begun, events>>
      /\ left' = left - count /\ toGo' = Greatest(toGo - count, 0)
      /\ wait' = IF eg.shouldRelease THEN Greatest(wait - count, -2) ELSE wait
  BY DEF Advance, Renders
<1>3. eg' = IF e.shouldRelease THEN [e EXCEPT !.releaseDelay = Greatest(-1, @ - count)] ELSE e
  BY DEF Advance
<1>4. PICK g : g = eg'
  OBVIOUS
<1>5. /\ DOMAIN g = Fields /\ \A x \in Fields \ {"releaseDelay"} : g[x] = e[x]
      /\ g.releaseDelay = IF e.shouldRelease THEN Greatest(-1, f.releaseDelay - count)
                                            ELSE f.releaseDelay
  BY <1>1, <1>3, <1>4 DEF IsEg, Fields, Turned
<1>6. g.releaseDelay \in Nat \cup {-1}
  BY <1>1, <1>5 DEF Greatest, IsEg
<1>7. IsEg(g)
  BY <1>1, <1>5, <1>6 DEF IsEg, Fields
<1>8. BlocksOK'
  BY <1>1, <1>2 DEF BlocksOK, Greatest
<1>9. f.delay = eg.delay /\ f.shouldRelease = eg.shouldRelease
      /\ f.freeRunning = eg.freeRunning /\ f.dynamic = eg.dynamic
  BY Entering DEF Fields
<1>10. /\ g.state = e.state /\ g.delay = e.delay /\ g.dynamic = e.dynamic
       /\ g.shouldRelease = e.shouldRelease /\ g.freeRunning = e.freeRunning
  BY <1>5 DEF Fields
<1>11. IsFlex' = IsFlex
  BY <1>2 DEF IsFlex
<1>12. DelayCounts'
  <2>1. IF g.state = "delay" THEN g.delay >= 0 ELSE g.delay <= 0
    BY <1>1, <1>10 DEF Turned, IsEg
  <2>2. ~(g.state = "delay" /\ rest > 0)
    <3>1. SUFFICES ASSUME g.state = "delay", rest > 0 PROVE FALSE
      OBVIOUS
    <3>2. f.state = "delay" /\ e.delay = f.delay - count /\ e.delay > 0
      BY <1>10, <3>1 DEF Turned
    <3>3. eg.state = "delay"
      BY <3>2, Entering
    <3>4. eg.delay = 0
      BY <3>1, <3>3 DEF EgInv, DelayCounts
    <3> QED BY <1>1, <1>9, <3>2, <3>4
  <2>3. patch.dynamic \/ toGo' <= Greatest(g.delay, 0)
    <3>1. SUFFICES ASSUME toGo <= Greatest(eg.delay, 0) PROVE toGo' <= Greatest(g.delay, 0)
      BY DEF EgInv, DelayCounts
    <3>2. (e.delay = eg.delay - count /\ e.delay > 0) \/ (e.delay <= 0 /\ eg.delay <= count)
      BY <1>9 DEF Turned
    <3>3. toGo \in Nat /\ eg.delay \in Int /\ e.delay \in Int
      BY <1>1 DEF BlocksOK, IsEg
    <3> QED BY <1>1, <1>2, <1>10, <3>1, <3>2, <3>3 DEF Greatest
  <2>4. ~patch.dynamic => ~g.dynamic /\ rest = 0
    BY <1>9, <1>10 DEF Turned, EgInv, DelayCounts
  <2> QED BY <1>2, <1>4, <2>1, <2>2, <2>3, <2>4 DEF DelayCounts
<1>13. ~g.shouldRelease /\ voice # "idle" => wait' = 0 /\ g.releaseDelay <= 0
  <2>1. SUFFICES ASSUME ~g.shouldRelease, voice # "idle" PROVE wait' = 0 /\ g.releaseDelay <= 0
    OBVIOUS
  <2>2. ~eg.shouldRelease /\ ~e.shouldRelease
    BY <1>9, <1>10, <2>1 DEF Turned
  <2>3. f = eg
    BY <2>2, Entering
  <2> QED BY <1>2, <1>5, <2>1, <2>2, <2>3 DEF EgInv, ReleaseCounts
<1>14. wait \in Int /\ eg.delay \in Int /\ e.delay \in Int /\ eg.releaseDelay \in Nat \cup {-1}
  BY <1>1 DEF IsEg, BlocksOK
<1>15. ASSUME g.shouldRelease, ~eg.shouldRelease, voice # "idle"
       PROVE  /\ wait' = 0 /\ g.releaseDelay = eg.releaseDelay /\ eg.releaseDelay <= 0
              /\ g.delay <= 0
  <2>1. count = 0 /\ e.state = "sustain" /\ f = eg
    BY <1>9, <1>10, <1>15, Entering DEF Turned
  <2>2. wait = 0 /\ eg.releaseDelay <= 0
    BY <1>15 DEF EgInv, ReleaseCounts
  <2>3. g.delay <= 0
    BY <1>10, <2>1 DEF Turned
  <2> QED BY <1>2, <1>5, <1>10, <1>14, <1>15, <2>1, <2>2, <2>3 DEF Greatest
(* A release that is still to come when the turn is over.                  *)
<1>16. ASSUME eg.shouldRelease, g.state \in Held
       PROVE  /\ f.state \in Held /\ eg.state \in Held
              /\ eg.releaseDelay > 0 => count <= eg.releaseDelay /\ f.releaseDelay = eg.releaseDelay
              /\ Due(eg) /\ eg.releaseDelay <= 0 =>
                   eg.delay = 0 /\ f.releaseDelay = -1 /\ count <= 1 /\ eg.releaseDelay = 0
              /\ ~(Due(eg) /\ eg.releaseDelay <= 0) => f.releaseDelay = eg.releaseDelay
  <2>1. f.state \in Held /\ f.state \in {eg.state, "release"}
    BY <1>10, <1>16, Entering DEF Turned
  <2>2. eg.state \in Held /\ f.state = eg.state
    BY <2>1 DEF Held
  <2>3. CASE eg.releaseDelay > 0
    BY <1>1, <1>14, <1>16, <2>1, <2>2, <2>3 DEF Size, Least, Entered, Due
  <2>4. CASE Due(eg) /\ eg.releaseDelay = 0
    <3>1. ~(eg.delay < 0)
      BY <1>1, <2>1, <2>4 DEF Entered, Held, IsEg, Fields
    <3>2. f.releaseDelay = -1
      BY <1>1, <2>4 DEF Entered, IsEg, Fields
    <3>3. eg.delay = 0
      BY <1>14, <2>4, <3>1 DEF Due
    <3>4. Size(eg, left) = 1
      BY <2>4, <3>3 DEF Size
    <3> QED BY <1>1, <2>1, <2>2, <2>4, <3>2, <3>3, <3>4
  <2>5. ~(Due(eg) /\ eg.releaseDelay = -1)
    BY <1>1, <2>1, <2>2 DEF Entered, Held, IsEg, Fields
  <2>6. CASE ~Due(eg) /\ ~(eg.releaseDelay > 0)
    BY <1>14, <1>16, <2>1, <2>2, <2>6 DEF Due, Entered
  <2>7. eg.releaseDelay > 0 \/ eg.releaseDelay = 0 \/ eg.releaseDelay = -1
    BY <1>14
  <2> QED BY <2>3, <2>4, <2>5, <2>6, <2>7
<1>17. (e.delay = eg.delay - count /\ e.delay > 0) \/ (e.delay <= 0 /\ eg.delay <= count)
  BY <1>9 DEF Turned
<1>18. g.shouldRelease /\ g.state \in Held /\ voice = "playing" =>
         wait' >= g.releaseDelay /\ g.delay <= Greatest(g.releaseDelay, 0)
  <2>1. SUFFICES ASSUME g.shouldRelease, g.state \in Held, voice = "playing"
                 PROVE  wait' >= g.releaseDelay /\ g.delay <= Greatest(g.releaseDelay, 0)
    OBVIOUS
  <2>2. CASE ~eg.shouldRelease
    BY <1>10, <1>14, <1>15, <2>1, <2>2 DEF Greatest
  <2>3. CASE eg.shouldRelease
    <3>1. eg.state \in Held
      BY <1>16, <2>1, <2>3
    <3>2. wait >= eg.releaseDelay /\ eg.delay <= Greatest(eg.releaseDelay, 0)
      BY <2>1, <2>3, <3>1 DEF EgInv, ReleaseCounts
    <3>3. CASE eg.releaseDelay > 0
      <4>1. count <= eg.releaseDelay /\ f.releaseDelay = eg.releaseDelay
        BY <1>16, <2>1, <2>3, <3>3
      <4>2. g.releaseDelay = eg.releaseDelay - count
        BY <1>1, <1>5, <1>10, <1>14, <2>1, <4>1 DEF Greatest
      <4> QED BY <1>1, <1>2, <1>10, <1>14, <1>17, <2>3, <3>2, <3>3, <4>1, <4>2 DEF Greatest
    <3>4. CASE ~(eg.releaseDelay > 0)
      <4>1. eg.delay <= 0
        BY <1>14, <3>2, <3>4 DEF Greatest
      <4>2. eg.delay = 0 /\ f.releaseDelay = -1 /\ count <= 1 /\ eg.releaseDelay = 0
        BY <1>14, <1>16, <2>1, <2>3, <3>4, <4>1 DEF Due
      <4>3. g.releaseDelay = -1
        BY <1>1, <1>5, <1>10, <2>1, <4>2 DEF Greatest
      <4> QED BY <1>1, <1>2, <1>10, <1>14, <1>17, <2>3, <3>2, <4>2, <4>3 DEF Greatest
    <3> QED BY <3>3, <3>4
  <2> QED BY <2>2, <2>3
<1>19. ~patch.dynamic /\ g.state \in Held =>
         wait' <= Greatest(g.releaseDelay, Greatest(g.delay, 0))
  <2>1. SUFFICES ASSUME ~patch.dynamic, g.state \in Held
                 PROVE  wait' <= Greatest(g.releaseDelay, Greatest(g.delay, 0))
    OBVIOUS
  <2>2. voice # "idle"
    BY DEF BlocksOK
  <2>3. CASE ~eg.shouldRelease
    <3>1. wait = 0 /\ wait' = 0
      BY <1>2, <2>2, <2>3 DEF EgInv, ReleaseCounts
    <3> QED BY <1>6, <1>10, <1>14, <3>1 DEF Greatest
  <2>4. CASE eg.shouldRelease
    <3>1. eg.state \in Held
      BY <1>16, <2>1, <2>4
    <3>2. wait <= Greatest(eg.releaseDelay, Greatest(eg.delay, 0))
      BY <2>1, <3>1 DEF EgInv, ReleaseCounts
    <3>3. e.shouldRelease
      BY <1>9, <2>4 DEF Turned
    <3>4. g.releaseDelay = Greatest(-1, f.releaseDelay - count)
      BY <1>5, <3>3
    <3>5. wait' = Greatest(wait - count, -2)
      BY <1>2, <2>4
    <3>6. CASE Due(eg) /\ eg.releaseDelay <= 0
      <4>1. wait <= 0
        <5>1. eg.delay = 0 /\ eg.releaseDelay = 0
          BY <1>16, <2>1, <2>4, <3>6
        <5> QED BY <1>14, <3>2, <5>1 DEF Greatest
      <4> QED BY <1>1, <1>6, <1>10, <1>14, <3>5, <4>1 DEF Greatest
    <3>7. CASE ~(Due(eg) /\ eg.releaseDelay <= 0)
      <4>1. f.releaseDelay = eg.releaseDelay
        BY <1>16, <2>1, <2>4, <3>7
      <4>2. g.releaseDelay >= eg.releaseDelay - count
        BY <1>1, <1>14, <3>4, <4>1 DEF Greatest
      <4> QED BY <1>1, <1>6, <1>10, <1>14, <1>17, <3>2, <3>5, <4>2 DEF Greatest
    <3> QED BY <3>6, <3>7
  <2> QED BY <2>3, <2>4
<1>20. ReleaseCounts'
  BY <1>2, <1>4, <1>13, <1>18, <1>19 DEF ReleaseCounts
<1>21. Holds'
  <2>1. SUFFICES ASSUME voice = "playing", ~asked, ~g.freeRunning
                 PROVE  ~g.shouldRelease /\ g.state \in Held
    BY <1>2, <1>4, <1>11 DEF Holds
  <2>2. ~eg.freeRunning
    BY <1>9, <1>10, <2>1 DEF Turned
  <2>3. ~eg.shouldRelease /\ eg.state \in Held
    BY <2>1, <2>2 DEF Holds
  <2>4. f = eg
    BY <2>3, Entering
  <2> QED BY <1>9, <1>10, <2>2, <2>3, <2>4 DEF Turned
<1>22. EgInv'
  BY <1>4, <1>7, <1>12, <1>20 DEF EgInv
<1> QED BY <1>8, <1>11, <1>21, <1>22 DEF AdsrInv

(* So does the whole of a turn.                                            *)
LEMMA SegmentKeeps ==
  ASSUME AdsrInv, Segment
  PROVE  AdsrInv'
<1>1. BlocksOK /\ EgInv /\ Holds /\ ~IsFlex
  BY DEF AdsrInv
<1>2. PICK e : \E count \in 0 .. Size(eg, left) :
           /\ left > 0 /\ Advance(e, count) /\ Turned(Entered(eg), e, count)
  BY <1>1, SegmentTurns
<1> QED BY <1>1, <1>2, AdvanceKeeps

(* The other steps.                                                        *)
LEMMA UpdatedFields ==
  ASSUME NEW e, IsEg(e), NEW s \in Shape, NEW offset \in Nat, NEW u, u = Updated(e, s, offset)
  PROVE  /\ IsEg(u) /\ u.delay = IF e.state = "delay" THEN offset + s.delay ELSE e.delay
         /\ \A x \in {"state", "level", "releaseDelay", "shouldRelease", "freeRunning", "dynamic"} :
              u[x] = e[x]
<1>1. /\ s.delay \in Nat /\ s.attack \in Nat \ {0} /\ s.hold \in Nat
      /\ s.sustain \in Level /\ s.start \in Level
  BY EnvelopeAssumption DEF Shape, EnvelopeAssumption, Level
<1>2. /\ DOMAIN u = Fields
      /\ u.delay = IF e.state = "delay" THEN offset + s.delay ELSE e.delay
      /\ \A x \in {"state", "level", "releaseDelay", "shouldRelease", "freeRunning", "dynamic"} :
           u[x] = e[x]
      /\ u.attackStep = s.attack /\ u.hold = s.hold /\ u.sustain = s.sustain /\ u.start = s.start
  BY DEF Updated, IsEg, Fields
<1>3. u.delay \in Int
  BY <1>1, <1>2 DEF IsEg
<1>4. IsEg(u)
  BY <1>1, <1>2, <1>3 DEF IsEg
<1> QED BY <1>2, <1>4

(* A note begins with its delay before it and no release to come.          *)
LEMMA NoteOnKeeps ==
  ASSUME AdsrInv, NEW d \in Offsets, NEW p \in Patches, NEW s \in p.shapes, NoteOn(p, s, d)
  PROVE  AdsrInv'
<1>1. s \in Shape /\ p.dynamic \in BOOLEAN /\ p.oneShot \in BOOLEAN /\ d \in Nat
  BY EnvelopeAssumption DEF EnvelopeAssumption, Offsets
<1>2. /\ voice = "idle" /\ voice' = "playing" /\ patch' = p /\ toGo' = d + s.delay
      /\ wait' = 0 /\ asked' = FALSE /\ now' = d /\ UNCHANGED <<frames, rendering, left, rest>>
  BY DEF NoteOn, Begins, At
<1>3. s.delay \in Nat /\ s.start \in Level
  BY <1>1 DEF Shape
<1>4. ~rendering /\ rest = 0 /\ left = 0
  BY <1>2 DEF AdsrInv, BlocksOK
<1>5. IsEg(eg)
  BY DEF AdsrInv, EgInv
<1>6. PICK e : e = [eg EXCEPT !.state = "delay"]
  OBVIOUS
<1>7. PICK e2 : e2 = [e EXCEPT !.level = s.start]
  OBVIOUS
<1>8. e.state = "delay" /\ DOMAIN e = Fields
      /\ \A x \in Fields \ {"state"} : e[x] = eg[x]
  BY <1>5, <1>6 DEF IsEg, Fields
<1>9. PICK u : u = Updated(e, s, d)
  OBVIOUS
<1>10. /\ DOMAIN u = Fields /\ u.delay = d + s.delay /\ u.state = "delay"
       /\ u.attackStep = s.attack /\ u.hold = s.hold /\ u.sustain = s.sustain
       /\ u.start = s.start
  BY <1>8, <1>9 DEF Updated, Fields
<1>11. PICK g : g = eg'
  OBVIOUS
<1>12. g = [u EXCEPT !.dynamic = p.dynamic, !.releaseDelay = 0, !.shouldRelease = FALSE,
              !.freeRunning = s.sustain <= FreeThreshold \/ p.oneShot, !.level = s.start]
  BY <1>6, <1>9, <1>11 DEF NoteOn, Reset
<1>13. PICK free \in BOOLEAN : free = (s.sustain <= FreeThreshold \/ p.oneShot)
  OBVIOUS
<1>14. /\ DOMAIN g = Fields /\ g.state = "delay" /\ g.delay = d + s.delay
       /\ g.releaseDelay = 0 /\ g.shouldRelease = FALSE /\ g.dynamic = p.dynamic
       /\ g.freeRunning = free /\ g.level = s.start
       /\ g.attackStep = s.attack /\ g.hold = s.hold /\ g.sustain = s.sustain /\ g.start = s.start
  BY <1>10, <1>12, <1>13 DEF Fields
<1>15. s.attack \in Nat \ {0} /\ s.hold \in Nat /\ s.sustain \in Level /\ s.start \in Int
  BY <1>1, EnvelopeAssumption DEF Shape, EnvelopeAssumption, Level
<1>16. IsEg(g)
  <2>1. g.state \in Stage /\ g.delay \in Int /\ g.releaseDelay \in Nat \cup {-1}
    BY <1>1, <1>3, <1>14 DEF Stage
  <2>2. g.shouldRelease \in BOOLEAN
    BY <1>14
  <2>3. g.dynamic \in BOOLEAN /\ g.freeRunning \in BOOLEAN
    BY <1>1, <1>13, <1>14
  <2> QED BY <1>3, <1>14, <1>15, <2>1, <2>2, <2>3 DEF IsEg
<1>17. BlocksOK'
  <2>1. asked' \in BOOLEAN
    BY <1>2
  <2>2. voice' \in {"idle", "playing", "cleanMeUp"} /\ patch' \in Patches \cup FlexPatches
    BY <1>2
  <2> QED BY <1>1, <1>2, <1>3, <1>4, <2>1, <2>2 DEF AdsrInv, BlocksOK
<1>18. ~IsFlex'
  BY <1>2, KindsAssumption DEF KindsAssumption, IsFlex
<1>19. DelayCounts'
  BY <1>1, <1>2, <1>3, <1>4, <1>11, <1>14 DEF DelayCounts, Greatest
<1>20. ReleaseCounts'
  BY <1>1, <1>2, <1>3, <1>11, <1>14 DEF ReleaseCounts, Greatest
<1>21. Holds'
  BY <1>11, <1>14, <1>18 DEF Holds, Held
<1> QED BY <1>11, <1>16, <1>17, <1>18, <1>19, <1>20, <1>21 DEF AdsrInv, EgInv

(* A release asks for its offset, and the delay is what is left of it.     *)
LEMMA ReleaseKeeps ==
  ASSUME AdsrInv, NEW d \in Offsets, NEW off \in BOOLEAN, NEW rate, Release(d, off, rate)
  PROVE  AdsrInv'
<1>1. d \in Nat
  BY DEF Offsets
<1>2. /\ voice = "playing" /\ voice' = IF eg.delay > d THEN "cleanMeUp" ELSE voice
      /\ wait' = Greatest(d, toGo) /\ asked' = TRUE /\ now' = d
      /\ UNCHANGED <<patch, frames, rendering, left, rest, toGo>>
  BY DEF Release, Releases, At
<1>3. PICK g : g = eg'
  OBVIOUS
<1>4. IsEg(eg)
  BY DEF AdsrInv, EgInv
<1>5. /\ DOMAIN g = Fields /\ g.releaseDelay = d /\ g.shouldRelease = TRUE
      /\ g.dynamic = (eg.dynamic /\ ~off)
      /\ \A x \in Fields \ {"releaseDelay", "shouldRelease", "dynamic", "releaseRate"} : g[x] = eg[x]
  BY <1>3, <1>4 DEF Release, IsEg, Fields
<1>6. IsEg(g)
  BY <1>1, <1>4, <1>5 DEF IsEg, Fields
<1>7. BlocksOK'
  BY <1>1, <1>2 DEF AdsrInv, BlocksOK, Greatest
<1>8. ~IsFlex'
  BY <1>2 DEF AdsrInv, IsFlex
<1>9. g.state = eg.state /\ g.delay = eg.delay
  BY <1>5 DEF Fields
<1>10. DelayCounts'
  BY <1>2, <1>3, <1>5, <1>9 DEF AdsrInv, EgInv, DelayCounts
<1>11. ReleaseCounts'
  <2>1. toGo \in Nat /\ eg.delay \in Int
    BY <1>4 DEF AdsrInv, BlocksOK, IsEg
  <2>2. voice' = "playing" => g.delay <= d
    BY <1>1, <1>2, <1>9, <2>1
  <2>3. ~patch.dynamic => toGo <= Greatest(g.delay, 0)
    BY <1>9 DEF AdsrInv, EgInv, DelayCounts
  <2>4. wait' >= d
    BY <1>1, <1>2, <2>1 DEF Greatest
  <2>5. ~patch.dynamic => wait' <= Greatest(d, Greatest(g.delay, 0))
    BY <1>1, <1>2, <1>9, <2>1, <2>3 DEF Greatest
  <2> QED BY <1>1, <1>2, <1>3, <1>5, <1>9, <2>1, <2>2, <2>4, <2>5 DEF ReleaseCounts, Greatest
<1>12. Holds'
  BY <1>2 DEF Holds
<1> QED BY <1>3, <1>6, <1>7, <1>8, <1>10, <1>11, <1>12 DEF AdsrInv, EgInv

LEMMA CancelReleaseKeeps ==
  ASSUME ~CancelInDelay, AdsrInv, NEW d \in Offsets, CancelRelease(d)
  PROVE  AdsrInv'
<1>1. d \in Nat
  BY DEF Offsets
<1>2. /\ voice = "playing" /\ wait' = 0 /\ asked' = FALSE /\ now' = d /\ eg.delay <= 0
      /\ UNCHANGED <<patch, voice, frames, rendering, left, rest, toGo>>
  BY DEF CancelRelease, Resumes, At
<1>3. PICK g : g = eg'
  OBVIOUS
<1>4. IsEg(eg)
  BY DEF AdsrInv, EgInv
<1>5. /\ DOMAIN g = Fields /\ g.releaseDelay = -1 /\ g.shouldRelease = FALSE
      /\ g.state = "sustain"
      /\ \A x \in Fields \ {"releaseDelay", "shouldRelease", "state"} : g[x] = eg[x]
  BY <1>3, <1>4 DEF CancelRelease, IsEg, Fields
<1>6. IsEg(g)
  BY <1>4, <1>5 DEF IsEg, Fields, Stage
<1>7. BlocksOK'
  <2>1. asked' \in BOOLEAN
    BY <1>2
  <2> QED BY <1>1, <1>2, <2>1 DEF AdsrInv, BlocksOK
<1>8. ~IsFlex'
  BY <1>2 DEF AdsrInv, IsFlex
<1>9. g.dynamic = eg.dynamic /\ g.delay = eg.delay
  BY <1>5 DEF Fields
<1>10. DelayCounts'
  BY <1>2, <1>3, <1>5, <1>9 DEF AdsrInv, EgInv, DelayCounts
<1>11. eg.delay \in Int
  BY <1>4 DEF IsEg
<1>12. ReleaseCounts'
  BY <1>2, <1>3, <1>5, <1>9, <1>11 DEF ReleaseCounts, Greatest
<1>13. Holds'
  BY <1>3, <1>5, <1>8 DEF Holds, Held
<1> QED BY <1>3, <1>6, <1>7, <1>8, <1>10, <1>12, <1>13 DEF AdsrInv, EgInv

(* The kind of the patch gives the type of its shapes.                     *)
LEMMA ShapesOfPatch ==
  ASSUME AdsrInv
  PROVE  patch \in Patches /\ patch.shapes \subseteq Shape /\ patch.dynamic \in BOOLEAN
<1>1. patch \in Patches
  BY KindsAssumption DEF KindsAssumption, AdsrInv, BlocksOK, IsFlex
<1> QED BY <1>1, EnvelopeAssumption DEF EnvelopeAssumption

LEMMA BlockKeeps ==
  ASSUME SteadyDelay, AdsrInv, Block
  PROVE  AdsrInv'
<1>1. PICK s \in patch.shapes : eg' = IF eg.dynamic THEN Updated(eg, s, 0) ELSE eg
  BY DEF Block
<1>2. /\ voice # "idle" /\ ~rendering /\ rendering' = TRUE
      /\ left' = IF eg.dynamic THEN Least(Chunk, frames) ELSE frames
      /\ rest' = frames - left'
      /\ UNCHANGED <<patch, voice, frames, now, toGo, wait, asked>>
  BY DEF Block, BeginsBlock
<1>3. IsEg(eg) /\ patch \in Patches /\ s \in Shape /\ frames \in Nat \ {0}
  BY ShapesOfPatch DEF AdsrInv, EgInv, BlocksOK
<1>4. left' \in 1 .. frames /\ rest' \in Nat /\ (~eg.dynamic => rest' = 0)
  BY <1>2, <1>3, BlocksAssumption DEF BlocksAssumption, Least
<1>5. BlocksOK'
  BY <1>2, <1>3, <1>4 DEF AdsrInv, BlocksOK
<1>6. ~IsFlex'
  BY <1>2 DEF AdsrInv, IsFlex
<1>7. PICK g : g = eg'
  OBVIOUS
<1>8. /\ IsEg(g) /\ g.state = eg.state /\ g.releaseDelay = eg.releaseDelay
      /\ g.shouldRelease = eg.shouldRelease /\ g.freeRunning = eg.freeRunning
      /\ g.dynamic = eg.dynamic
      /\ g.delay = IF eg.dynamic /\ eg.state = "delay" THEN s.delay ELSE eg.delay
  <2>1. CASE ~eg.dynamic
    BY <1>1, <1>3, <1>7, <2>1
  <2>2. CASE eg.dynamic
    <3>1. g = Updated(eg, s, 0) /\ 0 \in Nat
      BY <1>1, <1>7, <2>2
    <3>2. s.delay \in Nat
      BY <1>3 DEF Shape
    <3>3. /\ IsEg(g) /\ g.delay = IF eg.state = "delay" THEN 0 + s.delay ELSE eg.delay
          /\ \A x \in {"state", "level", "releaseDelay", "shouldRelease", "freeRunning", "dynamic"} :
               g[x] = eg[x]
      BY <1>3, <3>1, UpdatedFields
    <3>4. g.delay = IF eg.dynamic /\ eg.state = "delay" THEN s.delay ELSE eg.delay
      <4>1. 0 + s.delay = s.delay
        BY <3>2
      <4> QED BY <2>2, <3>3, <4>1
    <3> QED BY <3>3, <3>4
  <2> QED BY <2>1, <2>2
<1>9. eg.dynamic => patch.dynamic /\ s.delay = 0
  BY <1>1, <1>3, ShapesOfPatch DEF AdsrInv, EgInv, DelayCounts, SteadyDelay
<1>10. eg.delay \in Int /\ eg.releaseDelay \in Nat \cup {-1}
  BY <1>3 DEF IsEg
<1>11. eg.state = "delay" /\ ~(eg.dynamic) => rest' = 0
  BY <1>4
<1>12. DelayCounts'
  BY <1>2, <1>4, <1>7, <1>8, <1>9, <1>10 DEF AdsrInv, EgInv, DelayCounts, Greatest
<1>13. ReleaseCounts'
  BY <1>2, <1>7, <1>8, <1>9, <1>10 DEF AdsrInv, EgInv, ReleaseCounts, Greatest
<1>14. Holds'
  BY <1>2, <1>6, <1>7, <1>8 DEF AdsrInv, Holds
<1> QED BY <1>5, <1>6, <1>7, <1>8, <1>12, <1>13, <1>14 DEF AdsrInv, EgInv

LEMMA NextChunkKeeps ==
  ASSUME AdsrInv, NextChunk
  PROVE  AdsrInv'
<1>1. PICK s \in patch.shapes : eg' = Updated(eg, s, frames - rest)
  BY DEF NextChunk
<1>2. /\ left = 0 /\ rest > 0 /\ left' = Least(Chunk, rest) /\ rest' = rest - left'
      /\ UNCHANGED <<patch, voice, frames, now, rendering, toGo, wait, asked>>
  BY DEF NextChunk, BeginsChunk
<1>3. IsEg(eg) /\ s \in Shape /\ frames \in Nat \ {0} /\ rest \in Nat /\ rendering
  BY <1>2, ShapesOfPatch DEF AdsrInv, EgInv, BlocksOK
<1>4. left' \in Nat /\ rest' \in Nat
  BY <1>2, <1>3, BlocksAssumption DEF BlocksAssumption, Least
<1>5. BlocksOK'
  BY <1>2, <1>3, <1>4 DEF AdsrInv, BlocksOK
<1>6. ~IsFlex'
  BY <1>2 DEF AdsrInv, IsFlex
<1>7. eg.state # "delay" /\ patch.dynamic
  BY <1>2, <1>3, ShapesOfPatch DEF AdsrInv, EgInv, DelayCounts
<1>8. PICK g : g = eg'
  OBVIOUS
<1>9. /\ IsEg(g) /\ g.delay = eg.delay
      /\ \A x \in {"state", "level", "releaseDelay", "shouldRelease", "freeRunning", "dynamic"} :
           g[x] = eg[x]
  <2>1. PICK offset : offset = frames - rest
    OBVIOUS
  <2>2. g = Updated(eg, s, offset)
    BY <1>1, <1>8, <2>1
  <2>3. /\ s.attack \in Nat \ {0} /\ s.hold \in Nat
        /\ s.sustain \in Level /\ s.start \in Level
    BY <1>3, EnvelopeAssumption DEF Shape, EnvelopeAssumption, Level
  <2>4. /\ DOMAIN g = Fields /\ g.delay = eg.delay
        /\ \A x \in {"state", "level", "releaseDelay", "shouldRelease", "freeRunning", "dynamic"} :
             g[x] = eg[x]
        /\ g.attackStep = s.attack /\ g.hold = s.hold /\ g.sustain = s.sustain /\ g.start = s.start
    BY <1>3, <1>7, <2>2 DEF Updated, IsEg, Fields
  <2> QED BY <1>3, <2>3, <2>4 DEF IsEg
<1>10. DelayCounts'
  BY <1>2, <1>7, <1>8, <1>9 DEF AdsrInv, EgInv, DelayCounts
<1>11. ReleaseCounts'
  BY <1>2, <1>8, <1>9 DEF AdsrInv, EgInv, ReleaseCounts
<1>12. Holds'
  BY <1>2, <1>6, <1>8, <1>9 DEF AdsrInv, Holds
<1> QED BY <1>5, <1>6, <1>8, <1>9, <1>10, <1>11, <1>12 DEF AdsrInv, EgInv

(* The end of a block leaves the counts alone.                             *)
LEMMA EndsBlockKeeps ==
  ASSUME BlocksOK, NEW finished, EndsBlock(finished)
  PROVE  /\ BlocksOK' /\ left = 0 /\ rest = 0 /\ voice' \in {voice, "idle"}
         /\ UNCHANGED <<patch, left, rest, toGo, wait, asked>>
<1>1. /\ rendering' = FALSE /\ now' = 0 /\ frames' \in Sizes
      /\ voice' = IF voice = "playing" /\ ~finished THEN voice ELSE "idle"
      /\ UNCHANGED <<patch, left, rest, toGo, wait, asked>>
      /\ IF voice # "idle" THEN rendering /\ left = 0 /\ rest = 0 ELSE now > 0
  BY DEF EndsBlock
<1>2. left = 0 /\ rest = 0
  BY <1>1 DEF BlocksOK
<1>3. frames' \in Nat \ {0}
  BY <1>1, BlocksAssumption DEF BlocksAssumption
<1> QED BY <1>1, <1>2, <1>3 DEF BlocksOK

LEMMA EndBlockKeeps ==
  ASSUME AdsrInv, EndBlock
  PROVE  AdsrInv'
<1>1. /\ BlocksOK' /\ left = 0 /\ rest = 0 /\ voice' \in {voice, "idle"} /\ eg' = eg
      /\ UNCHANGED <<patch, left, rest, toGo, wait, asked>>
  BY EndsBlockKeeps DEF AdsrInv, EndBlock
<1>2. ~IsFlex'
  BY <1>1 DEF AdsrInv, IsFlex
<1>3. DelayCounts'
  BY <1>1 DEF AdsrInv, EgInv, DelayCounts
<1>4. ReleaseCounts'
  BY <1>1 DEF AdsrInv, EgInv, ReleaseCounts
<1>5. Holds'
  BY <1>1, <1>2 DEF AdsrInv, Holds
<1> QED BY <1>1, <1>2, <1>3, <1>4, <1>5 DEF AdsrInv, EgInv

(* No step of the ADSR envelope breaks its invariant.                      *)
LEMMA EgNextKeeps ==
  ASSUME SteadyDelay, ~CancelInDelay, AdsrInv, EgNext
  PROVE  AdsrInv'
BY NoteOnKeeps, ReleaseKeeps, CancelReleaseKeeps, BlockKeeps, NextChunkKeeps, SegmentKeeps,
   EndBlockKeeps DEF EgNext, EgRender

-----------------------------------------------------------------------------
(* The envelope with points.                                               *)
LEMMA FlexShapes ==
  ASSUME NEW p \in FlexPatches
  PROVE  /\ p.dynamic \in BOOLEAN /\ p.oneShot \in BOOLEAN
         /\ p.sustain \in Nat /\ p.stages \in Nat /\ p.delay \in Nat
         /\ \A s \in p.shapes : /\ DOMAIN s = 0 .. p.stages - 1
                                /\ \A i \in DOMAIN s : /\ s[i].level \in Int /\ s[i].time \in Int
                                                       /\ s[i].time <= Longest
<1>1. p.shapes \subseteq [0 .. p.stages - 1 -> FlexPoint]
  BY FlexAssumption DEF FlexAssumption
<1>2. \A x \in FlexPoint : x.level \in Int /\ x.time \in Int /\ x.time <= Longest
  BY FlexAssumption DEF FlexAssumption, FlexPoint
<1>3. \A s \in p.shapes : DOMAIN s = 0 .. p.stages - 1 /\ \A i \in DOMAIN s : s[i] \in FlexPoint
  BY <1>1
<1> QED BY <1>2, <1>3, FlexAssumption DEF FlexAssumption

(* What the controllers move is the end of a stage, and nothing else.      *)
LEMMA ReadFields ==
  ASSUME NEW e, IsFlexEg(e), NEW p \in FlexPatches, NEW s \in p.shapes, NEW u, u = Read(e, s)
  PROVE  IsFlexEg(u) /\ \A x \in FlexFields \ {"target", "length"} : u[x] = e[x]
<1>1. CASE e.stage \in DOMAIN s
  <2>1. u = [e EXCEPT !.target = s[e.stage].level, !.length = s[e.stage].time]
    BY <1>1 DEF Read
  <2>2. s[e.stage].level \in Int /\ s[e.stage].time \in Int /\ s[e.stage].time <= Longest
    BY <1>1, FlexShapes
  <2>3. /\ DOMAIN u = FlexFields /\ u.target = s[e.stage].level /\ u.length = s[e.stage].time
        /\ \A x \in FlexFields \ {"target", "length"} : u[x] = e[x]
    BY <2>1 DEF IsFlexEg, FlexFields
  <2>4. IsFlexEg(u)
    BY <2>2, <2>3 DEF IsFlexEg, FlexFields
  <2> QED BY <2>3, <2>4
<1>2. CASE e.stage \notin DOMAIN s
  BY <1>2 DEF Read
<1> QED BY <1>1, <1>2

(* A stage begins at the level the envelope has.                           *)
LEMMA StageEntered ==
  ASSUME NEW e, IsFlexEg(e), NEW p \in FlexPatches, NEW s \in p.shapes, NEW stage \in Nat,
         NEW u, u = AdvanceToStage(e, stage, s)
  PROVE  /\ IsFlexEg(u) /\ u.stage = stage
         /\ \A x \in {"level", "delay", "untilRelease", "isReleased", "freeRunning", "late"} :
              u[x] = e[x]
         /\ stage < p.stages => u.source = u.level /\ u.time = 0
<1>1. DOMAIN s = 0 .. p.stages - 1 /\ p.stages \in Nat
  BY FlexShapes
<1>2. CASE stage \in DOMAIN s
  <2>1. PICK f : f = [e EXCEPT !.stage = stage, !.source = e.level, !.time = 0]
    OBVIOUS
  <2>2. /\ DOMAIN f = FlexFields /\ f.stage = stage /\ f.source = e.level /\ f.time = 0
        /\ \A x \in FlexFields \ {"stage", "source", "time"} : f[x] = e[x]
    BY <2>1 DEF IsFlexEg, FlexFields
  <2>3. IsFlexEg(f)
    BY <2>2 DEF IsFlexEg, FlexFields
  <2>4. u = Read(f, s)
    BY <1>2, <2>1 DEF AdvanceToStage
  <2>5. IsFlexEg(u) /\ \A x \in FlexFields \ {"target", "length"} : u[x] = f[x]
    BY <2>3, <2>4, ReadFields
  <2> QED BY <2>2, <2>5 DEF FlexFields
<1>3. CASE stage \notin DOMAIN s
  <2>1. u = [e EXCEPT !.stage = stage]
    BY <1>3 DEF AdvanceToStage
  <2>2. ~(stage < p.stages)
    BY <1>1, <1>3
  <2>3. /\ DOMAIN u = FlexFields /\ u.stage = stage
        /\ \A x \in FlexFields \ {"stage"} : u[x] = e[x]
    BY <2>1 DEF IsFlexEg, FlexFields
  <2> QED BY <2>2, <2>3 DEF IsFlexEg, FlexFields
<1> QED BY <1>2, <1>3

(* A stage begins at the level the envelope has.                           *)
LEMMA LevelAtStart ==
  ASSUME NEW u, IsFlexEg(u), u.source = u.level, u.time = 0, u.length > 0
  PROVE  u.level = LevelAt(u, u.time)
<1>1. (u.target - u.source) * 0 = 0
  BY DEF IsFlexEg
<1>2. 0 \div u.length = 0
  BY DEF IsFlexEg
<1> QED BY <1>1, <1>2 DEF LevelAt, IsFlexEg

(* The kind of the patch, again.                                           *)
LEMMA PatchIsFlex == ASSUME PointsInv PROVE patch \in FlexPatches
BY KindsAssumption DEF PointsInv, BlocksOK, IsFlex, KindsAssumption

(* A turn of the loop of process, as the counters see it.                  *)
LEMMA FlexRendersCounts ==
  ASSUME PointsInv, left > 0, NEW e, IsFlexEg(e), NEW count \in 0 .. left, FlexRenders(e, count),
         e.late = flex.late, e.delay = Greatest(flex.delay - count, 0),
         FlexFinished(flex) => FlexFinished(e),
         e.untilRelease # None =>
           /\ flex.untilRelease # None
           /\ IF flex.delay > 0 \/ FlexFinished(flex)
              THEN e.untilRelease = flex.untilRelease /\ (count <= flex.delay \/ FlexFinished(flex))
              ELSE e.untilRelease = flex.untilRelease - count
  PROVE  BlocksOK' /\ IsFlex' /\ IsFlexEg(flex)' /\ FlexCounts' /\ flex' = e
<1>1. /\ UNCHANGED <<patch, voice, frames, now, rendering, rest, asked, begun, events>>
      /\ left' = left - count /\ toGo' = Greatest(toGo - count, 0) /\ flex' = e
      /\ wait' = IF flex.untilRelease # None THEN Greatest(wait - count, -1 - flex.late) ELSE wait
  BY DEF FlexRenders, Renders
<1>2. BlocksOK /\ IsFlexEg(flex) /\ FlexCounts /\ IsFlex
  BY DEF PointsInv, FlexInv
<1>3. /\ left \in Nat /\ toGo \in Nat /\ wait \in Int /\ flex.late \in Nat /\ flex.delay \in Nat
      /\ flex.untilRelease \in Nat \cup {None} /\ e.untilRelease \in Nat \cup {None}
  BY <1>2 DEF BlocksOK, IsFlexEg
<1>4. BlocksOK'
  BY <1>1, <1>2, <1>3 DEF BlocksOK, Greatest
<1>5. IsFlex'
  BY <1>1, <1>2 DEF IsFlex
<1>6. toGo' = e.delay
  BY <1>1, <1>2 DEF FlexCounts
<1>7. ASSUME e.untilRelease # None
      PROVE  wait' <= Greatest(e.untilRelease, e.delay)
  <2>1. wait <= Greatest(flex.untilRelease, flex.delay) /\ flex.untilRelease # None
    BY <1>2, <1>7 DEF FlexCounts
  <2>2. e.untilRelease >= 0 /\ e.untilRelease >= flex.untilRelease - count
    BY <1>3, <1>7 DEF None
  <2>3. e.delay \in Int /\ e.delay >= flex.delay - count /\ e.untilRelease \in Int /\ flex.untilRelease \in Int
    BY <1>3, <1>7, <2>1 DEF Greatest, None
  <2>4. wait - count <= Greatest(e.untilRelease, e.delay)
    BY <1>3, <2>1, <2>2, <2>3 DEF Greatest
  <2>5. -1 - flex.late <= Greatest(e.untilRelease, e.delay)
    BY <1>3, <2>2, <2>3 DEF Greatest
  <2>6. wait' = Greatest(wait - count, -1 - flex.late)
    BY <1>1, <2>1
  <2> QED BY <2>4, <2>5, <2>6 DEF Greatest
<1>8. ASSUME e.untilRelease # None, ~FlexFinished(e), voice = "playing"
      PROVE  wait' >= e.untilRelease + e.delay - flex.late
  <2>1. /\ wait >= flex.untilRelease + flex.delay - flex.late
        /\ flex.untilRelease # None /\ ~FlexFinished(flex)
    BY <1>2, <1>8 DEF FlexCounts
  <2>2. CASE flex.delay > 0
    <3>1. e.untilRelease = flex.untilRelease /\ count <= flex.delay
      BY <1>8, <2>1, <2>2
    <3> QED BY <1>1, <1>3, <2>1, <3>1 DEF Greatest, None
  <2>3. CASE ~(flex.delay > 0)
    <3>1. e.untilRelease = flex.untilRelease - count
      BY <1>8, <2>1, <2>3
    <3> QED BY <1>1, <1>3, <2>1, <2>3, <3>1 DEF Greatest, None
  <2> QED BY <2>2, <2>3
<1>9. FlexFinished(e)' <=> FlexFinished(e)
  BY <1>1 DEF FlexFinished
<1>10. FlexCounts'
  BY <1>1, <1>2, <1>6, <1>7, <1>8 DEF FlexCounts, FlexFinished
<1> QED BY <1>1, <1>4, <1>5, <1>10

LEMMA FlexNoteOnKeeps ==
  ASSUME IsFlexEg(flex), PointsInv, NEW d \in Offsets, NEW p \in FlexPatches, FlexNoteOn(p, d)
  PROVE  PointsInv'
<1>1. d \in Nat /\ p.delay \in Nat /\ p.oneShot \in BOOLEAN /\ p.sustain \in Nat
  BY FlexShapes DEF Offsets
<1>2. /\ voice = "idle" /\ voice' = "playing" /\ patch' = p /\ toGo' = d + p.delay
      /\ wait' = 0 /\ asked' = FALSE /\ now' = d /\ UNCHANGED <<frames, rendering, left, rest>>
  BY DEF FlexNoteOn, Begins, At
<1>3. ~rendering /\ rest = 0 /\ left = 0
  BY <1>2 DEF PointsInv, BlocksOK
<1>4. PICK f : f = [flex EXCEPT !.freeRunning = p.oneShot, !.isReleased = FALSE, !.level = 0,
                      !.time = 0, !.delay = d + p.delay, !.untilRelease = None, !.late = 0]
  OBVIOUS
<1>5. PICK s \in p.shapes : flex' = AdvanceToStage(f, 0, s)
  BY <1>4 DEF FlexNoteOn
<1>6. /\ DOMAIN f = FlexFields /\ f.freeRunning = p.oneShot /\ f.isReleased = FALSE /\ f.level = 0
      /\ f.time = 0 /\ f.delay = d + p.delay /\ f.untilRelease = None /\ f.late = 0
      /\ \A x \in {"stage", "source", "target", "length"} : f[x] = flex[x]
  BY <1>4 DEF IsFlexEg, FlexFields
<1>7. f.isReleased \in BOOLEAN
  BY <1>6
<1>8. IsFlexEg(f)
  BY <1>1, <1>6, <1>7 DEF IsFlexEg
<1>9. PICK u : u = flex'
  OBVIOUS
<1>10. /\ IsFlexEg(u) /\ u.stage = 0
       /\ \A x \in {"level", "delay", "untilRelease", "isReleased", "freeRunning", "late"} :
            u[x] = f[x]
       /\ 0 < p.stages => u.source = u.level /\ u.time = 0
  BY <1>5, <1>8, <1>9, StageEntered
<1>11. BlocksOK'
  <2>1. asked' \in BOOLEAN
    BY <1>2
  <2>2. voice' \in {"idle", "playing", "cleanMeUp"} /\ patch' \in Patches \cup FlexPatches
    BY <1>2
  <2> QED BY <1>1, <1>2, <1>3, <2>1, <2>2 DEF PointsInv, BlocksOK
<1>12. IsFlex'
  BY <1>2, KindsAssumption DEF KindsAssumption, IsFlex
<1>13. FlexCounts'
  BY <1>1, <1>2, <1>3, <1>6, <1>9, <1>10 DEF FlexCounts
<1>14. FlexLevel'
  <2>1. SUFFICES ASSUME 0 < p.stages, u.length > 0 PROVE u.level = LevelAt(u, u.time)
    BY <1>2, <1>9, <1>10, FlexShapes DEF FlexLevel, FlexFinished, LevelAt
  <2> QED BY <1>10, <2>1, LevelAtStart
<1>15. Holds'
  BY <1>1, <1>2, <1>6, <1>9, <1>10, <1>12 DEF Holds
<1> QED BY <1>9, <1>10, <1>11, <1>12, <1>13, <1>14, <1>15 DEF PointsInv, FlexInv

LEMMA FlexReleaseKeeps ==
  ASSUME PointsInv, NEW d \in Offsets, FlexRelease(d)
  PROVE  PointsInv'
<1>1. d \in Nat
  BY DEF Offsets
<1>2. /\ voice = "playing" /\ voice' = IF flex.delay > d THEN "cleanMeUp" ELSE voice
      /\ wait' = Greatest(d, toGo) /\ asked' = TRUE /\ now' = d
      /\ UNCHANGED <<patch, frames, rendering, left, rest, toGo>>
  BY DEF FlexRelease, Releases, At
<1>3. PICK g : g = flex'
  OBVIOUS
<1>4. IsFlexEg(flex) /\ toGo = flex.delay
  BY DEF PointsInv, FlexInv, FlexCounts
<1>5. /\ DOMAIN g = FlexFields /\ g.untilRelease = d /\ g.late = flex.delay
      /\ \A x \in FlexFields \ {"untilRelease", "late"} : g[x] = flex[x]
  BY <1>3, <1>4 DEF FlexRelease, IsFlexEg, FlexFields
<1>6. IsFlexEg(g)
  BY <1>1, <1>4, <1>5 DEF IsFlexEg, FlexFields
<1>7. BlocksOK'
  BY <1>1, <1>2 DEF PointsInv, BlocksOK, Greatest
<1>8. IsFlex'
  BY <1>2 DEF PointsInv, IsFlex
<1>9. /\ g.stage = flex.stage /\ g.delay = flex.delay /\ g.level = flex.level /\ g.time = flex.time
      /\ g.source = flex.source /\ g.target = flex.target /\ g.length = flex.length
  BY <1>5 DEF FlexFields
<1>10. FlexCounts'
  BY <1>1, <1>2, <1>3, <1>4, <1>5, <1>9 DEF PointsInv, FlexInv, FlexCounts, Greatest, IsFlexEg
<1>11. FlexLevel'
  BY <1>2, <1>3, <1>9 DEF PointsInv, FlexInv, FlexLevel, FlexFinished, LevelAt
<1>12. Holds'
  BY <1>2 DEF Holds
<1> QED BY <1>3, <1>6, <1>7, <1>8, <1>10, <1>11, <1>12 DEF PointsInv, FlexInv

LEMMA FlexCancelReleaseKeeps ==
  ASSUME PointsInv, NEW d \in Offsets, FlexCancelRelease(d)
  PROVE  PointsInv'
<1>1. d \in Nat
  BY DEF Offsets
<1>2. /\ voice = "playing" /\ wait' = 0 /\ asked' = (asked /\ ~(flex.untilRelease = None))
      /\ now' = d /\ UNCHANGED <<patch, voice, frames, rendering, left, rest, toGo>>
  BY DEF FlexCancelRelease, Resumes, At
<1>3. IsFlexEg(flex) /\ toGo = flex.delay /\ patch \in FlexPatches
  BY PatchIsFlex DEF PointsInv, FlexInv, FlexCounts
<1>4. BlocksOK'
  <2>1. asked' \in BOOLEAN
    BY <1>2
  <2> QED BY <1>1, <1>2, <2>1 DEF PointsInv, BlocksOK
<1>5. IsFlex'
  BY <1>2 DEF PointsInv, IsFlex
<1>6. PICK g : g = flex'
  OBVIOUS
<1>7. CASE flex.untilRelease # None
  <2>1. g = [flex EXCEPT !.untilRelease = None]
    BY <1>6, <1>7 DEF FlexCancelRelease
  <2>2. /\ DOMAIN g = FlexFields /\ g.untilRelease = None
        /\ \A x \in FlexFields \ {"untilRelease"} : g[x] = flex[x]
    BY <1>3, <2>1 DEF IsFlexEg, FlexFields
  <2>3. IsFlexEg(g)
    BY <1>3, <2>2 DEF IsFlexEg, FlexFields
  <2>4. /\ g.stage = flex.stage /\ g.delay = flex.delay /\ g.level = flex.level /\ g.time = flex.time
        /\ g.source = flex.source /\ g.target = flex.target /\ g.length = flex.length
    BY <2>2 DEF FlexFields
  <2>5. FlexCounts'
    BY <1>2, <1>3, <1>6, <2>2, <2>4 DEF PointsInv, FlexInv, FlexCounts
  <2>6. FlexLevel'
    BY <1>2, <1>6, <2>4 DEF PointsInv, FlexInv, FlexLevel, FlexFinished, LevelAt
  <2>7. asked
    BY <1>2, <1>7 DEF PointsInv, Holds
  <2>8. asked'
    BY <1>2, <1>7, <2>7
  <2>9. Holds'
    BY <2>8 DEF Holds
  <2> QED BY <1>4, <1>5, <1>6, <2>3, <2>5, <2>6, <2>9 DEF PointsInv, FlexInv
<1>8. CASE flex.untilRelease = None
  <2>1. PICK f : f = [flex EXCEPT !.isReleased = FALSE]
    OBVIOUS
  <2>2. PICK s \in patch.shapes :
          g = [AdvanceToStage(f, patch.sustain, s) EXCEPT !.target = flex.level]
    BY <1>6, <1>8, <2>1 DEF FlexCancelRelease
  <2>3. /\ DOMAIN f = FlexFields /\ f.isReleased = FALSE
        /\ \A x \in FlexFields \ {"isReleased"} : f[x] = flex[x]
    BY <1>3, <2>1 DEF IsFlexEg, FlexFields
  <2>4. f.isReleased \in BOOLEAN
    BY <2>3
  <2>5. IsFlexEg(f)
    BY <1>3, <2>3, <2>4 DEF IsFlexEg, FlexFields
  <2>6. PICK u : u = AdvanceToStage(f, patch.sustain, s)
    OBVIOUS
  <2>7. patch.sustain \in Nat /\ patch.stages \in Nat
    BY <1>3, FlexShapes
  <2>8. /\ IsFlexEg(u) /\ u.stage = patch.sustain
        /\ \A x \in {"level", "delay", "untilRelease", "isReleased", "freeRunning", "late"} :
             u[x] = f[x]
        /\ patch.sustain < patch.stages => u.source = u.level /\ u.time = 0
    BY <1>3, <2>5, <2>6, <2>7, StageEntered
  <2>9. /\ DOMAIN g = FlexFields /\ g.target = flex.level
        /\ \A x \in FlexFields \ {"target"} : g[x] = u[x]
    BY <2>2, <2>6, <2>8 DEF IsFlexEg, FlexFields
  <2>10. IsFlexEg(g)
    BY <1>3, <2>8, <2>9 DEF IsFlexEg, FlexFields
  <2>11. /\ g.stage = patch.sustain /\ g.delay = flex.delay /\ g.untilRelease = None
         /\ ~g.isReleased /\ (patch.sustain < patch.stages => g.source = g.level /\ g.time = 0)
    BY <1>8, <2>3, <2>8, <2>9 DEF FlexFields
  <2>12. FlexCounts'
    BY <1>2, <1>3, <1>6, <2>11 DEF PointsInv, FlexInv, FlexCounts
  <2>13. FlexLevel'
    <3>1. SUFFICES ASSUME patch.sustain < patch.stages, g.length > 0 PROVE g.level = LevelAt(g, g.time)
      BY <1>2, <1>6, <2>7, <2>11 DEF FlexLevel, FlexFinished, LevelAt
    <3> QED BY <2>10, <2>11, <3>1, LevelAtStart
  <2>14. Holds'
    BY <1>2, <1>5, <1>6, <2>7, <2>11 DEF Holds
  <2> QED BY <1>4, <1>5, <1>6, <2>10, <2>12, <2>13, <2>14 DEF PointsInv, FlexInv
<1> QED BY <1>7, <1>8

(* What a block or a chunk reads anew.                                     *)
LEMMA FlexReads ==
  ASSUME PointsInv, NEW s \in patch.shapes, BlocksOK', UNCHANGED <<patch, voice, toGo, wait, asked>>,
         ~patch.dynamic => rest' = 0,
         (flex' = Read(flex, s) /\ patch.dynamic) \/ flex' = flex
  PROVE  PointsInv'
<1>1. IsFlexEg(flex) /\ patch \in FlexPatches
  BY PatchIsFlex DEF PointsInv, FlexInv
<1>2. PICK g : g = flex'
  OBVIOUS
<1>3. IsFlexEg(g) /\ \A x \in FlexFields \ {"target", "length"} : g[x] = flex[x]
  BY <1>1, <1>2, ReadFields
<1>4. /\ g.stage = flex.stage /\ g.delay = flex.delay /\ g.untilRelease = flex.untilRelease
      /\ g.late = flex.late /\ g.isReleased = flex.isReleased /\ g.freeRunning = flex.freeRunning
  BY <1>3 DEF FlexFields
<1>5. IsFlex'
  BY DEF PointsInv, IsFlex
<1>6. FlexCounts'
  BY <1>2, <1>4 DEF PointsInv, FlexInv, FlexCounts, FlexFinished
<1>7. FlexLevel'
  <2>1. CASE flex' = flex
    BY <2>1 DEF PointsInv, FlexInv, FlexLevel, FlexFinished, LevelAt
  <2>2. CASE patch.dynamic
    BY <2>2 DEF FlexLevel
  <2> QED BY <2>1, <2>2
<1>8. Holds'
  BY <1>2, <1>4, <1>5 DEF PointsInv, Holds
<1> QED BY <1>2, <1>3, <1>5, <1>6, <1>7, <1>8 DEF PointsInv, FlexInv

LEMMA FlexBlockKeeps == ASSUME PointsInv, FlexBlock PROVE PointsInv'
<1>1. PICK s \in patch.shapes : flex' = IF patch.dynamic THEN Read(flex, s) ELSE flex
  BY DEF FlexBlock
<1>2. /\ voice # "idle" /\ ~rendering /\ rendering' = TRUE
      /\ left' = IF patch.dynamic THEN Least(Chunk, frames) ELSE frames
      /\ rest' = frames - left'
      /\ UNCHANGED <<patch, voice, frames, now, toGo, wait, asked>>
  BY DEF FlexBlock, BeginsBlock
<1>3. frames \in Nat \ {0}
  BY DEF PointsInv, BlocksOK
<1>4. left' \in 1 .. frames /\ rest' \in Nat /\ (~patch.dynamic => rest' = 0)
  BY <1>2, <1>3, BlocksAssumption DEF BlocksAssumption, Least
<1>5. BlocksOK'
  BY <1>2, <1>3, <1>4 DEF PointsInv, BlocksOK
<1> QED BY <1>1, <1>2, <1>4, <1>5, FlexReads

LEMMA FlexNextChunkKeeps == ASSUME PointsInv, FlexNextChunk PROVE PointsInv'
<1>1. PICK s \in patch.shapes : flex' = Read(flex, s)
  BY DEF FlexNextChunk
<1>2. /\ left = 0 /\ rest > 0 /\ left' = Least(Chunk, rest) /\ rest' = rest - left'
      /\ UNCHANGED <<patch, voice, frames, now, rendering, toGo, wait, asked>>
  BY DEF FlexNextChunk, BeginsChunk
<1>3. rest \in Nat /\ rendering /\ patch.dynamic
  BY <1>2, PatchIsFlex, FlexShapes DEF PointsInv, BlocksOK, FlexInv, FlexCounts
<1>4. left' \in Nat /\ rest' \in Nat
  BY <1>2, <1>3, BlocksAssumption DEF BlocksAssumption, Least
<1>5. BlocksOK'
  BY <1>2, <1>3, <1>4 DEF PointsInv, BlocksOK
<1> QED BY <1>1, <1>2, <1>3, <1>5, FlexReads

LEMMA FlexEndBlockKeeps == ASSUME PointsInv, FlexEndBlock PROVE PointsInv'
<1>1. /\ BlocksOK' /\ left = 0 /\ rest = 0 /\ voice' \in {voice, "idle"} /\ flex' = flex
      /\ UNCHANGED <<patch, left, rest, toGo, wait, asked>>
  BY EndsBlockKeeps DEF PointsInv, FlexEndBlock
<1>2. IsFlex'
  BY <1>1 DEF PointsInv, IsFlex
<1>3. FlexCounts'
  BY <1>1 DEF PointsInv, FlexInv, FlexCounts, FlexFinished
<1>4. FlexLevel'
  BY <1>1 DEF PointsInv, FlexInv, FlexLevel, FlexFinished, LevelAt
<1>5. Holds'
  BY <1>1, <1>2 DEF PointsInv, Holds
<1>6. IsFlexEg(flex)'
  BY <1>1 DEF PointsInv, FlexInv
<1> QED BY <1>1, <1>2, <1>3, <1>4, <1>5, <1>6 DEF PointsInv, FlexInv

-----------------------------------------------------------------------------
(* The turns of the loop of the envelope with points.                      *)

(* A note that is held is neither released nor told to end.                *)
LEMMA FlexUnheld ==
  ASSUME PointsInv, flex.untilRelease # None \/ flex.isReleased
  PROVE  voice # "playing" \/ asked
BY DEF PointsInv, Holds

LEMMA FlexSkipKeeps == ASSUME PointsInv, FlexSkip PROVE PointsInv'
<1>1. IsFlexEg(flex) /\ left \in Nat
  BY DEF PointsInv, FlexInv, BlocksOK
<1>2. PICK count : count = Least(left, flex.delay)
  OBVIOUS
<1>3. /\ left > 0 /\ flex.delay > 0 /\ count \in 0 .. left /\ count <= flex.delay
      /\ flex.delay \in Nat
  BY <1>1, <1>2 DEF FlexSkip, Least, IsFlexEg
<1>4. PICK e : e = [flex EXCEPT !.delay = @ - count]
  OBVIOUS
<1>5. FlexRenders(e, count)
  BY <1>2, <1>4 DEF FlexSkip
<1>6. /\ DOMAIN e = FlexFields /\ e.delay = flex.delay - count
      /\ \A x \in FlexFields \ {"delay"} : e[x] = flex[x]
  BY <1>1, <1>4 DEF IsFlexEg, FlexFields
<1>7. /\ e.stage = flex.stage /\ e.level = flex.level /\ e.time = flex.time
      /\ e.source = flex.source /\ e.target = flex.target /\ e.length = flex.length
      /\ e.untilRelease = flex.untilRelease /\ e.isReleased = flex.isReleased
      /\ e.freeRunning = flex.freeRunning /\ e.late = flex.late
  BY <1>6 DEF FlexFields
<1>8. IsFlexEg(e)
  BY <1>1, <1>3, <1>6, <1>7 DEF IsFlexEg
<1>9. e.delay = Greatest(flex.delay - count, 0)
  BY <1>3, <1>6 DEF Greatest
<1>10. BlocksOK' /\ IsFlex' /\ IsFlexEg(flex)' /\ FlexCounts' /\ flex' = e
  BY <1>3, <1>5, <1>7, <1>8, <1>9, FlexRendersCounts DEF FlexFinished
<1>11. UNCHANGED <<patch, voice, asked>>
  BY <1>5 DEF FlexRenders, Renders
<1>12. FlexLevel'
  BY <1>7, <1>10, <1>11 DEF PointsInv, FlexInv, FlexLevel, FlexFinished, LevelAt
<1>13. Holds'
  BY <1>7, <1>10, <1>11 DEF PointsInv, Holds
<1> QED BY <1>10, <1>12, <1>13 DEF PointsInv, FlexInv

LEMMA FlexDueKeeps == ASSUME PointsInv, FlexDue PROVE PointsInv'
<1>1. IsFlexEg(flex) /\ left \in Nat
  BY DEF PointsInv, FlexInv, BlocksOK
<1>2. /\ left > 0 /\ flex.delay = 0 /\ flex.untilRelease = 0
  BY DEF FlexDue, Turning, FlexIsDue
<1>3. PICK e : e = [flex EXCEPT !.isReleased = TRUE, !.untilRelease = None]
  OBVIOUS
<1>4. FlexRenders(e, 0)
  BY <1>3 DEF FlexDue
<1>5. /\ DOMAIN e = FlexFields /\ e.isReleased = TRUE /\ e.untilRelease = None
      /\ \A x \in FlexFields \ {"isReleased", "untilRelease"} : e[x] = flex[x]
  BY <1>1, <1>3 DEF IsFlexEg, FlexFields
<1>6. /\ e.stage = flex.stage /\ e.level = flex.level /\ e.time = flex.time
      /\ e.source = flex.source /\ e.target = flex.target /\ e.length = flex.length
      /\ e.delay = flex.delay /\ e.freeRunning = flex.freeRunning /\ e.late = flex.late
  BY <1>5 DEF FlexFields
<1>7. e.isReleased \in BOOLEAN
  BY <1>5
<1>8. IsFlexEg(e)
  BY <1>1, <1>5, <1>6, <1>7 DEF IsFlexEg
<1>9. e.delay = Greatest(flex.delay - 0, 0) /\ 0 \in 0 .. left
  BY <1>1, <1>2, <1>6 DEF Greatest
<1>10. BlocksOK' /\ IsFlex' /\ IsFlexEg(flex)' /\ FlexCounts' /\ flex' = e
  BY <1>2, <1>4, <1>5, <1>6, <1>8, <1>9, FlexRendersCounts DEF FlexFinished
<1>11. UNCHANGED <<patch, voice, asked>>
  BY <1>4 DEF FlexRenders, Renders
<1>12. FlexLevel'
  BY <1>6, <1>10, <1>11 DEF PointsInv, FlexInv, FlexLevel, FlexFinished, LevelAt
<1>13. Holds'
  BY <1>2, <1>11, FlexUnheld DEF Holds, None
<1> QED BY <1>10, <1>12, <1>13 DEF PointsInv, FlexInv

(* The envelope moves on to the next stage, from the level it has.         *)
LEMMA NextStageKeeps ==
  ASSUME PointsInv, Turning, NEW f, IsFlexEg(f), NEW s \in patch.shapes,
         \A x \in FlexFields \ {"level"} : f[x] = flex[x],
         FlexRenders(AdvanceToStage(f, flex.stage + 1, s), 0),
         flex.isReleased \/ ~Sustained(flex) \/ flex.freeRunning
  PROVE  PointsInv'
<1>1. IsFlexEg(flex) /\ left \in Nat /\ patch \in FlexPatches
  BY PatchIsFlex DEF PointsInv, FlexInv, BlocksOK
<1>2. left > 0 /\ flex.delay = 0 /\ flex.stage < patch.stages
  BY <1>1, FlexShapes, SMTT(40) DEF Turning, FlexFinished, IsFlexEg
<1>3. PICK e : e = AdvanceToStage(f, flex.stage + 1, s)
  OBVIOUS
<1>4. flex.stage + 1 \in Nat /\ patch.stages \in Nat /\ patch.sustain \in Nat
  <2>1. flex.stage \in Nat
    BY <1>1 DEF IsFlexEg
  <2>2. patch.stages \in Nat /\ patch.sustain \in Nat
    BY <1>1, FlexShapes
  <2> QED BY <2>1, <2>2
<1>5. /\ IsFlexEg(e) /\ e.stage = flex.stage + 1
      /\ \A x \in {"level", "delay", "untilRelease", "isReleased", "freeRunning", "late"} :
           e[x] = f[x]
      /\ flex.stage + 1 < patch.stages => e.source = e.level /\ e.time = 0
  BY <1>1, <1>3, <1>4, StageEntered, SMTT(40)
<1>6. /\ e.delay = flex.delay /\ e.untilRelease = flex.untilRelease /\ e.late = flex.late
      /\ e.isReleased = flex.isReleased /\ e.freeRunning = flex.freeRunning
  BY <1>5 DEF FlexFields
<1>7. FlexRenders(e, 0)
  BY <1>3
<1>8. e.delay = Greatest(flex.delay - 0, 0) /\ 0 \in 0 .. left /\ ~FlexFinished(flex)
  BY <1>1, <1>2, <1>6 DEF Greatest, Turning
<1>9. e.untilRelease # None => e.untilRelease = flex.untilRelease - 0 /\ flex.untilRelease # None
  BY <1>1, <1>6 DEF IsFlexEg, None
<1>10. BlocksOK' /\ IsFlex' /\ IsFlexEg(flex)' /\ FlexCounts' /\ flex' = e
  BY <1>2, <1>5, <1>6, <1>7, <1>8, <1>9, FlexRendersCounts
<1>11. UNCHANGED <<patch, voice, asked>>
  BY <1>7 DEF FlexRenders, Renders
<1>12. FlexLevel'
  <2>1. SUFFICES ASSUME flex.stage + 1 < patch.stages, e.length > 0 PROVE e.level = LevelAt(e, e.time)
    BY <1>4, <1>5, <1>10, <1>11 DEF FlexLevel, FlexFinished, LevelAt
  <2> QED BY <1>5, <2>1, LevelAtStart
<1>13. Holds'
  <2>1. SUFFICES ASSUME voice = "playing", ~asked
                 PROVE  /\ e.untilRelease = None /\ ~e.isReleased
                        /\ e.freeRunning \/ e.stage <= patch.sustain
    BY <1>10, <1>11 DEF Holds
  <2>2. /\ flex.untilRelease = None /\ ~flex.isReleased
        /\ flex.freeRunning \/ flex.stage <= patch.sustain
    BY <2>1 DEF PointsInv, Holds
  <2>3. flex.freeRunning \/ flex.stage # patch.sustain
    BY <2>2 DEF Sustained
  <2>4. flex.stage \in Nat
    BY <1>1 DEF IsFlexEg
  <2>5. e.freeRunning \/ e.stage <= patch.sustain
    BY <1>4, <1>5, <1>6, <2>2, <2>3, <2>4
  <2> QED BY <1>6, <2>2, <2>5
<1> QED BY <1>10, <1>12, <1>13 DEF PointsInv, FlexInv

LEMMA FlexFastForwardKeeps == ASSUME PointsInv, FlexFastForward PROVE PointsInv'
<1>1. PICK s \in patch.shapes : FlexRenders(AdvanceToStage(flex, flex.stage + 1, s), 0)
  BY DEF FlexFastForward
<1>2. IsFlexEg(flex) /\ Turning /\ flex.isReleased
  BY DEF PointsInv, FlexInv, FlexFastForward, FastForward
<1> QED BY <1>1, <1>2, NextStageKeeps

LEMMA FlexCompleteKeeps == ASSUME PointsInv, FlexComplete PROVE PointsInv'
<1>1. PICK f : f = IF flex.length = 0 THEN [flex EXCEPT !.level = flex.target] ELSE flex
  OBVIOUS
<1>2. PICK s \in patch.shapes : FlexRenders(AdvanceToStage(f, flex.stage + 1, s), 0)
  BY <1>1 DEF FlexComplete
<1>3. IsFlexEg(flex) /\ Turning /\ (~Sustained(flex) \/ flex.freeRunning)
  BY DEF PointsInv, FlexInv, FlexComplete, Complete
<1>4. /\ DOMAIN f = FlexFields /\ f.level \in Int
      /\ \A x \in FlexFields \ {"level"} : f[x] = flex[x]
  BY <1>1, <1>3 DEF IsFlexEg, FlexFields
<1>5. IsFlexEg(f)
  BY <1>3, <1>4 DEF IsFlexEg, FlexFields
<1> QED BY <1>2, <1>3, <1>4, <1>5, NextStageKeeps

(* A run has a frame at least, and none past the release.                  *)
LEMMA RunCounts ==
  ASSUME PointsInv, FlexRun
  PROVE  \E count \in 0 .. left :
           /\ count > 0
           /\ flex.untilRelease # None => count <= flex.untilRelease
           /\ FlexRenders([flex EXCEPT !.time = Least(flex.time + count, Longest),
                                       !.level = LevelAt(flex, flex.time + count),
                                       !.untilRelease = IF @ = None THEN @ ELSE @ - count], count)
<1>1. /\ left \in Nat /\ left > 0 /\ flex.time \in Nat /\ flex.length \in Int
      /\ flex.untilRelease \in Nat \cup {None} /\ flex.untilRelease # 0
  BY DEF PointsInv, FlexInv, BlocksOK, IsFlexEg, FlexRun, Turning, FlexIsDue
<1>2. PICK most : most = IF flex.untilRelease = None THEN left ELSE Least(left, flex.untilRelease)
  OBVIOUS
<1>3. most \in 1 .. left /\ (flex.untilRelease # None => most <= flex.untilRelease)
  BY <1>1, <1>2 DEF Least, None
<1>4. PICK count : count = IF Sustained(flex) THEN most ELSE Least(most, flex.length - flex.time)
  OBVIOUS
<1>5. ~Sustained(flex) => flex.time < flex.length
  BY <1>1 DEF FlexRun, Complete
<1>6. count \in 1 .. most
  BY <1>1, <1>3, <1>4, <1>5 DEF Least
<1>7. FlexRenders([flex EXCEPT !.time = Least(flex.time + count, Longest),
                               !.level = LevelAt(flex, flex.time + count),
                               !.untilRelease = IF @ = None THEN @ ELSE @ - count], count)
  BY <1>2, <1>4 DEF FlexRun
<1>8. /\ count \in 0 .. left /\ count > 0
      /\ flex.untilRelease # None => count <= flex.untilRelease
  BY <1>1, <1>3, <1>6 DEF None
<1> QED BY <1>7, <1>8, Zenon

(* The level at any time is a whole number.                                *)
LEMMA LevelIsInt ==
  ASSUME NEW e, IsFlexEg(e), NEW time \in Nat
  PROVE  LevelAt(e, time) \in Int
<1>1. (e.target - e.source) * time \in Int
  BY DEF IsFlexEg
<1> QED BY <1>1 DEF LevelAt, IsFlexEg

LEMMA FlexRunKeeps == ASSUME PointsInv, FlexRun PROVE PointsInv'
<1>1. /\ IsFlexEg(flex) /\ left \in Nat /\ left > 0 /\ flex.delay = 0 /\ ~FlexFinished(flex)
      /\ flex.untilRelease \in Nat \cup {None} /\ flex.time \in Nat /\ Longest \in Nat
      /\ flex.length \in Int /\ flex.length <= Longest
  BY FlexAssumption DEF PointsInv, FlexInv, BlocksOK, FlexRun, Turning, IsFlexEg, FlexAssumption
<1>2. PICK count \in 0 .. left :
        /\ count > 0
        /\ flex.untilRelease # None => count <= flex.untilRelease
        /\ FlexRenders([flex EXCEPT !.time = Least(flex.time + count, Longest),
                                    !.level = LevelAt(flex, flex.time + count),
                                    !.untilRelease = IF @ = None THEN @ ELSE @ - count], count)
  BY RunCounts
<1>3. PICK e : e = [flex EXCEPT !.time = Least(flex.time + count, Longest),
                                !.level = LevelAt(flex, flex.time + count),
                                !.untilRelease = IF @ = None THEN @ ELSE @ - count]
  OBVIOUS
<1>4. FlexRenders(e, count)
  BY <1>2, <1>3
<1>5. /\ DOMAIN e = FlexFields
      /\ e.time = Least(flex.time + count, Longest) /\ e.level = LevelAt(flex, flex.time + count)
      /\ e.untilRelease = IF flex.untilRelease = None THEN None ELSE flex.untilRelease - count
      /\ \A x \in FlexFields \ {"time", "level", "untilRelease"} : e[x] = flex[x]
  BY <1>1, <1>3 DEF IsFlexEg, FlexFields
<1>6. /\ e.stage = flex.stage /\ e.source = flex.source /\ e.target = flex.target
      /\ e.length = flex.length /\ e.delay = flex.delay /\ e.late = flex.late
      /\ e.isReleased = flex.isReleased /\ e.freeRunning = flex.freeRunning
  BY <1>5 DEF FlexFields
<1>7. /\ e.time \in Nat /\ e.level \in Int /\ e.untilRelease \in Nat \cup {None}
  <2>1. flex.time + count \in Nat
    BY <1>1
  <2>2. e.level \in Int
    BY <1>1, <1>5, <2>1, LevelIsInt
  <2>3. e.time \in Nat
    BY <1>1, <1>5, <2>1 DEF Least
  <2>4. flex.untilRelease # None => flex.untilRelease - count \in Nat
    BY <1>1, <1>2
  <2> QED BY <1>5, <2>2, <2>3, <2>4
<1>8. IsFlexEg(e)
  BY <1>1, <1>5, <1>6, <1>7 DEF IsFlexEg
<1>9. e.delay = Greatest(flex.delay - count, 0)
  BY <1>1, <1>6 DEF Greatest
<1>10. BlocksOK' /\ IsFlex' /\ IsFlexEg(flex)' /\ FlexCounts' /\ flex' = e
  <2>1. ~(flex.delay > 0)
    BY <1>1
  <2>2. e.untilRelease # None =>
          flex.untilRelease # None /\ e.untilRelease = flex.untilRelease - count
    BY <1>5
  <2> QED BY <1>1, <1>4, <1>6, <1>8, <1>9, <2>1, <2>2, FlexRendersCounts
<1>11. UNCHANGED <<patch, voice, asked>>
  BY <1>4 DEF FlexRenders, Renders
<1>12. e.length > 0 => e.level = LevelAt(e, e.time)
  BY <1>1, <1>5, <1>6 DEF LevelAt, Least
<1>13. FlexLevel'
  BY <1>10, <1>11, <1>12 DEF FlexLevel, FlexFinished, LevelAt
<1>14. Holds'
  BY <1>5, <1>6, <1>10, <1>11 DEF PointsInv, Holds
<1> QED BY <1>10, <1>13, <1>14 DEF PointsInv, FlexInv

LEMMA FlexSilenceKeeps == ASSUME PointsInv, FlexSilence PROVE PointsInv'
<1>1. /\ IsFlexEg(flex) /\ left \in Nat /\ left > 0 /\ flex.delay = 0 /\ FlexFinished(flex)
      /\ FlexRenders(flex, left)
  BY DEF PointsInv, FlexInv, BlocksOK, FlexSilence
<1>2. flex.delay = Greatest(flex.delay - left, 0) /\ left \in 0 .. left
  BY <1>1 DEF Greatest
<1>3. BlocksOK' /\ IsFlex' /\ IsFlexEg(flex)' /\ FlexCounts' /\ flex' = flex
  BY <1>1, <1>2, FlexRendersCounts
<1>4. UNCHANGED <<patch, voice, asked>>
  BY <1>1 DEF FlexRenders, Renders
<1>5. FlexLevel'
  BY <1>3, <1>4 DEF PointsInv, FlexInv, FlexLevel, FlexFinished, LevelAt
<1>6. Holds'
  BY <1>3, <1>4 DEF PointsInv, Holds
<1> QED BY <1>3, <1>5, <1>6 DEF PointsInv, FlexInv

(* No step of the envelope with points breaks its invariant.               *)
LEMMA FlexNextKeeps == ASSUME PointsInv, FlexNext PROVE PointsInv'
<1>1. IsFlexEg(flex)
  BY DEF PointsInv, FlexInv
<1> QED BY <1>1, FlexNoteOnKeeps, FlexReleaseKeeps, FlexCancelReleaseKeeps, FlexBlockKeeps,
           FlexNextChunkKeeps, FlexSkipKeeps, FlexDueKeeps, FlexFastForwardKeeps,
           FlexCompleteKeeps, FlexRunKeeps, FlexSilenceKeeps, FlexEndBlockKeeps
        DEF FlexNext, FlexRender

-----------------------------------------------------------------------------
(* Every behaviour, of a voice with an envelope of either kind.            *)

(* A turn of the ADSR envelope's loop is for the same note.                *)
LEMMA SegmentAdvances ==
  ASSUME Segment
  PROVE  \E e, count : Advance(e, count)
BY DEF Segment, InDelay, InAttack, InHold, InDecay, InSustain, InRelease, InFadeout, InDone

(* No message and no block changes the kind of envelope.                   *)
LEMMA KindStays == ASSUME [Next]_envelopes PROVE IsFlex' <=> IsFlex
<1>1. CASE UNCHANGED envelopes
  BY <1>1 DEF envelopes, blocks, IsFlex
<1>2. ASSUME NEW d \in Offsets, NEW p \in Patches, NEW s \in p.shapes, NoteOn(p, s, d)
      PROVE  ~IsFlex'
  BY <1>2, KindsAssumption DEF KindsAssumption, IsFlex, NoteOn, Begins
<1>3. ASSUME NEW d \in Offsets, NEW p \in FlexPatches, FlexNoteOn(p, d)
      PROVE  IsFlex'
  BY <1>3, KindsAssumption DEF KindsAssumption, IsFlex, FlexNoteOn, Begins
<1>4. CASE EgNext /\ ~\E d \in Offsets, p \in Patches : \E s \in p.shapes : NoteOn(p, s, d)
  <2>1. CASE Segment
    BY <2>1, SegmentAdvances, SMTT(40) DEF Advance, Renders, IsFlex
  <2>2. CASE EgNext /\ ~Segment /\ ~\E d \in Offsets, p \in Patches : \E s \in p.shapes : NoteOn(p, s, d)
    BY <2>2 DEF EgNext, EgRender, Release, Releases, CancelRelease, Resumes, Block, BeginsBlock,
                NextChunk, BeginsChunk, EndBlock, EndsBlock, IsFlex
  <2> QED BY <1>4, <2>1, <2>2
<1>5. CASE FlexNext /\ ~\E d \in Offsets, p \in FlexPatches : FlexNoteOn(p, d)
  BY <1>5 DEF FlexNext, FlexRender, FlexRelease, Releases, FlexCancelRelease, Resumes, FlexBlock,
              BeginsBlock, FlexNextChunk, BeginsChunk, FlexSkip, FlexDue, FlexFastForward,
              FlexComplete, FlexRun, FlexSilence, FlexRenders, Renders, FlexEndBlock, EndsBlock,
              IsFlex
<1> QED BY <1>1, <1>2, <1>3, <1>4, <1>5 DEF Next

(* The invariant holds when the voice is created.                          *)
LEMMA InitOK == ASSUME Init PROVE IInv
<1>1. BlocksOK
  <2>1. rendering \in BOOLEAN /\ asked \in BOOLEAN
    BY DEF Init, BlocksInit
  <2> QED BY <2>1, BlocksAssumption DEF Init, BlocksInit, BlocksOK, BlocksAssumption
<1>2. OthersStay
  BY DEF Init, EgInit, FlexInit, OthersStay
<1>3. Holds
  BY DEF Init, BlocksInit, Holds
<1>4. IsEg(eg)
  <2>1. eg.shouldRelease \in BOOLEAN /\ eg.freeRunning \in BOOLEAN /\ eg.dynamic \in BOOLEAN
    BY DEF Init, EgInit
  <2>2. 0 \in Level
    BY EnvelopeAssumption DEF EnvelopeAssumption, Level
  <2> QED BY <2>1, <2>2 DEF Init, EgInit, IsEg, Fields, Stage
<1>5. DelayCounts /\ ReleaseCounts
  BY DEF Init, BlocksInit, EgInit, DelayCounts, ReleaseCounts, Greatest
<1>6. IsFlexEg(flex)
  <2>1. flex.isReleased \in BOOLEAN /\ flex.freeRunning \in BOOLEAN
    BY DEF Init, FlexInit
  <2> QED BY <2>1, FlexAssumption DEF Init, FlexInit, IsFlexEg, FlexFields, None, FlexAssumption
<1>7. FlexCounts /\ FlexLevel
  BY DEF Init, BlocksInit, FlexInit, FlexCounts, FlexLevel
<1> QED BY <1>1, <1>2, <1>3, <1>4, <1>5, <1>6, <1>7 DEF IInv, AdsrInv, PointsInv, EgInv, FlexInv

LEMMA PointsStep == ASSUME IsFlex => PointsInv, [Next]_envelopes PROVE (IsFlex => PointsInv)'
<1>1. SUFFICES ASSUME IsFlex' PROVE PointsInv'
  OBVIOUS
<1>2. IsFlex /\ PointsInv
  BY <1>1, KindStays
<1>3. CASE UNCHANGED envelopes
  BY <1>2, <1>3 DEF envelopes, blocks, PointsInv, BlocksOK, FlexInv, FlexCounts, FlexLevel, Holds,
                    IsFlex, FlexFinished, LevelAt
<1>4. CASE Next
  BY <1>2, <1>4, FlexNextKeeps DEF Next
<1> QED BY <1>3, <1>4

LEMMA AdsrStep ==
  ASSUME SteadyDelay, ~CancelInDelay, ~IsFlex => AdsrInv, [Next]_envelopes
  PROVE  (~IsFlex => AdsrInv)'
<1>1. SUFFICES ASSUME ~IsFlex' PROVE AdsrInv'
  OBVIOUS
<1>2. ~IsFlex /\ AdsrInv
  BY <1>1, KindStays
<1>3. CASE UNCHANGED envelopes
  BY <1>2, <1>3 DEF envelopes, blocks, AdsrInv, BlocksOK, EgInv, DelayCounts, ReleaseCounts, Holds,
                    IsFlex
<1>4. CASE Next
  BY <1>2, <1>4, EgNextKeeps DEF Next
<1> QED BY <1>3, <1>4

LEMMA OthersStep == ASSUME OthersStay, [Next]_envelopes PROVE OthersStay'
<1>1. IsFlex => eg' = eg
  BY DEF Next, envelopes
<1>2. ~IsFlex => flex' = flex
  BY DEF Next, envelopes
<1> QED BY <1>1, <1>2, KindStays DEF OthersStay

(* An envelope with points keeps its counts and its level.                 *)
THEOREM PointsInvariant == Spec => [](IsFlex => PointsInv)
<1>1. Init => (IsFlex => PointsInv)
  BY InitOK DEF IInv, AdsrInv
<1>2. (IsFlex => PointsInv) /\ [Next]_envelopes => (IsFlex => PointsInv)'
  BY PointsStep
<1> QED BY <1>1, <1>2, PTL DEF Spec

(* Each kind of envelope keeps its counts, where the delay of a dynamic    *)
(* ADSR envelope stays, and no release is cancelled in the delay.          *)
THEOREM EnvelopesInvariant == ASSUME SteadyDelay, ~CancelInDelay PROVE Spec => []IInv
<1>1. Init => IInv
  BY InitOK
<1>2. ASSUME IInv, [Next]_envelopes PROVE IInv'
  <2>1. (~IsFlex => AdsrInv) /\ (IsFlex => PointsInv) /\ OthersStay
    BY <1>2 DEF IInv, AdsrInv, PointsInv
  <2> QED BY <1>2, <2>1, PointsStep, AdsrStep, OthersStep DEF IInv
<1> QED BY <1>1, <1>2, PTL DEF Spec

(* A release of either kind of envelope is never later than the frame it   *)
(* is due in, by more than a frame or by the offset that was left.         *)
THEOREM ReleasesOnTime == ASSUME SteadyDelay, ~CancelInDelay PROVE Spec => []OnTime
<1>1. ASSUME IInv PROVE ReleaseOnTime
  <2>1. CASE AdsrInv
    BY <2>1 DEF AdsrInv, BlocksOK, EgInv, ReleaseCounts, IsEg, ReleaseOnTime
  <2>2. CASE PointsInv
    BY <1>1, <2>2 DEF IInv, OthersStay, PointsInv, ReleaseOnTime
  <2> QED BY <1>1, <2>1, <2>2 DEF IInv
<1>2. ASSUME IInv PROVE FlexReleaseOnTime
  <2>1. CASE AdsrInv
    BY <1>2, <2>1 DEF IInv, OthersStay, AdsrInv, FlexReleaseOnTime
  <2>2. CASE PointsInv
    BY <2>2 DEF PointsInv, BlocksOK, FlexInv, IsFlexEg, FlexCounts, FlexReleaseOnTime, None
  <2> QED BY <1>2, <2>1, <2>2 DEF IInv
<1>3. IInv => OnTime
  BY <1>1, <1>2 DEF OnTime
<1> QED BY <1>3, EnvelopesInvariant, PTL

-----------------------------------------------------------------------------
(* No release takes effect before it is due.                               *)

(* What leaves the held stages is an entered turn with a release in it.    *)
LEMMA LeavesHeld ==
  ASSUME BlocksOK, EgInv, Segment, eg.state \in Held, eg'.state \notin Held
  PROVE  eg.delay <= 0 /\ eg.releaseDelay <= 0
<1>1. PICK f : f = Entered(eg)
  OBVIOUS
<1>2. PICK e, count : left > 0 /\ Advance(e, count) /\ Turned(f, e, count)
  BY <1>1, SegmentTurns
<1>3. eg'.state = e.state
  <2>1. DOMAIN e = Fields
    BY <1>2 DEF Turned, IsEg
  <2> QED BY <1>2, <2>1 DEF Advance, Fields
<1>4. f.state # eg.state
  BY <1>2, <1>3 DEF Turned
<1>5. Due(eg)
  BY <1>1, <1>2, <1>4, Entering
<1>6. eg.releaseDelay \in {0, -1}
  BY <1>1, <1>4 DEF Entered
<1> QED BY <1>5, <1>6 DEF Due

(* So no frame is left to wait for when the held stages are left.          *)
LEMMA AdsrNotEarly ==
  ASSUME AdsrInv, [Next]_envelopes, rendering, eg.state \in Held, eg'.state \notin Held
  PROVE  patch.dynamic \/ wait <= 0
<1>1. SUFFICES ASSUME ~patch.dynamic PROVE wait <= 0
  OBVIOUS
<1>2. BlocksOK /\ EgInv /\ eg.delay \in Int /\ eg.releaseDelay \in Int /\ wait \in Int
  BY DEF AdsrInv, BlocksOK, EgInv, IsEg
<1>3. eg' # eg /\ EgNext
  BY DEF AdsrInv, Next, envelopes
<1>4. Segment
  <2>1. \A d : ~At(d)
    BY DEF At
  <2>2. ~Block
    BY DEF Block, BeginsBlock
  <2>3. ~NextChunk
    <3>1. rest = 0
      BY <1>1, <1>2 DEF EgInv, DelayCounts
    <3> QED BY <3>1 DEF NextChunk, BeginsChunk
  <2>4. ~EndBlock
    BY <1>3, SMTT(40) DEF EndBlock
  <2>5. EgRender
    BY <1>3, <2>1 DEF EgNext, NoteOn, Begins, Release, Releases, CancelRelease, Resumes
  <2> QED BY <2>2, <2>3, <2>4, <2>5 DEF EgRender
<1>5. eg.delay <= 0 /\ eg.releaseDelay <= 0
  BY <1>2, <1>4, LeavesHeld
<1>6. wait <= Greatest(eg.releaseDelay, Greatest(eg.delay, 0))
  BY <1>1, <1>2 DEF EgInv, ReleaseCounts
<1> QED BY <1>2, <1>5, <1>6 DEF Greatest

(* A stage that is entered, or read anew, does not release.                *)
LEMMA FlexNotEarly ==
  ASSUME PointsInv, [Next]_envelopes, flex'.isReleased, ~flex.isReleased
  PROVE  wait <= 0
<1>1. /\ IsFlexEg(flex) /\ patch \in FlexPatches /\ wait \in Int /\ flex' # flex /\ FlexNext
      /\ FlexCounts
  BY PatchIsFlex DEF PointsInv, BlocksOK, FlexInv, Next, envelopes
<1>2. PICK g : g = flex'
  OBVIOUS
<1>3. ASSUME NEW s \in patch.shapes PROVE ~Read(flex, s).isReleased
  BY <1>1, <1>3, ReadFields DEF FlexFields
<1>4. ASSUME NEW p \in FlexPatches, NEW s \in p.shapes, NEW f, NEW stage \in Nat, IsFlexEg(f),
             ~f.isReleased
      PROVE  ~AdvanceToStage(f, stage, s).isReleased
  BY <1>4, StageEntered
<1>5. ASSUME NEW d \in Offsets, NEW p \in FlexPatches, FlexNoteOn(p, d) PROVE FALSE
  <2>1. PICK f : f = [flex EXCEPT !.freeRunning = p.oneShot, !.isReleased = FALSE, !.level = 0,
                        !.time = 0, !.delay = d + p.delay, !.untilRelease = None, !.late = 0]
    OBVIOUS
  <2>2. PICK s \in p.shapes : flex' = AdvanceToStage(f, 0, s)
    BY <1>5, <2>1 DEF FlexNoteOn
  <2>3. IsFlexEg(f) /\ ~f.isReleased
    <3>1. /\ DOMAIN f = FlexFields /\ f.freeRunning = p.oneShot /\ f.isReleased = FALSE
          /\ f.level = 0 /\ f.time = 0 /\ f.delay = d + p.delay /\ f.untilRelease = None
          /\ f.late = 0 /\ \A x \in {"stage", "source", "target", "length"} : f[x] = flex[x]
      BY <1>1, <2>1 DEF IsFlexEg, FlexFields
    <3>2. f.isReleased \in BOOLEAN
      BY <3>1
    <3>3. d \in Nat /\ p.delay \in Nat /\ p.oneShot \in BOOLEAN
      BY FlexShapes DEF Offsets
    <3> QED BY <1>1, <3>1, <3>2, <3>3 DEF IsFlexEg
  <2> QED BY <1>4, <2>2, <2>3
<1>6. ASSUME NEW d \in Offsets, FlexRelease(d) PROVE FALSE
  <2>1. flex'.isReleased = flex.isReleased
    BY <1>1, <1>6 DEF FlexRelease, IsFlexEg, FlexFields
  <2> QED BY <2>1
<1>7. ASSUME NEW d \in Offsets, FlexCancelRelease(d) PROVE FALSE
  <2>1. CASE flex.untilRelease # None
    <3>1. flex'.isReleased = flex.isReleased
      BY <1>1, <1>7, <2>1 DEF FlexCancelRelease, IsFlexEg, FlexFields
    <3> QED BY <3>1
  <2>2. CASE flex.untilRelease = None
    BY <1>7, <2>2 DEF FlexCancelRelease, Resumes
  <2> QED BY <2>1, <2>2
<1>8. ASSUME FlexBlock \/ FlexNextChunk PROVE FALSE
  BY <1>1, <1>3, <1>8 DEF FlexBlock, FlexNextChunk
<1>9. CASE FlexDue
  <2>1. flex.untilRelease = 0 /\ flex.delay = 0
    BY <1>9 DEF FlexDue, Turning, FlexIsDue
  <2> QED BY <1>1, <2>1 DEF FlexCounts, Greatest, None
<1>10. ASSUME FlexFastForward PROVE FALSE
  BY <1>10 DEF FlexFastForward, FastForward
<1>11. ASSUME FlexComplete PROVE FALSE
  <2>1. PICK f : f = IF flex.length = 0 THEN [flex EXCEPT !.level = flex.target] ELSE flex
    OBVIOUS
  <2>2. PICK s \in patch.shapes : flex' = AdvanceToStage(f, flex.stage + 1, s)
    BY <1>11, <2>1 DEF FlexComplete, FlexRenders
  <2>3. /\ DOMAIN f = FlexFields /\ f.level \in Int
        /\ \A x \in FlexFields \ {"level"} : f[x] = flex[x]
    BY <1>1, <2>1 DEF IsFlexEg, FlexFields
  <2>4. IsFlexEg(f) /\ ~f.isReleased
    BY <1>1, <2>3 DEF IsFlexEg, FlexFields
  <2>5. flex.stage + 1 \in Nat
    BY <1>1 DEF IsFlexEg
  <2> QED BY <1>1, <1>4, <2>2, <2>4, <2>5
<1>12. ASSUME FlexSkip \/ FlexRun PROVE FALSE
  <2>1. flex'.isReleased = flex.isReleased
    BY <1>1, <1>12 DEF FlexSkip, FlexRun, FlexRenders, IsFlexEg, FlexFields
  <2> QED BY <2>1
<1>13. ASSUME FlexSilence \/ FlexEndBlock PROVE FALSE
  BY <1>1, <1>13 DEF FlexSilence, FlexRenders, FlexEndBlock
<1> QED BY <1>1, <1>5, <1>6, <1>7, <1>8, <1>9, <1>10, <1>11, <1>12, <1>13 DEF FlexNext, FlexRender

(* A release of either kind of envelope takes effect when it is due: an    *)
(* ADSR envelope that is not dynamic leaves the held stages, and one with  *)
(* points is released, only when no frame is left to wait for.             *)
THEOREM ReleasesNotEarly == ASSUME SteadyDelay, ~CancelInDelay PROVE Spec => NotEarly
<1>1. ASSUME IInv, [Next]_envelopes
      PROVE  [rendering /\ eg.state \in Held /\ eg'.state \notin Held
                => patch.dynamic \/ wait <= 0]_vars
  <2>1. SUFFICES ASSUME rendering, eg.state \in Held, eg'.state \notin Held
                 PROVE  patch.dynamic \/ wait <= 0
    OBVIOUS
  <2>2. ~IsFlex
    BY <1>1, <2>1 DEF Next, envelopes
  <2> QED BY <1>1, <2>1, <2>2, AdsrNotEarly DEF IInv, PointsInv
<1>2. ASSUME IInv, [Next]_envelopes
      PROVE  [flex.isReleased' /\ ~flex.isReleased => wait <= 0]_flexVars
  <2>1. SUFFICES ASSUME flex.isReleased', ~flex.isReleased PROVE wait <= 0
    OBVIOUS
  <2>2. IsFlex
    BY <1>2, <2>1 DEF Next, envelopes
  <2> QED BY <1>2, <2>1, <2>2, FlexNotEarly DEF IInv, AdsrInv
<1> QED BY <1>1, <1>2, EnvelopesInvariant, PTL
        DEF Spec, NotEarly, ReleaseNotEarly, FlexReleaseNotEarly

-----------------------------------------------------------------------------
(* The level of an envelope with points never jumps.                       *)

(* What a whole quotient leaves out is less than the divisor.              *)
LEMMA Quotient ==
  ASSUME NEW a \in Int, NEW n \in Nat, n > 0
  PROVE  a \div n \in Int /\ n * (a \div n) <= a /\ a < n * (a \div n) + n
OBVIOUS

(* Two quotients are no further apart than what they are of, but for one.  *)
LEMMA Spread ==
  ASSUME NEW a \in Int, NEW b \in Int, NEW n \in Nat, n > 0
  PROVE  ((b \div n) - (a \div n)) * n <= b - a + n - 1
<1>1. PICK p \in Int : p = a \div n /\ n * p <= a /\ a < n * p + n
  BY Quotient
<1>2. PICK q \in Int : q = b \div n /\ n * q <= b /\ b < n * q + n
  BY Quotient
<1>3. PICK x \in Int : x = n * p
  OBVIOUS
<1>4. PICK y \in Int : y = n * q
  OBVIOUS
<1>5. (q - p) * n = y - x
  BY <1>3, <1>4
<1> QED BY <1>1, <1>2, <1>3, <1>4, <1>5

(* So two points of a rounded line are as far apart as its slope says.     *)
LEMMA SlopeRounded ==
  ASSUME NEW h \in Int, NEW t \in Int, NEW c \in Nat, NEW n \in Nat, n > 0
  PROVE  Greatest(((h * (t + c)) \div n) - ((h * t) \div n),
                  ((h * t) \div n) - ((h * (t + c)) \div n)) * n <= c * Greatest(h, -h) + n - 1
<1>1. PICK a \in Int : a = h * t
  OBVIOUS
<1>2. PICK d \in Int : d = h * c
  OBVIOUS
<1>3. h * (t + c) = a + d
  BY <1>1, <1>2
<1>4. c * Greatest(h, -h) = Greatest(d, -d)
  <2>1. CASE h >= 0
    <3>1. d >= 0 /\ c * h = d
      BY <1>2, <2>1
    <3> QED BY <2>1, <3>1 DEF Greatest
  <2>2. CASE h < 0
    <3>1. d <= 0 /\ c * (-h) = -d
      BY <1>2, <2>2
    <3> QED BY <2>2, <3>1 DEF Greatest
  <2> QED BY <2>1, <2>2
<1>5. PICK p \in Int : p = a \div n
  BY Quotient
<1>6. PICK q \in Int : q = (a + d) \div n
  BY Quotient
<1>7. (q - p) * n <= d + n - 1 /\ (p - q) * n <= -d + n - 1
  <2>1. (((a + d) \div n) - (a \div n)) * n <= (a + d) - a + n - 1
    BY Spread
  <2>2. ((a \div n) - ((a + d) \div n)) * n <= a - (a + d) + n - 1
    BY Spread
  <2> QED BY <1>5, <1>6, <2>1, <2>2
<1>8. Greatest(q - p, p - q) \in {q - p, p - q} /\ d <= Greatest(d, -d) /\ -d <= Greatest(d, -d)
  BY DEF Greatest
<1>9. Greatest(q - p, p - q) * n <= Greatest(d, -d) + n - 1
  <2>1. PICK u \in Int : u = Greatest(d, -d)
    BY DEF Greatest
  <2>2. PICK v \in {q - p, p - q} : v = Greatest(q - p, p - q)
    BY <1>8
  <2>3. v * n <= u + n - 1
    BY <1>7, <1>8, <2>1, <2>2
  <2> QED BY <2>1, <2>2, <2>3
<1> QED BY <1>1, <1>3, <1>4, <1>5, <1>6, <1>9

(* The levels of a stage, some frames apart.                               *)
LEMMA LevelsApart ==
  ASSUME NEW e, IsFlexEg(e), e.length > 0, NEW c \in Nat,
         NEW x, x = LevelAt(e, e.time), NEW y, y = LevelAt(e, e.time + c)
  PROVE  Greatest(y - x, x - y) * e.length
           <= c * Greatest(e.target - e.source, e.source - e.target) + e.length - 1
<1>1. /\ e.time \in Nat /\ e.length \in Nat /\ e.length > 0 /\ e.source \in Int /\ e.target \in Int
  BY DEF IsFlexEg
<1>2. PICK n \in Nat : n = e.length /\ n > 0
  BY <1>1
<1>3. PICK t \in Nat : t = e.time
  BY <1>1
<1>4. PICK h \in Int : h = e.target - e.source
  BY <1>1
<1>5. Greatest(e.target - e.source, e.source - e.target) = Greatest(h, -h)
  BY <1>1, <1>4 DEF Greatest
<1>6. PICK height \in Nat : height = Greatest(h, -h)
  BY DEF Greatest
<1>7. CASE t >= n
  <2>1. x = e.target /\ y = e.target
    BY <1>1, <1>2, <1>3, <1>7 DEF LevelAt
  <2>2. Greatest(y - x, x - y) = 0
    BY <1>1, <2>1 DEF Greatest
  <2>3. c * height >= 0 /\ 0 * n = 0
    OBVIOUS
  <2> QED BY <1>2, <1>5, <1>6, <2>2, <2>3
<1>8. CASE t < n
  <2>0. IF t + c < n THEN c \in Nat ELSE n - t \in Nat
    BY <1>8
  <2>1. PICK b \in Nat : b = IF t + c < n THEN c ELSE n - t
    BY <2>0
  <2>2. PICK p \in Int : p = (h * t) \div n
    BY <1>2, Quotient
  <2>3. PICK q \in Int : q = (h * (t + b)) \div n
    BY <1>2, Quotient
  <2>4. x = e.source + p
    BY <1>1, <1>2, <1>3, <1>4, <1>8, <2>2 DEF LevelAt
  <2>5. y = e.source + q
    <3>1. CASE t + c < n
      BY <1>1, <1>2, <1>3, <1>4, <2>1, <2>3, <3>1 DEF LevelAt
    <3>2. CASE ~(t + c < n)
      <4>1. PICK w \in Int : w = h * (t + b) /\ w = n * h
        BY <2>1, <3>2
      <4>2. n * q <= w /\ w < n * q + n
        BY <1>2, <2>3, <4>1, Quotient
      <4>3. q = h
        BY <1>2, <4>1, <4>2
      <4> QED BY <1>1, <1>2, <1>3, <1>4, <3>2, <4>3 DEF LevelAt
    <3> QED BY <3>1, <3>2
  <2>6. Greatest(y - x, x - y) = Greatest(q - p, p - q)
    BY <1>1, <2>4, <2>5 DEF Greatest
  <2>7. Greatest(q - p, p - q) * n <= b * height + n - 1
    <3>1. Greatest(((h * (t + b)) \div n) - ((h * t) \div n),
                   ((h * t) \div n) - ((h * (t + b)) \div n)) * n <= b * Greatest(h, -h) + n - 1
      <4>1. t \in Int
        OBVIOUS
      <4> QED BY <1>2, <4>1, SlopeRounded, Zenon
    <3> QED BY <1>6, <2>2, <2>3, <3>1
  <2>8. b * height <= c * height
    BY <2>1
  <2>9. b * height \in Int /\ c * height \in Int /\ Greatest(q - p, p - q) * n \in Int
    BY DEF Greatest
  <2> QED BY <1>2, <1>5, <1>6, <2>6, <2>7, <2>8, <2>9
<1> QED BY <1>3, <1>7, <1>8

(* In a stage, only its run moves the level, by the slope of the stage.    *)
LEMMA LevelFollows ==
  ASSUME PointsInv, [Next]_envelopes, left > 0, flex'.stage = flex.stage, flex.length > 0,
         ~patch.dynamic, flex' # flex
  PROVE  LET height == Greatest(flex.target - flex.source, flex.source - flex.target)
             change == Greatest(flex'.level - flex.level, flex.level - flex'.level)
         IN change * flex.length <= (left - left') * height + flex.length - 1
<1>1. /\ IsFlexEg(flex) /\ FlexLevel /\ rendering /\ left \in Nat /\ FlexNext
      /\ patch \in FlexPatches
  BY PatchIsFlex DEF PointsInv, FlexInv, BlocksOK, Next, envelopes
<1>2. FlexSkip \/ FlexDue \/ FlexRun
  <2>1. \A d : ~At(d)
    BY <1>1 DEF At
  <2>2. FlexRender
    BY <1>1, <2>1 DEF FlexNext, FlexNoteOn, Begins, FlexRelease, Releases, FlexCancelRelease, Resumes
  <2>3. ~FlexBlock /\ ~FlexNextChunk /\ ~FlexSilence /\ ~FlexEndBlock
    <3>1. left # 0
      BY <1>1
    <3>2. ~FlexBlock /\ ~FlexNextChunk
      BY <1>1, <3>1, Zenon DEF FlexBlock, BeginsBlock, FlexNextChunk, BeginsChunk
    <3>3. ~FlexSilence /\ ~FlexEndBlock
      BY Zenon DEF FlexSilence, FlexRenders, FlexEndBlock
    <3> QED BY <3>2, <3>3
  <2>4. ASSUME NEW f, IsFlexEg(f), NEW s \in patch.shapes,
               flex' = AdvanceToStage(f, flex.stage + 1, s)
        PROVE  FALSE
    <3>1. flex.stage \in Nat /\ flex.stage + 1 \in Nat
      BY <1>1 DEF IsFlexEg
    <3>2. flex'.stage = flex.stage + 1
      BY <1>1, <2>4, <3>1, StageEntered
    <3> QED BY <3>1, <3>2
  <2>5. ~FlexFastForward
    BY <1>1, <2>4 DEF FlexFastForward, FlexRenders
  <2>6. ~FlexComplete
    <3>1. SUFFICES ASSUME FlexComplete PROVE FALSE
      OBVIOUS
    <3>2. PICK f : f = IF flex.length = 0 THEN [flex EXCEPT !.level = flex.target] ELSE flex
      OBVIOUS
    <3>3. PICK s \in patch.shapes : flex' = AdvanceToStage(f, flex.stage + 1, s)
      BY <3>1, <3>2 DEF FlexComplete, FlexRenders
    <3>4. /\ DOMAIN f = FlexFields /\ f.level \in Int
          /\ \A x \in FlexFields \ {"level"} : f[x] = flex[x]
      BY <1>1, <3>2 DEF IsFlexEg, FlexFields
    <3>5. IsFlexEg(f)
      BY <1>1, <3>4 DEF IsFlexEg, FlexFields
    <3> QED BY <2>4, <3>3, <3>5
  <2> QED BY <2>2, <2>3, <2>5, <2>6 DEF FlexRender
<1>3. PICK n \in Nat : n = flex.length /\ n > 0
  BY <1>1 DEF IsFlexEg
<1>4. PICK height \in Nat : height = Greatest(flex.target - flex.source, flex.source - flex.target)
  BY <1>1 DEF IsFlexEg, Greatest
<1>5. PICK x \in Int : x = flex.level
  BY <1>1 DEF IsFlexEg
<1>6. PICK y : y = flex'.level
  OBVIOUS
<1>7. SUFFICES Greatest(y - x, x - y) * n <= (left - left') * height + n - 1
  BY <1>3, <1>4, <1>5, <1>6
<1>8. ASSUME NEW count \in 0 .. left, left' = left - count, y = x
      PROVE  Greatest(y - x, x - y) * n <= (left - left') * height + n - 1
  <2>1. Greatest(y - x, x - y) = 0 /\ 0 * n = 0
    BY <1>8 DEF Greatest
  <2>2. left - left' = count /\ count * height >= 0 /\ count * height \in Int
    BY <1>1, <1>8
  <2> QED BY <1>3, <2>1, <2>2
<1>9. CASE FlexSkip
  <2>1. PICK count : count = Least(left, flex.delay)
    OBVIOUS
  <2>2. count \in 0 .. left
    BY <1>1, <2>1 DEF Least, IsFlexEg
  <2>3. left' = left - count
    BY <1>9, <2>1 DEF FlexSkip, FlexRenders, Renders
  <2>4. flex'.level = flex.level
    BY <1>1, <1>9 DEF FlexSkip, FlexRenders, IsFlexEg, FlexFields
  <2> QED BY <1>5, <1>6, <1>8, <2>2, <2>3, <2>4
<1>10. CASE FlexDue
  <2>1. 0 \in 0 .. left /\ left' = left - 0
    BY <1>1, <1>10 DEF FlexDue, FlexRenders, Renders
  <2>2. flex'.level = flex.level
    BY <1>1, <1>10 DEF FlexDue, FlexRenders, IsFlexEg, FlexFields
  <2> QED BY <1>5, <1>6, <1>8, <2>1, <2>2
<1>11. CASE FlexRun
  <2>1. PICK count \in 0 .. left :
          FlexRenders([flex EXCEPT !.time = Least(flex.time + count, Longest),
                                   !.level = LevelAt(flex, flex.time + count),
                                   !.untilRelease = IF @ = None THEN @ ELSE @ - count], count)
    BY <1>11, RunCounts
  <2>2. y = LevelAt(flex, flex.time + count)
    BY <1>1, <1>6, <2>1 DEF FlexRenders, IsFlexEg, FlexFields
  <2>3. x = LevelAt(flex, flex.time)
    BY <1>1, <1>3, <1>5, <1>11 DEF FlexLevel, FlexRun, Turning
  <2>4. left - left' = count /\ count \in Nat
    BY <1>1, <2>1 DEF FlexRenders, Renders
  <2>5. Greatest(y - x, x - y) * n <= count * height + n - 1
    BY <1>1, <1>3, <1>4, <2>2, <2>3, <2>4, LevelsApart
  <2> QED BY <2>4, <2>5
<1> QED BY <1>2, <1>9, <1>10, <1>11

(* A release, a resumption and the end of a block in the middle of a stage *)
(* find the level where the frames rendered have brought it, by the slope  *)
(* of the stage: nothing in between makes it jump.                         *)
THEOREM LevelsContinuous == Spec => FlexContinuous
<1>1. ASSUME IsFlex => PointsInv, [Next]_envelopes
      PROVE  [LET height == Greatest(flex.target - flex.source, flex.source - flex.target)
                  change == Greatest(flex'.level - flex.level, flex.level - flex'.level)
              IN left > 0 /\ flex'.stage = flex.stage /\ flex.length > 0 /\ ~patch.dynamic
                   => change * flex.length <= (left - left') * height + flex.length - 1]_flex
  <2>1. SUFFICES ASSUME flex' # flex, left > 0, flex'.stage = flex.stage, flex.length > 0,
                        ~patch.dynamic
                 PROVE  LET height == Greatest(flex.target - flex.source, flex.source - flex.target)
                            change == Greatest(flex'.level - flex.level, flex.level - flex'.level)
                        IN change * flex.length <= (left - left') * height + flex.length - 1
    OBVIOUS
  <2>2. IsFlex
    BY <1>1, <2>1 DEF Next, envelopes
  <2> QED BY <1>1, <2>1, <2>2, LevelFollows
<1> QED BY <1>1, PointsInvariant, PTL DEF Spec, FlexContinuous

-----------------------------------------------------------------------------
(* The steps of a note are those NoteLife allows.                          *)

(* What a message or a turn tells an ADSR envelope does not make it run    *)
(* freely, nor stop running so.                                            *)
LEMMA AdsrGoesOn ==
  ASSUME AdsrInv, EgNext
  PROVE  \/ /\ voice = "idle" /\ voice' = "playing" /\ asked' = FALSE
            /\ eg'.freeRunning \in BOOLEAN
         \/ /\ eg'.freeRunning = eg.freeRunning
            /\ \/ UNCHANGED <<voice, asked>>
               \/ voice = "playing" /\ voice' \in {"playing", "cleanMeUp"} /\ asked'
               \/ voice = "playing" /\ voice' = "playing" /\ ~asked'
               \/ /\ voice' = "idle" /\ asked' = asked
                  /\ voice = "playing" => eg.state = "done"
<1>1. IsEg(eg) /\ BlocksOK /\ EgInv
  BY DEF AdsrInv, EgInv
<1>2. ASSUME NEW d \in Offsets, NEW p \in Patches, NEW s \in p.shapes, NoteOn(p, s, d)
      PROVE  voice = "idle" /\ voice' = "playing" /\ asked' = FALSE /\ eg'.freeRunning \in BOOLEAN
  <2>1. p.oneShot \in BOOLEAN
    BY EnvelopeAssumption DEF EnvelopeAssumption
  <2>2. eg'.freeRunning = (s.sustain <= FreeThreshold \/ p.oneShot)
    BY <1>1, <1>2 DEF NoteOn, Reset, Updated, IsEg, Fields
  <2>3. eg'.freeRunning \in BOOLEAN
    BY <2>2
  <2> QED BY <1>2, <2>3 DEF NoteOn, Begins
<1>3. ASSUME NEW d \in Offsets, NEW off \in BOOLEAN, NEW rate \in {0, 1}, Release(d, off, rate)
      PROVE  /\ eg'.freeRunning = eg.freeRunning
             /\ voice = "playing" /\ voice' \in {"playing", "cleanMeUp"} /\ asked'
  BY <1>1, <1>3 DEF Release, Releases, IsEg, Fields
<1>4. ASSUME NEW d \in Offsets, CancelRelease(d)
      PROVE  /\ eg'.freeRunning = eg.freeRunning
             /\ voice = "playing" /\ voice' = "playing" /\ ~asked'
  BY <1>1, <1>4 DEF CancelRelease, Resumes, IsEg, Fields
<1>5. ASSUME Block \/ NextChunk
      PROVE  eg'.freeRunning = eg.freeRunning /\ UNCHANGED <<voice, asked>>
  BY <1>1, <1>5 DEF Block, BeginsBlock, NextChunk, BeginsChunk, Updated, IsEg, Fields
<1>6. ASSUME Segment
      PROVE  eg'.freeRunning = eg.freeRunning /\ UNCHANGED <<voice, asked>>
  <2>1. PICK f : f = Entered(eg)
    OBVIOUS
  <2>2. PICK e, count : left > 0 /\ Advance(e, count) /\ Turned(f, e, count)
    BY <1>1, <1>6, <2>1, SegmentTurns
  <2>3. DOMAIN e = Fields /\ e.freeRunning = f.freeRunning
    BY <2>2 DEF Turned, IsEg
  <2>4. f.freeRunning = eg.freeRunning
    BY <1>1, <2>1, <2>2, Entering DEF Fields
  <2>5. eg'.freeRunning = e.freeRunning
    BY <2>2, <2>3 DEF Advance, Fields
  <2> QED BY <2>2, <2>3, <2>4, <2>5 DEF Advance, Renders
<1>7. ASSUME EndBlock
      PROVE  /\ eg'.freeRunning = eg.freeRunning /\ asked' = asked
             /\ voice' = voice \/ (voice' = "idle" /\ (voice = "playing" => eg.state = "done"))
  BY <1>7 DEF EndBlock, EndsBlock
<1> QED BY <1>2, <1>3, <1>4, <1>5, <1>6, <1>7 DEF EgNext, EgRender

(* Nor does what one tells an envelope with points.                        *)
LEMMA PointsGoOn ==
  ASSUME PointsInv, FlexNext
  PROVE  \/ /\ voice = "idle" /\ voice' = "playing" /\ asked' = FALSE
         \/ /\ patch' = patch /\ flex'.freeRunning = flex.freeRunning
            /\ \/ UNCHANGED <<voice, asked>>
               \/ voice = "playing" /\ voice' \in {"playing", "cleanMeUp"} /\ asked'
               \/ voice = "playing" /\ voice' = "playing" /\ ~asked'
               \/ /\ voice' = "idle" /\ asked' = asked
                  /\ voice = "playing" => FlexFinished(flex)
<1>1. IsFlexEg(flex) /\ patch \in FlexPatches /\ flex.stage + 1 \in Nat /\ patch.sustain \in Nat
  BY PatchIsFlex, FlexShapes DEF PointsInv, FlexInv, IsFlexEg
<1>2. ASSUME NEW d \in Offsets, NEW p \in FlexPatches, FlexNoteOn(p, d)
      PROVE  voice = "idle" /\ voice' = "playing" /\ asked' = FALSE
  BY <1>2 DEF FlexNoteOn, Begins
<1>3. ASSUME NEW d \in Offsets, FlexRelease(d)
      PROVE  /\ patch' = patch /\ flex'.freeRunning = flex.freeRunning
             /\ voice = "playing" /\ voice' \in {"playing", "cleanMeUp"} /\ asked'
  BY <1>1, <1>3 DEF FlexRelease, Releases, IsFlexEg, FlexFields
<1>4. ASSUME NEW d \in Offsets, FlexCancelRelease(d)
      PROVE  /\ patch' = patch /\ flex'.freeRunning = flex.freeRunning
             /\ voice = "playing" /\ voice' = "playing"
  <2>1. patch' = patch /\ voice = "playing" /\ voice' = "playing"
    BY <1>4 DEF FlexCancelRelease, Resumes
  <2>2. CASE flex.untilRelease # None
    BY <1>1, <1>4, <2>1, <2>2 DEF FlexCancelRelease, IsFlexEg, FlexFields
  <2>3. CASE flex.untilRelease = None
    <3>1. PICK f : f = [flex EXCEPT !.isReleased = FALSE]
      OBVIOUS
    <3>2. PICK s \in patch.shapes :
            flex' = [AdvanceToStage(f, patch.sustain, s) EXCEPT !.target = flex.level]
      BY <1>4, <2>3, <3>1 DEF FlexCancelRelease
    <3>3. f.isReleased = FALSE /\ IsFlexEg(f) /\ f.freeRunning = flex.freeRunning
      <4>1. f.isReleased = FALSE /\ DOMAIN f = FlexFields
            /\ \A x \in FlexFields \ {"isReleased"} : f[x] = flex[x]
        BY <1>1, <3>1 DEF IsFlexEg, FlexFields
      <4>2. f.isReleased \in BOOLEAN
        BY <4>1
      <4> QED BY <1>1, <4>1, <4>2 DEF IsFlexEg, FlexFields
    <3>4. PICK u : u = AdvanceToStage(f, patch.sustain, s)
      OBVIOUS
    <3>5. IsFlexEg(u) /\ u.freeRunning = f.freeRunning
      BY <1>1, <3>3, <3>4, StageEntered
    <3>6. flex'.freeRunning = u.freeRunning
      BY <3>2, <3>4, <3>5 DEF IsFlexEg, FlexFields
    <3> QED BY <2>1, <3>3, <3>5, <3>6
  <2> QED BY <2>2, <2>3
<1>5. ASSUME FlexBlock \/ FlexNextChunk
      PROVE  patch' = patch /\ flex'.freeRunning = flex.freeRunning /\ UNCHANGED <<voice, asked>>
  <2>1. \A s \in patch.shapes : Read(flex, s).freeRunning = flex.freeRunning
    BY <1>1, ReadFields DEF FlexFields
  <2> QED BY <1>5, <2>1 DEF FlexBlock, BeginsBlock, FlexNextChunk, BeginsChunk
<1>6. ASSUME NEW e, NEW count, FlexRenders(e, count), e.freeRunning = flex.freeRunning
      PROVE  patch' = patch /\ flex'.freeRunning = flex.freeRunning /\ UNCHANGED <<voice, asked>>
  BY <1>6 DEF FlexRenders, Renders
<1>7. ASSUME FlexSkip \/ FlexDue \/ FlexRun \/ FlexSilence
      PROVE  patch' = patch /\ flex'.freeRunning = flex.freeRunning /\ UNCHANGED <<voice, asked>>
  BY <1>1, <1>7 DEF FlexSkip, FlexDue, FlexRun, FlexSilence, FlexRenders, Renders, IsFlexEg, FlexFields
<1>8. ASSUME NEW f, IsFlexEg(f), f.freeRunning = flex.freeRunning, NEW s \in patch.shapes,
             FlexRenders(AdvanceToStage(f, flex.stage + 1, s), 0)
      PROVE  patch' = patch /\ flex'.freeRunning = flex.freeRunning /\ UNCHANGED <<voice, asked>>
  <2>1. AdvanceToStage(f, flex.stage + 1, s).freeRunning = flex.freeRunning
    BY <1>1, <1>8, StageEntered
  <2> QED BY <1>6, <1>8, <2>1
<1>9. ASSUME FlexFastForward
      PROVE  patch' = patch /\ flex'.freeRunning = flex.freeRunning /\ UNCHANGED <<voice, asked>>
  BY <1>1, <1>8, <1>9 DEF FlexFastForward
<1>10. ASSUME FlexComplete
       PROVE  patch' = patch /\ flex'.freeRunning = flex.freeRunning /\ UNCHANGED <<voice, asked>>
  <2>1. PICK f : f = IF flex.length = 0 THEN [flex EXCEPT !.level = flex.target] ELSE flex
    OBVIOUS
  <2>2. PICK s \in patch.shapes : FlexRenders(AdvanceToStage(f, flex.stage + 1, s), 0)
    BY <1>10, <2>1 DEF FlexComplete
  <2>3. /\ DOMAIN f = FlexFields /\ f.level \in Int
        /\ \A x \in FlexFields \ {"level"} : f[x] = flex[x]
    BY <1>1, <2>1 DEF IsFlexEg, FlexFields
  <2>4. IsFlexEg(f) /\ f.freeRunning = flex.freeRunning
    BY <1>1, <2>3 DEF IsFlexEg, FlexFields
  <2> QED BY <1>8, <2>2, <2>4
<1>11. ASSUME FlexEndBlock
       PROVE  /\ patch' = patch /\ flex'.freeRunning = flex.freeRunning /\ asked' = asked
              /\ voice' = voice \/ (voice' = "idle" /\ (voice = "playing" => FlexFinished(flex)))
  BY <1>11 DEF FlexEndBlock, EndsBlock
<1>12. CASE FlexRender
  BY <1>5, <1>7, <1>9, <1>10, <1>11, <1>12 DEF FlexRender
<1>13. ASSUME NEW d \in Offsets, FlexCancelRelease(d) PROVE asked' \in BOOLEAN
  BY <1>13 DEF FlexCancelRelease, Resumes
<1> QED BY <1>2, <1>3, <1>4, <1>12, <1>13 DEF FlexNext

(* What NoteLife sees of a voice.                                          *)
Phase == IF voice = "idle" THEN "free"
         ELSE IF voice = "cleanMeUp" \/ asked THEN "ending" ELSE "held"
Endless == IF IsFlex THEN patch.sustain < patch.stages /\ ~flex.freeRunning ELSE ~eg.freeRunning

(* A step of either envelope is one of the note's life, or none of it.     *)
LEMMA NoteSteps ==
  ASSUME IInv, [Next]_envelopes
  PROVE  \/ Phase = "free" /\ Phase' = "held" /\ Endless' \in BOOLEAN
         \/ /\ Endless' = Endless
            /\ \/ Phase' = Phase
               \/ Phase = "held" /\ Phase' = "ending"
               \/ Phase = "ending" /\ Phase' = "held"
               \/ Phase = "ending" /\ Phase' = "free"
               \/ Phase = "held" /\ ~Endless /\ Phase' = "free"
<1>1. CASE UNCHANGED envelopes
  BY <1>1 DEF envelopes, blocks, Phase, Endless, IsFlex
<1>2. CASE Next /\ ~IsFlex
  <2>1. AdsrInv /\ EgNext /\ ~IsFlex'
    BY <1>2, KindStays DEF IInv, PointsInv, Next
  <2>2. /\ Endless = ~eg.freeRunning /\ Endless' = ~eg'.freeRunning
    BY <1>2, <2>1 DEF Endless
  <2>3. voice = "playing" /\ ~asked /\ eg.state = "done" => eg.freeRunning
    BY <2>1 DEF AdsrInv, Holds, Held
  <2>4. voice \in {"idle", "playing", "cleanMeUp"}
    BY <2>1 DEF AdsrInv, BlocksOK
  <2>5. CASE /\ voice = "idle" /\ voice' = "playing" /\ asked' = FALSE /\ eg'.freeRunning \in BOOLEAN
    BY <2>2, <2>5 DEF Phase
  <2>6. CASE eg'.freeRunning = eg.freeRunning /\ UNCHANGED <<voice, asked>>
    BY <2>2, <2>6 DEF Phase
  <2>7. CASE /\ eg'.freeRunning = eg.freeRunning
             /\ voice = "playing" /\ voice' \in {"playing", "cleanMeUp"} /\ asked'
    BY <2>2, <2>7 DEF Phase
  <2>8. CASE /\ eg'.freeRunning = eg.freeRunning
             /\ voice = "playing" /\ voice' = "playing" /\ ~asked'
    BY <2>2, <2>8 DEF Phase
  <2>9. CASE /\ eg'.freeRunning = eg.freeRunning /\ voice' = "idle" /\ asked' = asked
             /\ voice = "playing" => eg.state = "done"
    BY <2>2, <2>3, <2>4, <2>9 DEF Phase
  <2> QED BY <2>1, <2>5, <2>6, <2>7, <2>8, <2>9, AdsrGoesOn
<1>3. CASE Next /\ IsFlex
  <2>1. PointsInv /\ FlexNext /\ IsFlex'
    BY <1>3, KindStays DEF IInv, AdsrInv, Next
  <2>2. /\ Endless = (patch.sustain < patch.stages /\ ~flex.freeRunning)
        /\ Endless' = (patch'.sustain < patch'.stages /\ ~flex'.freeRunning)
    BY <1>3, <2>1 DEF Endless
  <2>3. Endless' \in BOOLEAN
    BY <2>2
  <2>4. voice = "playing" /\ ~asked /\ FlexFinished(flex) => ~Endless
    <3>1. SUFFICES ASSUME voice = "playing", ~asked, FlexFinished(flex), ~flex.freeRunning
                   PROVE  ~(patch.sustain < patch.stages)
      BY <2>2
    <3>2. flex.stage <= patch.sustain /\ flex.stage >= patch.stages
      BY <1>3, <2>1, <3>1 DEF PointsInv, Holds, FlexFinished
    <3>3. flex.stage \in Nat /\ patch.stages \in Nat /\ patch.sustain \in Nat
      <4>1. flex.stage \in Nat
        BY <2>1 DEF PointsInv, FlexInv, IsFlexEg
      <4> QED BY <2>1, <4>1, PatchIsFlex, FlexShapes
    <3> QED BY <3>2, <3>3
  <2>5. voice \in {"idle", "playing", "cleanMeUp"}
    BY <2>1 DEF PointsInv, BlocksOK
  <2>6. CASE voice = "idle" /\ voice' = "playing" /\ asked' = FALSE
    BY <2>3, <2>6 DEF Phase
  <2>7. CASE patch' = patch /\ flex'.freeRunning = flex.freeRunning /\ UNCHANGED <<voice, asked>>
    BY <2>2, <2>7 DEF Phase
  <2>8. CASE /\ patch' = patch /\ flex'.freeRunning = flex.freeRunning
             /\ voice = "playing" /\ voice' \in {"playing", "cleanMeUp"} /\ asked'
    BY <2>2, <2>8 DEF Phase
  <2>9. CASE /\ patch' = patch /\ flex'.freeRunning = flex.freeRunning
             /\ voice = "playing" /\ voice' = "playing" /\ ~asked'
    BY <2>2, <2>9 DEF Phase
  <2>10. CASE /\ patch' = patch /\ flex'.freeRunning = flex.freeRunning
              /\ voice' = "idle" /\ asked' = asked
              /\ voice = "playing" => FlexFinished(flex)
    BY <2>2, <2>4, <2>5, <2>10 DEF Phase
  <2> QED BY <2>1, <2>6, <2>7, <2>8, <2>9, <2>10, PointsGoOn
<1> QED BY <1>1, <1>2, <1>3

(* The envelopes implement NoteLife, but for its liveness: a note that is  *)
(* held, with an envelope that sustains, ends only after it is told to.    *)
THEOREM NotesLive ==
  ASSUME SteadyDelay, ~CancelInDelay
  PROVE  Spec => Life!Init /\ [][Life!Next]_(Life!note)
<1>1. Init => Life!Init
  <2>1. SUFFICES ASSUME Init PROVE Life!Init
    OBVIOUS
  <2>2. Phase = "free"
    BY <2>1 DEF Init, BlocksInit, Phase
  <2>3. eg.freeRunning = FALSE
    BY <2>1 DEF Init, EgInit
  <2>4. Endless \in BOOLEAN
    BY <2>3 DEF Endless
  <2> QED BY <2>2, <2>4 DEF Life!Init, Phase, Endless
<1>2. IInv /\ [Next]_envelopes => [Life!Next]_(Life!note)
  <2>1. SUFFICES ASSUME IInv, [Next]_envelopes PROVE [Life!Next]_(Life!note)
    OBVIOUS
  <2> QED BY <2>1, NoteSteps
       DEF Phase, Endless, Life!Next, Life!Begin, Life!TellToEnd, Life!TellToGoOn, Life!End, Life!note
<1> QED BY <1>1, <1>2, EnvelopesInvariant, PTL DEF Spec
=============================================================================
