-------------------------- MODULE ActivationProofs --------------------------
(***************************************************************************)
(* Key switches, sequences, trigger types and conditions of layers do what *)
(* they say for all instruments, sources and keys, and the messages of one *)
(* source leave the switches of the others alone.                          *)
(***************************************************************************)
EXTENDS Activation, TLAPS, FiniteSetTheorems, WellFoundedInduction

-----------------------------------------------------------------------------
(* Types.                                                                  *)

Switch ==
  [key : BOOLEAN, previous : BOOLEAN, sequence : BOOLEAN, counter : Nat, wheel : BOOLEAN,
   pressure : BOOLEAN, program : BOOLEAN, off : SUBSET AnyControl]

AllSwitches ==
  {a \in [DOMAIN L -> UNION {[S -> Switch] : S \in SUBSET Scope}] :
     \A n \in DOMAIN L : a[n] \in [ScopesOf(L[n]) -> Switch]}

MidiType ==
  [wheel : [Scope -> Level], pressure : [Scope -> Level], program : [Scope -> Program],
   poly : [Scope \X Key -> Level], controls : [Scope -> [AnyControl -> Level]],
   counts : [Channel \X Key -> Nat], notes : [Channel -> Nat], active : Nat]

VoiceType ==
  {v \in [layer : DOMAIN L, channel : Channel, number : Key \cup AnyControl, ofNote : BOOLEAN] :
     Hears(L[v.layer], v.channel)}

TypeOK ==
  /\ instrument \in Instruments
  /\ voices \subseteq VoiceType
  /\ switches \in AllSwitches
  /\ currentSwitch \in [Scope -> Key \cup {None}]
  /\ midi \in MidiType
  /\ started \subseteq (DOMAIN L) \X Channel \X Key
  /\ held \in [Channel \X Key -> Nat]
  /\ silenced \in BOOLEAN
  /\ centred \subseteq Scope

LEMMA LayersAre ==
  ASSUME instrument \in Instruments
  PROVE  /\ L \in Seq(Layer) /\ Len(L) \in Nat /\ DOMAIN L = 1 .. Len(L)
         /\ instrument.default \in Key \cup {None}
         /\ \A n \in DOMAIN L :
              /\ L[n] \in Layer
              /\ L[n].down = {} \/ L[n].up = {}
              /\ L[n].last # {} => L[n].down = {} /\ L[n].up = {}
<1>1. L \in Seq(Layer) /\ instrument.default \in Key \cup {None}
  BY ActivationAssumption DEF L
<1>2. Len(L) \in Nat /\ DOMAIN L = 1 .. Len(L) /\ \A n \in DOMAIN L : L[n] \in Layer
  BY <1>1
<1>3. ASSUME NEW n \in DOMAIN L, NEW f \in {"last", "down", "up"}, NEW g \in {"last", "down", "up"}, f # g
      PROVE  L[n][f] = {} \/ L[n][g] = {}
  BY <1>3, ActivationAssumption DEF L
<1>4. ASSUME NEW n \in DOMAIN L
      PROVE  /\ L[n].down = {} \/ L[n].up = {}
             /\ L[n].last # {} => L[n].down = {} /\ L[n].up = {}
  <2>1. L[n]["down"] = {} \/ L[n]["up"] = {}
    BY <1>3
  <2>2. L[n]["down"] = {} \/ L[n]["last"] = {}
    BY <1>3
  <2>3. L[n]["up"] = {} \/ L[n]["last"] = {}
    BY <1>3
  <2> QED BY <2>1, <2>2, <2>3
<1> QED BY <1>1, <1>2, <1>4

LEMMA LayerFields ==
  ASSUME NEW l \in Layer
  PROVE  /\ l.restricted \in BOOLEAN /\ l.channels \subseteq Channel
         /\ l.sequence[1] \in Nat /\ l.sequence[2] \in Nat
         /\ 1 <= l.sequence[2] /\ l.sequence[2] <= l.sequence[1]
         /\ l.positioned \in BOOLEAN
BY DEF Layer

LEMMA ScopesAre ==
  ASSUME NEW l \in Layer, NEW c \in Channel
  PROVE  /\ ScopesOf(l) \subseteq Scope
         /\ Hears(l, c) => ScopeOf(l, c) \in ScopesOf(l)
         /\ c # Omni /\ ScopeOf(l, c) \in Scope
BY LayerFields, ActivationAssumption DEF ScopesOf, ScopeOf, Hears, Scope

LEMMA AllSwitchesAre ==
  ASSUME instrument \in Instruments, NEW a
  PROVE  a \in AllSwitches <=>
           /\ a = [n \in DOMAIN L |-> a[n]]
           /\ \A n \in DOMAIN L : a[n] \in [ScopesOf(L[n]) -> Switch]
<1>1. \A n \in DOMAIN L : ScopesOf(L[n]) \in SUBSET Scope
  BY LayersAre, LayerFields DEF ScopesOf, Scope
<1> QED BY <1>1 DEF AllSwitches

LEMMA SwitchesFrom ==
  ASSUME instrument \in Instruments, NEW a, a = [n \in DOMAIN L |-> a[n]],
         \A n \in DOMAIN L : a[n] \in [ScopesOf(L[n]) -> Switch]
  PROVE  a \in AllSwitches
BY AllSwitchesAre

LEMMA FunctionFrom ==
  ASSUME NEW S, NEW T, NEW f, f = [s \in S |-> f[s]], \A s \in S : f[s] \in T
  PROVE  f \in [S -> T]
OBVIOUS

SwitchesOf(l) == [ScopesOf(l) -> Switch]
Replaced(all, n, sw) == [all EXCEPT ![n] = sw]

LEMMA SwitchesExcept ==
  ASSUME instrument \in Instruments, NEW all \in AllSwitches, NEW n \in DOMAIN L,
         NEW sw \in SwitchesOf(L[n]), NEW a, a = Replaced(all, n, sw)
  PROVE  a \in AllSwitches /\ a[n] = sw /\ \A i \in DOMAIN L : i # n => a[i] = all[i]
<1>1. /\ all = [i \in DOMAIN L |-> all[i]]
      /\ \A i \in DOMAIN L : all[i] \in [ScopesOf(L[i]) -> Switch]
  BY AllSwitchesAre
<1>2. DOMAIN all = DOMAIN L
  BY <1>1
<1>3. a[n] = sw /\ DOMAIN a = DOMAIN L /\ \A i \in DOMAIN L : i # n => a[i] = all[i]
  BY <1>2 DEF Replaced
<1>4. a = [i \in DOMAIN L |-> a[i]]
  BY <1>2 DEF Replaced
<1>5. \A i \in DOMAIN L : a[i] \in [ScopesOf(L[i]) -> Switch]
  BY <1>1, <1>3 DEF SwitchesOf
<1> QED BY <1>3, <1>4, <1>5, AllSwitchesAre

-----------------------------------------------------------------------------
(* What the operators on switches return.                                  *)

Reached(l, s, keys, presses) ==
  \E p \in presses : Hears(l, p[1]) /\ p[2] \in keys /\ s = ScopeOf(l, p[1])

WithKey(f, on) == [f EXCEPT !.key = on]

(* The switches a differ from all in the key of those that were reached.   *)
KeysSet(a, all, field, presses, on) ==
  \A i \in DOMAIN L : \A s \in ScopesOf(L[i]) :
    a[i][s] = IF Reached(L[i], s, L[i][field], presses)
              THEN WithKey(all[i][s], on) ELSE all[i][s]

LEMMA KeySwitchedIs ==
  ASSUME instrument \in Instruments, NEW all \in AllSwitches, NEW field, NEW presses,
         NEW on \in BOOLEAN, NEW a, a = KeySwitched(all, field, presses, on)
  PROVE  a \in AllSwitches /\ KeysSet(a, all, field, presses, on)
<1>1. /\ a = [i \in DOMAIN L |-> a[i]]
      /\ \A i \in DOMAIN L : a[i] = [s \in ScopesOf(L[i]) |->
           IF Reached(L[i], s, L[i][field], presses) THEN WithKey(all[i][s], on) ELSE all[i][s]]
  BY AllSwitchesAre DEF KeySwitched, Reached, WithKey
<1>2. ASSUME NEW i \in DOMAIN L, NEW s \in ScopesOf(L[i])
      PROVE  all[i][s] \in Switch /\ WithKey(all[i][s], on) \in Switch
  BY AllSwitchesAre DEF Switch, WithKey
<1>3. ASSUME NEW i \in DOMAIN L, NEW s \in ScopesOf(L[i])
      PROVE  a[i][s] = IF Reached(L[i], s, L[i][field], presses)
                       THEN WithKey(all[i][s], on) ELSE all[i][s]
  BY ONLY <1>1
<1>4. ASSUME NEW i \in DOMAIN L PROVE a[i] \in [ScopesOf(L[i]) -> Switch]
  <2>1. a[i] = [s \in ScopesOf(L[i]) |-> a[i][s]]
    BY <1>1
  <2>2. ASSUME NEW s \in ScopesOf(L[i]) PROVE a[i][s] \in Switch
    <3>1. a[i][s] = WithKey(all[i][s], on) \/ a[i][s] = all[i][s]
      BY ONLY <1>3
    <3> QED BY ONLY <1>2, <3>1
  <2> QED BY ONLY <2>1, <2>2, FunctionFrom
<1>5. a \in AllSwitches
  BY <1>1, <1>4, SwitchesFrom
<1>6. KeysSet(a, all, field, presses, on)
  BY ONLY <1>3 DEF KeysSet
<1> QED BY <1>5, <1>6

(* A switch after a choke, which releases notes: sw_down may go off and    *)
(* sw_up come on, and nothing else.                                        *)
Lighter(l, new, old) ==
  /\ l.last # {} => new = old
  /\ l.down # {} => (new => old)
  /\ l.up # {} => (old => new)

LEMMA LiftedIs ==
  ASSUME instrument \in Instruments, NEW all \in AllSwitches, NEW presses,
         NEW i \in DOMAIN L, NEW s \in ScopesOf(L[i])
  PROVE  /\ Lifted(all, presses) \in AllSwitches
         /\ Lifted(all, presses)[i][s] = WithKey(all[i][s], Lifted(all, presses)[i][s].key)
         /\ Lighter(L[i], Lifted(all, presses)[i][s].key, all[i][s].key)
         /\ Lifted(all, presses)[i][s].key # all[i][s].key =>
              \E p \in presses : /\ Hears(L[i], p[1]) /\ s = ScopeOf(L[i], p[1])
                                 /\ p[2] \in L[i].down \cup L[i].up
         /\ \A p \in presses : (Hears(L[i], p[1]) /\ s = ScopeOf(L[i], p[1])) =>
              /\ p[2] \in L[i].down => ~Lifted(all, presses)[i][s].key
              /\ p[2] \in L[i].up => Lifted(all, presses)[i][s].key
<1>1. PICK a : a = KeySwitched(all, "up", presses, TRUE)
  OBVIOUS
<1>2. PICK b : b = KeySwitched(a, "down", presses, FALSE)
  OBVIOUS
<1>3. /\ a \in AllSwitches /\ KeysSet(a, all, "up", presses, TRUE)
      /\ b \in AllSwitches /\ KeysSet(b, a, "down", presses, FALSE)
  BY <1>1, <1>2, KeySwitchedIs
<1> DEFINE To(f) == Reached(L[i], s, L[i][f], presses)
<1>4. a[i][s] = IF To("up") THEN WithKey(all[i][s], TRUE) ELSE all[i][s]
  BY <1>3 DEF KeysSet
<1>5. b[i][s] = IF To("down") THEN WithKey(a[i][s], FALSE) ELSE a[i][s]
  BY <1>3 DEF KeysSet
<1>6. all[i][s] \in Switch /\ a[i][s] \in Switch
  BY <1>3, AllSwitchesAre
<1>7. /\ L[i].down = {} \/ L[i].up = {}
      /\ L[i].last # {} => L[i].down = {} /\ L[i].up = {}
      /\ L[i]["down"] = L[i].down /\ L[i]["up"] = L[i].up
  BY LayersAre
<1>8. b[i][s] = WithKey(all[i][s], b[i][s].key)
  BY <1>4, <1>5, <1>6 DEF Switch, WithKey
<1>9. b[i][s].key = IF To("down") THEN FALSE ELSE IF To("up") THEN TRUE ELSE all[i][s].key
  BY <1>4, <1>5, <1>6 DEF Switch, WithKey
<1>10. Lighter(L[i], b[i][s].key, all[i][s].key)
  BY <1>7, <1>9 DEF Lighter, Reached
<1>11. b = Lifted(all, presses)
  BY <1>1, <1>2 DEF Lifted
<1>12. b[i][s].key # all[i][s].key =>
         \E p \in presses : /\ Hears(L[i], p[1]) /\ s = ScopeOf(L[i], p[1])
                            /\ p[2] \in L[i].down \cup L[i].up
  BY <1>7, <1>9 DEF Reached
<1>13. \A p \in presses : (Hears(L[i], p[1]) /\ s = ScopeOf(L[i], p[1])) =>
         /\ p[2] \in L[i].down => ~b[i][s].key
         /\ p[2] \in L[i].up => b[i][s].key
  BY <1>7, <1>9 DEF Reached
<1> QED BY <1>3, <1>8, <1>10, <1>11, <1>12, <1>13

LEMMA PressedTyped ==
  ASSUME instrument \in Instruments, NEW all \in AllSwitches, NEW presses, NEW press
  PROVE  Lifted(all, presses) \in AllSwitches /\ Pressed(all, press) \in AllSwitches
<1>1. /\ KeySwitched(all, "up", presses, TRUE) \in AllSwitches
      /\ KeySwitched(all, "up", {press}, FALSE) \in AllSwitches
  BY KeySwitchedIs
<1> QED BY <1>1, KeySwitchedIs DEF Lifted, Pressed

(* Pressing a key switches the layers with it in sw_down or sw_up.         *)
PressedAt(f, old, l, s, c, k) ==
  /\ f = WithKey(old, f.key)
  /\ f.key = IF Hears(l, c) /\ s = ScopeOf(l, c) /\ k \in l.down THEN TRUE
             ELSE IF Hears(l, c) /\ s = ScopeOf(l, c) /\ k \in l.up THEN FALSE
             ELSE old.key

LEMMA PressedIs ==
  ASSUME instrument \in Instruments, NEW all \in AllSwitches, NEW c \in Channel, NEW k \in Key,
         NEW i \in DOMAIN L, NEW s \in ScopesOf(L[i])
  PROVE  PressedAt(Pressed(all, <<c, k>>)[i][s], all[i][s], L[i], s, c, k)
<1>1. PICK a : a = KeySwitched(all, "up", {<<c, k>>}, FALSE)
  OBVIOUS
<1>2. PICK b : b = KeySwitched(a, "down", {<<c, k>>}, TRUE)
  OBVIOUS
<1>3. /\ a \in AllSwitches /\ KeysSet(a, all, "up", {<<c, k>>}, FALSE)
      /\ b \in AllSwitches /\ KeysSet(b, a, "down", {<<c, k>>}, TRUE)
  BY <1>1, <1>2, KeySwitchedIs
<1> DEFINE To(f) == Reached(L[i], s, L[i][f], {<<c, k>>})
<1>5. a[i][s] = IF To("up") THEN WithKey(all[i][s], FALSE) ELSE all[i][s]
  BY <1>3 DEF KeysSet
<1>6. b[i][s] = IF To("down") THEN WithKey(a[i][s], TRUE) ELSE a[i][s]
  BY <1>3 DEF KeysSet
<1>7. all[i][s] \in Switch /\ a[i][s] \in Switch
  BY <1>3, AllSwitchesAre
<1>8. /\ To("down") <=> Hears(L[i], c) /\ s = ScopeOf(L[i], c) /\ k \in L[i].down
      /\ To("up") <=> Hears(L[i], c) /\ s = ScopeOf(L[i], c) /\ k \in L[i].up
  BY DEF Reached
<1>9. b[i][s] = WithKey(all[i][s], b[i][s].key)
  BY <1>5, <1>6, <1>7 DEF Switch, WithKey
<1>10. b[i][s].key = IF To("down") THEN TRUE ELSE IF To("up") THEN FALSE ELSE all[i][s].key
  BY <1>5, <1>6, <1>7 DEF Switch, WithKey
<1>11. b = Pressed(all, <<c, k>>)
  BY <1>1, <1>2 DEF Pressed
<1> QED BY <1>8, <1>9, <1>10, <1>11 DEF PressedAt

-----------------------------------------------------------------------------
(* A dispatch, layer by layer.                                             *)

NewVoices(c) == {v \in VoiceType : v.channel = c}
VoiceOf(u) == [layer |-> u[1], channel |-> u[2], number |-> u[3], ofNote |-> TRUE]

Results(c) ==
  [all : AllSwitches, voices : SUBSET (voices \cup NewVoices(c)),
   started : SUBSET ((DOMAIN L) \X Channel \X Key)]

(* A switch whose sequence moves on, or does not.                          *)
Turned(l, f, counts) ==
  IF counts
  THEN [f EXCEPT !.sequence = (f.counter = l.sequence[2] - 1),
                 !.counter = (@ + 1) % l.sequence[1]]
  ELSE f

(* What became of one switch: its sequence has moved on if it counts, its  *)
(* controllers are those of off, and its key has changed by chokes only.   *)
SwitchSoFar(r, i, s, c, old, counts, off) ==
  LET new == r.all[i][s]
  IN /\ new = [Turned(L[i], old, counts) EXCEPT !.key = new.key, !.off = off]
     /\ Lighter(L[i], new.key, old.key)
     /\ (L[i].restricted /\ s # c /\ new.key # old.key) =>
          \E v \in voices \ r.voices : v.channel = s

(* The notes that play are those of before or have begun, and a key has    *)
(* changed for one of them only.                                           *)
Causes(r, all) ==
  /\ \A v \in r.voices \ voices : v.ofNote => \E u \in r.started : v = VoiceOf(u)
  /\ \A i \in DOMAIN L : \A s \in ScopesOf(L[i]) :
       r.all[i][s].key # all[i][s].key =>
         \E k \in L[i].down \cup L[i].up : Cut(all, r.started, s, k)

(* The dispatch of a message has passed the layers up to n.                *)
SoFar(r, n, c, all, counting, seen, may) ==
  /\ r \in Results(c)
  /\ Causes(r, all)
  /\ r.started \subseteq may
  /\ \A i \in DOMAIN L : \A s \in ScopesOf(L[i]) :
       SwitchSoFar(r, i, s, c, all[i][s], i <= n /\ i \in counting /\ s = ScopeOf(L[i], c),
                   IF i <= n THEN seen[i][s] ELSE all[i][s].off)

CounterAfter(l, f, counts) == IF counts THEN (f.counter + 1) % l.sequence[1] ELSE f.counter
SequenceAfter(l, f, counts) == IF counts THEN f.counter = l.sequence[2] - 1 ELSE f.sequence

LEMMA TurnedTyped ==
  ASSUME NEW l \in Layer, NEW f \in Switch, NEW counts \in BOOLEAN
  PROVE  /\ Turned(l, f, counts) \in Switch
         /\ Turned(l, f, counts).key = f.key /\ Turned(l, f, counts).off = f.off
         /\ Turned(l, f, counts).previous = f.previous
         /\ Turned(l, f, counts).wheel = f.wheel
         /\ Turned(l, f, counts).pressure = f.pressure
         /\ Turned(l, f, counts).program = f.program
         /\ Turned(l, f, counts).counter = CounterAfter(l, f, counts)
         /\ Turned(l, f, counts).sequence = SequenceAfter(l, f, counts)
<1>1. l.sequence[1] \in Nat \ {0}
  BY LayerFields
<1>2. f.counter \in Nat /\ (f.counter + 1) % l.sequence[1] \in Nat
  BY <1>1 DEF Switch
<1> QED BY <1>2 DEF Turned, CounterAfter, SequenceAfter, Switch

LEMMA CutMore ==
  ASSUME NEW all, NEW begun, NEW more, begun \subseteq more, NEW s, NEW k, Cut(all, begun, s, k)
  PROVE  Cut(all, more, s, k)
BY Zenon DEF Cut

SeenBefore(seen, all) == \A i \in DOMAIN L : \A s \in ScopesOf(L[i]) : seen[i][s] = all[i][s].off

(* The notes that a note chokes are cut.                                   *)
LEMMA ChokesCut ==
  ASSUME instrument \in Instruments, voices \subseteq VoiceType, NEW c \in Channel, NEW r, NEW n,
         NEW all \in AllSwitches, NEW counting, NEW seen, NEW may,
         SoFar(r, n, c, all, counting, seen, may), SeenBefore(seen, all),
         NEW m \in DOMAIN L, NEW number \in Key, NEW begun, begun = r.started \cup {<<m, c, number>>},
         NEW v \in r.voices, v.ofNote, Chokes(r, v, L[m], number, c),
         NEW s, s = Omni \/ s = v.channel
  PROVE  Cut(all, begun, s, v.number)
<1>1. v \in VoiceType /\ (v \in voices \/ \E u \in r.started : v = VoiceOf(u))
  BY DEF SoFar, Causes, Results, NewVoices
<1>2. PICK i, t : i = v.layer /\ t = ScopeOf(L[v.layer], v.channel)
  OBVIOUS
<1>3. i \in DOMAIN L /\ t \in ScopesOf(L[i])
  BY <1>1, <1>2, LayersAre, ScopesAre DEF VoiceType
<1>4. r.all[i][t].off = all[i][t].off
  <2>1. PICK off, counts : /\ off = all[i][t].off
                           /\ counts = (i <= n /\ i \in counting /\ t = ScopeOf(L[i], c))
    OBVIOUS
  <2>2. (IF i <= n THEN seen[i][t] ELSE all[i][t].off) = off
    BY <1>3, <2>1 DEF SeenBefore
  <2>3. SwitchSoFar(r, i, t, c, all[i][t], counts, off)
    <3>1. SwitchSoFar(r, i, t, c, all[i][t], i <= n /\ i \in counting /\ t = ScopeOf(L[i], c),
                      IF i <= n THEN seen[i][t] ELSE all[i][t].off)
      BY <1>3 DEF SoFar
    <3> QED BY <2>1, <2>2, <3>1
  <2>4. PICK x, y : x = r.all[i][t] /\ y = Turned(L[i], all[i][t], counts)
    OBVIOUS
  <2>5. x = [y EXCEPT !.key = x.key, !.off = off]
    BY <2>3, <2>4 DEF SwitchSoFar
  <2>6. y \in Switch
    <3>1. all[i][t] \in Switch /\ L[i] \in Layer /\ counts \in BOOLEAN
      BY <1>3, <2>1, AllSwitchesAre, LayersAre
    <3> QED BY <2>4, <3>1, TurnedTyped
  <2>7. x.off = off
    BY <2>5, <2>6 DEF Switch
  <2> QED BY <2>1, <2>4, <2>7
<1>5. PICK u : u = <<m, c, number>>
  OBVIOUS
<1>6. PICK own : own = L[i]
  OBVIOUS
<1>7. /\ own.restricted => v.channel = c
      /\ own.offBy # 0 /\ own.offBy = L[m].group
      /\ \/ own.group # L[m].group
         \/ all[i][t].off # {}
         \/ number # v.number
  BY <1>2, <1>4, <1>6 DEF Chokes
<1>8. u[1] = m /\ u[2] = c /\ u[3] = number /\ u \in begun
  BY <1>5
<1>9. v \in voices \cup {VoiceOf(w) : w \in begun}
  BY <1>1
<1> QED BY <1>2, <1>5, <1>6, <1>7, <1>8, <1>9 DEF Cut, VoiceOf

(* Chokes, and the voice that starts, keep what is known of the dispatch.  *)
LEMMA StartSoFar ==
  ASSUME instrument \in Instruments, voices \subseteq VoiceType,
         NEW c \in Channel, NEW r, NEW n, NEW all \in AllSwitches,
         NEW counting, NEW seen, NEW may, SoFar(r, n, c, all, counting, seen, may),
         NEW m \in DOMAIN L, NEW number \in Key \cup AnyControl, NEW byNote \in BOOLEAN,
         Hears(L[m], c),
         byNote => number \in Key /\ <<m, c, number>> \in may /\ SeenBefore(seen, all)
  PROVE  SoFar(Start(r, m, number, c, byNote), n, c, all, counting, seen, may)
<1>1. PICK choked : choked = {v \in r.voices : Chokes(r, v, L[m], number, c)}
  OBVIOUS
<1>2. PICK lifted : lifted = {<<v.channel, v.number>> : v \in {w \in choked : byNote /\ w.ofNote}}
  OBVIOUS
<1>3. PICK a : a = Lifted(r.all, lifted)
  OBVIOUS
<1>4. PICK new : new = {v \in {[layer |-> m, channel |-> c, number |-> number, ofNote |-> byNote]} :
                         L[m].offBy # 0}
  OBVIOUS
<1>5. PICK q : q = Start(r, m, number, c, byNote)
  OBVIOUS
<1>6. q = [all |-> a, voices |-> (r.voices \ choked) \cup new,
           started |-> IF byNote THEN r.started \cup {<<m, c, number>>} ELSE r.started]
  BY <1>1, <1>2, <1>3, <1>4, <1>5 DEF Start
<1>7. r \in Results(c) /\ r.all \in AllSwitches
  BY DEF SoFar, Results
<1>8. a \in AllSwitches
  <2>1. a = KeySwitched(KeySwitched(r.all, "up", lifted, TRUE), "down", lifted, FALSE)
    BY <1>3 DEF Lifted
  <2> QED BY <1>7, <2>1, KeySwitchedIs
<1>9. new \subseteq NewVoices(c) /\ (\A v \in NewVoices(c) : v.channel = c)
  BY <1>4 DEF NewVoices, VoiceType
<1>10. q \in Results(c) /\ q.started \subseteq may
  BY <1>6, <1>7, <1>8, <1>9 DEF Results, SoFar
<1>11. ASSUME NEW i \in DOMAIN L, NEW s \in ScopesOf(L[i])
       PROVE  SwitchSoFar(q, i, s, c, all[i][s], i <= n /\ i \in counting /\ s = ScopeOf(L[i], c),
                          IF i <= n THEN seen[i][s] ELSE all[i][s].off)
  <2>1. PICK counts, off : /\ counts = (i <= n /\ i \in counting /\ s = ScopeOf(L[i], c))
                           /\ off = IF i <= n THEN seen[i][s] ELSE all[i][s].off
    OBVIOUS
  <2>2. SwitchSoFar(r, i, s, c, all[i][s], counts, off)
    BY <2>1 DEF SoFar
  <2>3. PICK x, y, z : x = a[i][s] /\ y = r.all[i][s] /\ z = all[i][s]
    OBVIOUS
  <2>4. /\ x = WithKey(y, x.key) /\ Lighter(L[i], x.key, y.key)
        /\ x.key # y.key => \E p \in lifted : Hears(L[i], p[1]) /\ s = ScopeOf(L[i], p[1])
    BY <1>3, <1>7, <2>3, LiftedIs
  <2>5. /\ y = [Turned(L[i], z, counts) EXCEPT !.key = y.key, !.off = off]
        /\ Lighter(L[i], y.key, z.key)
        /\ (L[i].restricted /\ s # c /\ y.key # z.key) => \E v \in voices \ r.voices : v.channel = s
    BY <2>2, <2>3 DEF SwitchSoFar
  <2>6. x = [Turned(L[i], z, counts) EXCEPT !.key = x.key, !.off = off]
    <3>1. Turned(L[i], z, counts) \in Switch
      <4>1. z \in Switch
        BY <2>3, AllSwitchesAre
      <4> QED BY <2>1, <4>1, LayersAre, TurnedTyped
    <3> QED BY <2>4, <2>5, <3>1 DEF WithKey, Switch
  <2>7. Lighter(L[i], x.key, z.key)
    BY <2>4, <2>5 DEF Lighter
  <2>8. ASSUME L[i].restricted, s # c, x.key # z.key
        PROVE  \E v \in voices \ q.voices : v.channel = s
    <3>1. \A v : (v \in voices /\ v.channel = s /\ v \notin r.voices) => v \in voices \ q.voices
      BY <1>6, <1>9, <2>8
    <3>2. CASE y.key # z.key
      BY <2>5, <2>8, <3>1, <3>2
    <3>3. CASE x.key # y.key
      <4>1. PICK p \in lifted : s = ScopeOf(L[i], p[1])
        BY <2>4, <3>3
      <4>2. PICK v \in choked : p = <<v.channel, v.number>>
        BY <1>2, <4>1
      <4>3. v.channel = s
        BY <2>8, <4>1, <4>2 DEF ScopeOf
      <4>4. v \in voices /\ v \notin q.voices
        BY <1>1, <1>6, <1>7, <1>9, <2>8, <4>3 DEF Results
      <4> QED BY <4>3, <4>4
    <3> QED BY <2>8, <3>2, <3>3
  <2>9. SwitchSoFar(q, i, s, c, all[i][s], counts, off)
    BY <1>6, <2>3, <2>6, <2>7, <2>8 DEF SwitchSoFar
  <2> QED BY <2>1, <2>9
<1>12. ASSUME NEW v \in q.voices \ voices, v.ofNote
       PROVE  \E u \in q.started : v = VoiceOf(u)
  <2>1. CASE v \in r.voices
    BY <1>6, <1>12, <2>1 DEF SoFar, Causes
  <2>2. CASE v \in new
    <3>1. v = [layer |-> m, channel |-> c, number |-> number, ofNote |-> byNote]
      BY <1>4, <2>2
    <3>2. byNote
      BY <1>12, <3>1
    <3>3. v = VoiceOf(<<m, c, number>>) /\ <<m, c, number>> \in q.started
      BY <1>6, <3>1, <3>2 DEF VoiceOf
    <3> QED BY <3>3
  <2> QED BY <1>6, <1>12, <2>1, <2>2
<1>13. ASSUME NEW i \in DOMAIN L, NEW s \in ScopesOf(L[i]), q.all[i][s].key # all[i][s].key
       PROVE  \E k \in L[i].down \cup L[i].up : Cut(all, q.started, s, k)
  <2>1. CASE r.all[i][s].key # all[i][s].key
    <3>1. PICK k \in L[i].down \cup L[i].up : Cut(all, r.started, s, k)
      BY <2>1 DEF SoFar, Causes
    <3>2. r.started \subseteq q.started
      BY <1>6
    <3> QED BY <3>1, <3>2, CutMore
  <2>2. CASE a[i][s].key # r.all[i][s].key
    <3>1. PICK p \in lifted : s = ScopeOf(L[i], p[1]) /\ p[2] \in L[i].down \cup L[i].up
      BY <1>3, <1>7, <2>2, LiftedIs
    <3>2. PICK v \in choked : p = <<v.channel, v.number>> /\ byNote /\ v.ofNote
      BY <1>2, <3>1
    <3>3. v \in r.voices /\ Chokes(r, v, L[m], number, c) /\ (s = Omni \/ s = v.channel)
      BY <1>1, <3>1, <3>2 DEF ScopeOf
    <3>4. Cut(all, q.started, s, v.number)
      <4>1. SeenBefore(seen, all) /\ number \in Key /\ q.started = r.started \cup {<<m, c, number>>}
        BY <1>6, <3>2
      <4>2. PICK begun : begun = q.started
        OBVIOUS
      <4>3. begun = r.started \cup {<<m, c, number>>}
        BY <4>1, <4>2
      <4>4. Cut(all, begun, s, v.number)
        BY <3>2, <3>3, <4>1, <4>3, ChokesCut
      <4> QED BY <4>2, <4>4
    <3>5. v.number \in L[i].down \cup L[i].up
      BY <3>1, <3>2
    <3> QED BY <3>4, <3>5
  <2> QED BY <1>6, <1>13, <2>1, <2>2
<1>14. SoFar(q, n, c, all, counting, seen, may)
  BY <1>10, <1>11, <1>12, <1>13 DEF SoFar, Causes
<1> QED BY <1>5, <1>14

(* The layer n is passed: it has counted, and seen the controller.         *)
LEMMA PassedSoFar ==
  ASSUME instrument \in Instruments, NEW c \in Channel, NEW r, NEW n \in DOMAIN L,
         NEW all \in AllSwitches, NEW counting, NEW seen, NEW may,
         SoFar(r, n - 1, c, all, counting, seen, may),
         NEW a \in AllSwitches, \A i \in DOMAIN L : i # n => a[i] = r.all[i],
         \A s \in ScopesOf(L[n]) :
           a[n][s] = [Turned(L[n], r.all[n][s], n \in counting /\ s = ScopeOf(L[n], c))
                        EXCEPT !.off = seen[n][s]]
  PROVE  SoFar([r EXCEPT !.all = a], n, c, all, counting, seen, may)
<1>1. PICK q : q = [r EXCEPT !.all = a]
  OBVIOUS
<1>2. r \in Results(c) /\ r.started \subseteq may
  BY DEF SoFar
<1>3. q \in Results(c) /\ q.all = a /\ q.voices = r.voices /\ q.started = r.started
  BY <1>1, <1>2 DEF Results
<1>4. ASSUME NEW i \in DOMAIN L, NEW s \in ScopesOf(L[i])
      PROVE  SwitchSoFar(q, i, s, c, all[i][s], i <= n /\ i \in counting /\ s = ScopeOf(L[i], c),
                         IF i <= n THEN seen[i][s] ELSE all[i][s].off)
  <2>1. SwitchSoFar(r, i, s, c, all[i][s], i <= n - 1 /\ i \in counting /\ s = ScopeOf(L[i], c),
                    IF i <= n - 1 THEN seen[i][s] ELSE all[i][s].off)
    BY DEF SoFar
  <2>2. i \in Nat /\ n \in Nat
    BY LayersAre
  <2>3. CASE i # n
    <3>1. (i <= n) = (i <= n - 1) /\ q.all[i] = r.all[i]
      BY <1>3, <2>2, <2>3
    <3> QED BY <1>3, <2>1, <3>1 DEF SwitchSoFar
  <2>4. CASE i = n
    <3>1. PICK x, y, z : x = a[n][s] /\ y = r.all[n][s] /\ z = all[n][s]
      OBVIOUS
    <3>2. z \in Switch /\ y \in Switch /\ x \in Switch /\ L[n] \in Layer
      BY <1>2, <2>4, <3>1, AllSwitchesAre, LayersAre DEF Results
    <3>3. ~(i <= n - 1) /\ i <= n
      BY <2>2, <2>4
    <3>4. PICK counts \in BOOLEAN : counts = (n \in counting /\ s = ScopeOf(L[n], c))
      OBVIOUS
    <3>5. SwitchSoFar(r, n, s, c, z, FALSE, z.off)
      BY <2>1, <2>4, <3>1, <3>3
    <3>6. /\ y = [Turned(L[n], z, FALSE) EXCEPT !.key = y.key, !.off = z.off]
          /\ Lighter(L[n], y.key, z.key)
          /\ (L[n].restricted /\ s # c /\ y.key # z.key) => \E v \in voices \ r.voices : v.channel = s
      BY <3>1, <3>5 DEF SwitchSoFar
    <3>7. y = [z EXCEPT !.key = y.key]
      <4>1. y = [z EXCEPT !.key = y.key, !.off = z.off]
        BY ONLY <3>6, Zenon DEF Turned
      <4> QED BY ONLY <3>2, <4>1 DEF Switch
    <3>8. x = [Turned(L[n], y, counts) EXCEPT !.off = seen[n][s]]
      BY <2>4, <3>1, <3>4
    <3>9. Turned(L[n], y, counts) = [Turned(L[n], z, counts) EXCEPT !.key = y.key]
      BY <3>2, <3>7 DEF Turned, Switch
    <3>10. Turned(L[n], z, counts) \in Switch
      BY <3>2, <3>4, TurnedTyped
    <3>11. x.key = y.key /\ x = [Turned(L[n], z, counts) EXCEPT !.key = x.key, !.off = seen[n][s]]
      BY <3>2, <3>8, <3>9, <3>10 DEF Switch
    <3>12. SwitchSoFar(q, n, s, c, z, counts, seen[n][s])
      BY <1>3, <3>1, <3>6, <3>11 DEF SwitchSoFar
    <3> QED BY <2>4, <3>1, <3>3, <3>4, <3>12
  <2> QED BY <2>3, <2>4
<1>5. ASSUME NEW i \in DOMAIN L, NEW s \in ScopesOf(L[i])
      PROVE  q.all[i][s].key = r.all[i][s].key
  <2>1. CASE i # n
    BY <1>3, <2>1
  <2>2. CASE i = n
    <3>1. PICK y, counts : y = r.all[n][s] /\ counts = (n \in counting /\ s = ScopeOf(L[n], c))
      OBVIOUS
    <3>2. y \in Switch /\ L[n] \in Layer /\ counts \in BOOLEAN
      BY <1>2, <2>2, <3>1, AllSwitchesAre, LayersAre DEF Results
    <3>3. PICK t : t = Turned(L[n], y, counts)
      OBVIOUS
    <3>4. t \in Switch /\ t.key = y.key
      BY <3>2, <3>3, TurnedTyped
    <3>5. a[n][s] = [t EXCEPT !.off = seen[n][s]]
      BY <2>2, <3>1, <3>3
    <3>6. a[n][s].key = y.key
      BY <3>4, <3>5 DEF Switch
    <3> QED BY <1>3, <2>2, <3>1, <3>6
  <2> QED BY <2>1, <2>2
<1>6. Causes(q, all)
  <2>1. Causes(r, all)
    BY DEF SoFar
  <2> QED BY <1>3, <1>5, <2>1 DEF Causes
<1> QED BY <1>1, <1>2, <1>3, <1>4, <1>6 DEF SoFar

LEMMA CountedIs ==
  ASSUME NEW l \in Layer, NEW sw \in [ScopesOf(l) -> Switch], NEW s \in ScopesOf(l)
  PROVE  /\ Counted(l, sw, s) \in [ScopesOf(l) -> Switch]
         /\ \A t \in ScopesOf(l) : Counted(l, sw, s)[t] = Turned(l, sw[t], t = s)
<1>1. \A t \in ScopesOf(l) : Turned(l, sw[t], t = s) \in Switch
  BY TurnedTyped
<1>2. Counted(l, sw, s) = [t \in ScopesOf(l) |-> Turned(l, sw[t], t = s)]
  BY DEF Counted, Turned, Switch
<1> QED BY <1>1, <1>2

(* What a note does to the layers: who counts it, who may start.           *)
NoteCounting(c, k) == {i \in DOMAIN L : Hears(L[i], c) /\ k \in L[i].keys}
Offs(all) == [i \in DOMAIN L |-> [s \in ScopesOf(L[i]) |-> all[i][s].off]]
MayStart(c, k, m) ==
  {t \in (DOMAIN L) \X Channel \X Key :
     t[2] = c /\ t[3] = k /\ Hears(L[t[1]], c) /\ Triggers(L[t[1]], c, m)}
NoteStep(r, n, c, k, m) == IF k \in L[n].keys THEN RegisterNoteOn(r, n, c, k, m) ELSE r
NoteSoFar(r, n, all, c, k, m) ==
  SoFar(r, n, c, all, NoteCounting(c, k), Offs(all), MayStart(c, k, m))

LEMMA NoteStepSoFar ==
  ASSUME instrument \in Instruments, voices \subseteq VoiceType, NEW c \in Channel, NEW k \in Key, NEW r, NEW n \in DOMAIN L,
         NEW all \in AllSwitches, NEW m, NoteSoFar(r, n - 1, all, c, k, m)
  PROVE  NoteSoFar(NoteStep(r, n, c, k, m), n, all, c, k, m)
<1>1. SoFar(r, n - 1, c, all, NoteCounting(c, k), Offs(all), MayStart(c, k, m))
  BY DEF NoteSoFar
<1>2. r \in Results(c) /\ r.all \in AllSwitches /\ L[n] \in Layer
  BY <1>1, LayersAre DEF SoFar, Results
<1>3. ASSUME NEW s \in ScopesOf(L[n])
      PROVE  /\ r.all[n][s] \in Switch /\ r.all[n][s].off = Offs(all)[n][s]
             /\ [r.all[n][s] EXCEPT !.off = Offs(all)[n][s]] = r.all[n][s]
  <2>1. SwitchSoFar(r, n, s, c, all[n][s], n <= n - 1 /\ n \in NoteCounting(c, k) /\ s = ScopeOf(L[n], c),
                    IF n <= n - 1 THEN Offs(all)[n][s] ELSE all[n][s].off)
    BY <1>1 DEF SoFar
  <2>2. ~(n <= n - 1)
    BY LayersAre
  <2>3. SwitchSoFar(r, n, s, c, all[n][s], FALSE, all[n][s].off)
    BY <2>1, <2>2
  <2>4. r.all[n][s] \in Switch /\ all[n][s] \in Switch
    BY <1>2, AllSwitchesAre
  <2>5. r.all[n][s].off = all[n][s].off
    BY <2>3, <2>4 DEF SwitchSoFar, Turned, Switch
  <2>6. all[n][s].off = Offs(all)[n][s]
    BY DEF Offs
  <2> QED BY <2>4, <2>5, <2>6 DEF Switch
<1>4. CASE n \notin NoteCounting(c, k)
  <2>1. NoteStep(r, n, c, k, m) = r
    BY <1>4 DEF NoteStep, RegisterNoteOn, NoteCounting
  <2>2. \A s \in ScopesOf(L[n]) :
          r.all[n][s] = [Turned(L[n], r.all[n][s], n \in NoteCounting(c, k) /\ s = ScopeOf(L[n], c))
                           EXCEPT !.off = Offs(all)[n][s]]
    BY <1>3, <1>4 DEF Turned
  <2>3. r = [r EXCEPT !.all = r.all]
    BY <1>2 DEF Results
  <2>4. SoFar([r EXCEPT !.all = r.all], n, c, all, NoteCounting(c, k), Offs(all), MayStart(c, k, m))
    BY <1>1, <1>2, <2>2, PassedSoFar
  <2> QED BY <2>1, <2>3, <2>4 DEF NoteSoFar
<1>5. CASE n \in NoteCounting(c, k)
  <2>1. PICK a : a = NoteCounted(r.all, n, c, m)
    OBVIOUS
  <2>2. Hears(L[n], c) /\ k \in L[n].keys /\ ScopeOf(L[n], c) \in ScopesOf(L[n])
    BY <1>2, <1>5, ScopesAre DEF NoteCounting
  <2>3. r.all[n] \in [ScopesOf(L[n]) -> Switch]
    BY <1>2, AllSwitchesAre
  <2>4. /\ Counted(L[n], r.all[n], ScopeOf(L[n], c)) \in [ScopesOf(L[n]) -> Switch]
        /\ \A s \in ScopesOf(L[n]) :
             Counted(L[n], r.all[n], ScopeOf(L[n], c))[s] = Turned(L[n], r.all[n][s], s = ScopeOf(L[n], c))
    BY <1>2, <2>2, <2>3, CountedIs
  <2>5. a = [r.all EXCEPT ![n] = Counted(L[n], r.all[n], ScopeOf(L[n], c))]
    BY <2>1 DEF NoteCounted
  <2>6. /\ a \in AllSwitches /\ a[n] = Counted(L[n], r.all[n], ScopeOf(L[n], c))
        /\ \A i \in DOMAIN L : i # n => a[i] = r.all[i]
    <3>1. PICK sw : sw = Counted(L[n], r.all[n], ScopeOf(L[n], c))
      OBVIOUS
    <3>2. sw \in SwitchesOf(L[n]) /\ a = Replaced(r.all, n, sw)
      BY <2>4, <2>5, <3>1 DEF SwitchesOf, Replaced
    <3> QED BY <1>2, <3>1, <3>2, SwitchesExcept
  <2>7. \A s \in ScopesOf(L[n]) :
          a[n][s] = [Turned(L[n], r.all[n][s], n \in NoteCounting(c, k) /\ s = ScopeOf(L[n], c))
                       EXCEPT !.off = Offs(all)[n][s]]
    <3> SUFFICES ASSUME NEW s \in ScopesOf(L[n])
                 PROVE  a[n][s] = [Turned(L[n], r.all[n][s], n \in NoteCounting(c, k) /\ s = ScopeOf(L[n], c))
                                     EXCEPT !.off = Offs(all)[n][s]]
      OBVIOUS
    <3>1. PICK f : f = Turned(L[n], r.all[n][s], s = ScopeOf(L[n], c))
      OBVIOUS
    <3>2. f \in Switch /\ f.off = Offs(all)[n][s]
      BY <1>2, <1>3, <3>1, TurnedTyped
    <3>3. a[n][s] = f /\ f = [f EXCEPT !.off = Offs(all)[n][s]]
      BY <2>4, <2>6, <3>1, <3>2 DEF Switch
    <3> QED BY <1>5, <3>1, <3>3
  <2>8. SoFar([r EXCEPT !.all = a], n, c, all, NoteCounting(c, k), Offs(all), MayStart(c, k, m))
    BY <1>1, <2>6, <2>7, PassedSoFar
  <2>9. PICK q : q = [r EXCEPT !.all = a]
    OBVIOUS
  <2>10. \/ NoteStep(r, n, c, k, m) = q
         \/ NoteStep(r, n, c, k, m) = Start(q, n, k, c, TRUE) /\ Triggers(L[n], c, m)
    BY <2>1, <2>2, <2>9 DEF NoteStep, RegisterNoteOn
  <2>11. /\ Triggers(L[n], c, m) => <<n, c, k>> \in MayStart(c, k, m)
         /\ SeenBefore(Offs(all), all)
    BY <2>2 DEF MayStart, SeenBefore, Offs
  <2>12. Triggers(L[n], c, m) =>
           SoFar(Start(q, n, k, c, TRUE), n, c, all, NoteCounting(c, k), Offs(all), MayStart(c, k, m))
    BY <2>2, <2>8, <2>9, <2>11, StartSoFar
  <2> QED BY <2>8, <2>9, <2>10, <2>12 DEF NoteSoFar
<1> QED BY <1>4, <1>5

(* What a controller does to the layers: who counts it, what they note.    *)
CCCounting(c, x, v, k) ==
  {i \in DOMAIN L : Hears(L[i], c) /\ v \in L[i].triggers[x] /\ (x = PolyCC => k \in L[i].keys)}
InReach(l, c, scoped) == IF l.restricted /\ scoped THEN {c} \cap l.channels ELSE ScopesOf(l)
OffAfter(l, off, x, v) == IF v \in l.conditions[x] THEN off \ {x} ELSE off \cup {x}
CCOffs(all, c, x, v, scoped) ==
  [i \in DOMAIN L |-> [s \in ScopesOf(L[i]) |->
     IF s \in InReach(L[i], c, scoped) THEN OffAfter(L[i], all[i][s].off, x, v) ELSE all[i][s].off]]
CCSoFar(r, n, all, c, x, v, scoped, k) ==
  SoFar(r, n, c, all, CCCounting(c, x, v, k), CCOffs(all, c, x, v, scoped), {})

LEMMA CCStepSoFar ==
  ASSUME instrument \in Instruments, voices \subseteq VoiceType, NEW c \in Channel, NEW k, NEW r, NEW n \in DOMAIN L,
         NEW x \in AnyControl, NEW v, NEW scoped \in BOOLEAN,
         NEW all \in AllSwitches, NEW m, CCSoFar(r, n - 1, all, c, x, v, scoped, k)
  PROVE  CCSoFar(RegisterCC(r, n, c, x, v, scoped, k, m), n, all, c, x, v, scoped, k)
<1> DEFINE offs == CCOffs(all, c, x, v, scoped)
           counting == CCCounting(c, x, v, k)
<1>1. SoFar(r, n - 1, c, all, counting, offs, {})
  BY DEF CCSoFar
<1>2. r \in Results(c) /\ r.all \in AllSwitches /\ L[n] \in Layer
  BY <1>1, LayersAre DEF SoFar, Results
<1>3. PICK sw : sw = ControlSeen(L[n], r.all[n], InReach(L[n], c, scoped), x, v)
  OBVIOUS
<1>4. ASSUME NEW s \in ScopesOf(L[n])
      PROVE  /\ r.all[n][s] \in Switch /\ sw[s] \in Switch
             /\ sw[s] = [r.all[n][s] EXCEPT !.off = offs[n][s]]
  <2>1. SwitchSoFar(r, n, s, c, all[n][s], n <= n - 1 /\ n \in counting /\ s = ScopeOf(L[n], c),
                    IF n <= n - 1 THEN offs[n][s] ELSE all[n][s].off)
    BY <1>1 DEF SoFar
  <2>2. ~(n <= n - 1)
    BY LayersAre
  <2>3. SwitchSoFar(r, n, s, c, all[n][s], FALSE, all[n][s].off)
    BY <2>1, <2>2
  <2>4. r.all[n][s] \in Switch /\ all[n][s] \in Switch /\ s \in DOMAIN r.all[n]
    BY <1>2, AllSwitchesAre
  <2>5. r.all[n][s].off = all[n][s].off
    BY <2>3, <2>4 DEF SwitchSoFar, Turned, Switch
  <2>6. offs[n][s] = IF s \in InReach(L[n], c, scoped) THEN OffAfter(L[n], r.all[n][s].off, x, v)
                     ELSE r.all[n][s].off
    BY <2>5 DEF CCOffs
  <2>7. sw[s] = [r.all[n][s] EXCEPT !.off = offs[n][s]]
    BY <1>3, <2>4, <2>6 DEF ControlSeen, OffAfter, Switch
  <2>8. offs[n][s] \in SUBSET AnyControl
    BY <2>4, <2>6 DEF OffAfter, Switch
  <2> QED BY <2>4, <2>7, <2>8 DEF Switch
<1>5. sw \in [ScopesOf(L[n]) -> Switch]
  <2>1. sw = [s \in ScopesOf(L[n]) |-> sw[s]]
    BY <1>2, <1>3, AllSwitchesAre DEF ControlSeen
  <2> QED BY <1>4, <2>1
<1>6. PICK seen : seen = [r.all EXCEPT ![n] = sw]
  OBVIOUS
<1>7. seen \in AllSwitches /\ seen[n] = sw /\ \A i \in DOMAIN L : i # n => seen[i] = r.all[i]
  <2>1. sw \in SwitchesOf(L[n]) /\ seen = Replaced(r.all, n, sw)
    BY <1>5, <1>6 DEF SwitchesOf, Replaced
  <2> QED BY <1>2, <2>1, SwitchesExcept
<1>8. seen = [r.all EXCEPT ![n] = ControlSeen(L[n], @, InReach(L[n], c, scoped), x, v)]
  BY <1>2, <1>3, <1>6
<1>9. CASE n \notin counting
  <2>1. RegisterCC(r, n, c, x, v, scoped, k, m) = [r EXCEPT !.all = seen]
    BY <1>8, <1>9 DEF RegisterCC, InReach, CCCounting
  <2>2. \A s \in ScopesOf(L[n]) :
          seen[n][s] = [Turned(L[n], r.all[n][s], n \in counting /\ s = ScopeOf(L[n], c))
                          EXCEPT !.off = offs[n][s]]
    <3> HIDE DEF counting, offs
    <3> QED BY <1>4, <1>7, <1>9 DEF Turned
  <2>3. SoFar([r EXCEPT !.all = seen], n, c, all, counting, offs, {})
    <3> HIDE DEF counting, offs
    <3> QED BY <1>1, <1>2, <1>7, <2>2, PassedSoFar
  <2> QED BY <2>1, <2>3 DEF CCSoFar
<1>10. CASE n \in counting
  <2>1. Hears(L[n], c) /\ ScopeOf(L[n], c) \in ScopesOf(L[n])
    BY <1>2, <1>10, ScopesAre DEF CCCounting
  <2>2. PICK tw : tw = Counted(L[n], sw, ScopeOf(L[n], c))
    OBVIOUS
  <2>3. /\ tw \in [ScopesOf(L[n]) -> Switch]
        /\ \A s \in ScopesOf(L[n]) : tw[s] = Turned(L[n], sw[s], s = ScopeOf(L[n], c))
    BY <1>2, <1>5, <2>1, <2>2, CountedIs
  <2>4. PICK a : a = [seen EXCEPT ![n] = tw]
    OBVIOUS
  <2>5. /\ a \in AllSwitches /\ a[n] = tw
        /\ \A i \in DOMAIN L : i # n => a[i] = r.all[i]
    <3>1. tw \in SwitchesOf(L[n]) /\ a = Replaced(seen, n, tw)
      BY <2>3, <2>4 DEF SwitchesOf, Replaced
    <3>2. a \in AllSwitches /\ a[n] = tw /\ \A i \in DOMAIN L : i # n => a[i] = seen[i]
      BY <1>7, <3>1, SwitchesExcept
    <3> QED BY <1>7, <3>2
  <2>6. ASSUME NEW s \in ScopesOf(L[n])
        PROVE  a[n][s] = [Turned(L[n], r.all[n][s], n \in counting /\ s = ScopeOf(L[n], c))
                            EXCEPT !.off = offs[n][s]]
    <3>1. PICK y, z, counts : /\ y = r.all[n][s] /\ z = offs[n][s]
                              /\ counts = (s = ScopeOf(L[n], c))
      OBVIOUS
    <3>2. y \in Switch /\ sw[s] = [y EXCEPT !.off = z]
      BY <1>4, <3>1
    <3>3. a[n][s] = Turned(L[n], [y EXCEPT !.off = z], counts)
      BY <2>3, <2>5, <3>1, <3>2
    <3>4. Turned(L[n], [y EXCEPT !.off = z], counts) = [Turned(L[n], y, counts) EXCEPT !.off = z]
      BY <3>2 DEF Turned, Switch
    <3>5. (n \in counting /\ s = ScopeOf(L[n], c)) = counts
      BY <1>10, <3>1
    <3> HIDE DEF counting, offs
    <3> QED BY <3>1, <3>3, <3>4, <3>5
  <2>7. SoFar([r EXCEPT !.all = a], n, c, all, counting, offs, {})
    <3> HIDE DEF counting, offs
    <3> QED BY <1>1, <1>2, <2>5, <2>6, PassedSoFar
  <2>8. PICK q : q = [r EXCEPT !.all = a]
    OBVIOUS
  <2>9. a = [seen EXCEPT ![n] = Counted(L[n], @, ScopeOf(L[n], c))]
    BY <1>2, <1>6, <1>7, <2>2, <2>4, AllSwitchesAre
  <2>10. \/ RegisterCC(r, n, c, x, v, scoped, k, m) = q
         \/ RegisterCC(r, n, c, x, v, scoped, k, m) = Start(q, n, x, c, FALSE)
    BY <1>8, <1>10, <2>8, <2>9 DEF RegisterCC, InReach, CCCounting
  <2>11. SoFar(Start(q, n, x, c, FALSE), n, c, all, counting, offs, {})
    <3> HIDE DEF counting, offs
    <3> QED BY <2>1, <2>7, <2>8, StartSoFar
  <2> QED BY <2>7, <2>8, <2>10, <2>11 DEF CCSoFar
<1> QED BY <1>9, <1>10

-----------------------------------------------------------------------------
(* Recursion over the layers.                                              *)

LEMMA Upward ==
  ASSUME NEW N \in Nat, NEW B, 0 \in B, \A n \in 1 .. N : n - 1 \in B => n \in B
  PROVE  \A n \in 0 .. N : n \in B
<1> DEFINE Bad == {n \in 0 .. N : n \notin B}
<1>1. SUFFICES ASSUME Bad # {} PROVE FALSE
  OBVIOUS
<1>2. PICK x \in Bad : \A y \in Bad : ~(<<y, x>> \in OpToRel(<, Nat))
  <2>1. Bad \subseteq Nat
    OBVIOUS
  <2> HIDE DEF Bad
  <2> QED BY <1>1, <2>1, NatLessThanWellFounded, WFMin
<1>3. x \in 1 .. N /\ x - 1 \in 0 .. N /\ x \in Nat /\ x - 1 \in Nat /\ x - 1 < x
  <2>1. x \in 0 .. N /\ x \notin B
    BY <1>2
  <2>2. x # 0
    BY <2>1
  <2> QED BY <2>1, <2>2
<1>4. <<x - 1, x>> \in OpToRel(<, Nat)
  BY <1>3 DEF OpToRel
<1>5. x - 1 \in B
  BY <1>2, <1>3, <1>4
<1> QED BY <1>2, <1>3, <1>5

(* A function that starts at a and moves by the steps F.                   *)
IsRun(g, N, S, a, F) ==
  g \in [0 .. N -> S] /\ g[0] = a /\ \A n \in 1 .. N : g[n] = F[n][g[n - 1]]

LEMMA Recursion ==
  ASSUME NEW N \in Nat, NEW S, NEW a \in S, NEW F \in [1 .. N -> [S -> S]]
  PROVE  \E g : IsRun(g, N, S, a, F)
<1> DEFINE Run(g, n) == /\ g \in [0 .. n -> S] /\ g[0] = a
                        /\ \A m \in 1 .. n : g[m] = F[m][g[m - 1]]
           Done == {n \in 0 .. N : \E g : Run(g, n)}
<1>1. 0 \in Done
  <2>1. PICK g : g = [m \in 0 .. 0 |-> a]
    OBVIOUS
  <2>2. Run(g, 0)
    BY <2>1
  <2> QED BY <2>2
<1>2. ASSUME NEW n \in 1 .. N, n - 1 \in Done PROVE n \in Done
  <2>1. PICK g : Run(g, n - 1)
    BY <1>2
  <2>2. PICK h : h = [m \in 0 .. n |-> IF m = n THEN F[n][g[n - 1]] ELSE g[m]]
    OBVIOUS
  <2>3. n - 1 \in 0 .. n - 1 /\ n \in Nat
    OBVIOUS
  <2>4. g[n - 1] \in S /\ F[n] \in [S -> S] /\ F[n][g[n - 1]] \in S
    BY <2>1, <2>3
  <2>5. h \in [0 .. n -> S]
    <3>1. ASSUME NEW m \in 0 .. n, m # n PROVE g[m] \in S
      <4>1. m \in 0 .. n - 1
        BY <2>3, <3>1
      <4> QED BY <2>1, <4>1
    <3> QED BY <2>2, <2>4, <3>1
  <2>6. h[0] = a
    BY <2>1, <2>2, <2>3
  <2>7. ASSUME NEW m \in 1 .. n PROVE h[m] = F[m][h[m - 1]]
    <3>1. m \in 0 .. n /\ m - 1 \in 0 .. n /\ m - 1 # n /\ h[m - 1] = g[m - 1]
      BY <2>2, <2>3
    <3>2. CASE m = n
      BY <2>2, <3>1, <3>2
    <3>3. CASE m # n
      <4>1. m \in 1 .. n - 1 /\ h[m] = g[m]
        BY <2>2, <2>3, <3>1, <3>3
      <4> QED BY <2>1, <3>1, <4>1
    <3> QED BY <3>2, <3>3
  <2>8. Run(h, n)
    BY <2>5, <2>6, <2>7
  <2>9. n \in 0 .. N
    OBVIOUS
  <2> HIDE DEF Run
  <2> QED BY <2>8, <2>9
<1>3. N \in Done
  <2>1. \A n \in 0 .. N : n \in Done
    <3> HIDE DEF Done
    <3> QED BY <1>1, <1>2, Upward
  <2> QED BY <2>1
<1>4. PICK g : Run(g, N)
  BY <1>3
<1>5. IsRun(g, N, S, a, F)
  BY <1>4 DEF IsRun
<1> QED BY <1>5

(* Steps that lead from pairs in Q to pairs in Q can all be taken.         *)
Leads(N, Q, U, F) ==
  \A n \in 1 .. N : \A r \in U : <<n - 1, r>> \in Q => F[n][r] \in U /\ <<n, F[n][r]>> \in Q
Passes(g, N, Q, U, a, F) ==
  /\ g = [n \in 0 .. N |-> IF n = 0 THEN a ELSE F[n][g[n - 1]]]
  /\ \A n \in 0 .. N : g[n] \in U /\ <<n, g[n]>> \in Q

LEMMA Passing ==
  ASSUME NEW N \in Nat, NEW Q, NEW U, NEW a \in U, <<0, a>> \in Q, NEW F, Leads(N, Q, U, F)
  PROVE  \E g : Passes(g, N, Q, U, a, F)
<1> DEFINE G == [n \in 1 .. N |-> [r \in U |-> IF <<n - 1, r>> \in Q THEN F[n][r] ELSE a]]
<1>1. G \in [1 .. N -> [U -> U]]
  BY DEF Leads
<1>2. PICK g : IsRun(g, N, U, a, G)
  <2> HIDE DEF G
  <2> QED BY <1>1, Recursion
<1>3. g \in [0 .. N -> U] /\ g[0] = a /\ \A n \in 1 .. N : g[n] = G[n][g[n - 1]]
  BY <1>2 DEF IsRun
<1> DEFINE Right == {n \in 0 .. N : <<n, g[n]>> \in Q}
<1>4. 0 \in Right
  BY <1>3
<1>5. ASSUME NEW n \in 1 .. N, n - 1 \in Right
      PROVE  n \in Right /\ g[n] = F[n][g[n - 1]]
  <2>1. n - 1 \in 0 .. N /\ n \in 0 .. N /\ g[n - 1] \in U
    BY <1>3
  <2>2. <<n - 1, g[n - 1]>> \in Q
    BY <1>5
  <2>3. g[n] = F[n][g[n - 1]]
    BY <1>3, <2>1, <2>2 DEF Leads
  <2>4. <<n, g[n]>> \in Q
    BY <2>1, <2>2, <2>3 DEF Leads
  <2> QED BY <2>1, <2>3, <2>4
<1>6. \A n \in 0 .. N : n \in Right
  <2> HIDE DEF Right
  <2> QED BY <1>4, <1>5, Upward
<1>7. ASSUME NEW n \in 0 .. N PROVE g[n] = IF n = 0 THEN a ELSE F[n][g[n - 1]]
  <2>1. n # 0 => n \in 1 .. N /\ n - 1 \in 0 .. N
    OBVIOUS
  <2> HIDE DEF Right
  <2> QED BY <1>3, <1>5, <1>6, <2>1
<1>8. g = [n \in 0 .. N |-> IF n = 0 THEN a ELSE F[n][g[n - 1]]]
  BY <1>3, <1>7
<1>9. Passes(g, N, Q, U, a, F)
  BY <1>3, <1>6, <1>8 DEF Passes
<1> QED BY <1>9

Fresh(all) == [all |-> all, voices |-> voices, started |-> {}]

LEMMA FreshSoFar ==
  ASSUME instrument \in Instruments, NEW c \in Channel, NEW all \in AllSwitches,
         NEW counting, NEW seen, NEW may
  PROVE  SoFar(Fresh(all), 0, c, all, counting, seen, may)
<1>1. PICK r : r = Fresh(all)
  OBVIOUS
<1>2. r.all = all /\ r.voices = voices /\ r.started = {} /\ r \in Results(c)
  BY <1>1 DEF Fresh, Results
<1>3. ASSUME NEW i \in DOMAIN L, NEW s \in ScopesOf(L[i])
      PROVE  SwitchSoFar(r, i, s, c, all[i][s], i <= 0 /\ i \in counting /\ s = ScopeOf(L[i], c),
                         IF i <= 0 THEN seen[i][s] ELSE all[i][s].off)
  <2>1. ~(i <= 0)
    BY LayersAre
  <2>2. all[i][s] \in Switch
    BY AllSwitchesAre
  <2>3. SwitchSoFar(r, i, s, c, all[i][s], FALSE, all[i][s].off)
    BY <1>2, <2>2 DEF SwitchSoFar, Turned, Lighter, Switch
  <2> QED BY <2>1, <2>3
<1>4. Causes(r, all)
  BY <1>2 DEF Causes
<1> QED BY <1>1, <1>2, <1>3, <1>4 DEF SoFar

(* The dispatch of a note has passed all layers.                           *)
LEMMA NoteDispatched ==
  ASSUME instrument \in Instruments, voices \subseteq VoiceType, NEW c \in Channel, NEW k \in Key, NEW m,
         NEW all \in AllSwitches
  PROVE  NoteSoFar(NoteOnDispatch(all, c, k, m), Len(L), all, c, k, m)
<1>1. PICK N : N = Len(L)
  OBVIOUS
<1>2. N \in Nat /\ DOMAIN L = 1 .. N
  BY <1>1, LayersAre
<1> DEFINE Step(n, r) == IF k \in L[n].keys THEN RegisterNoteOn(r, n, c, k, m) ELSE r
           Equation(g) == g = [n \in 0 .. N |-> IF n = 0 THEN Fresh(all) ELSE Step(n, g[n - 1])]
<1>3. NoteSoFar(Fresh(all), 0, all, c, k, m)
  BY FreshSoFar DEF NoteSoFar
<1>4. \E g : Equation(g)
  <2> DEFINE U == Results(c)
             Q == {p \in (0 .. N) \X U : NoteSoFar(p[2], p[1], all, c, k, m)}
             F == [n \in 1 .. N |-> [r \in U |-> Step(n, r)]]
  <2>1. \A n : \A r : NoteSoFar(r, n, all, c, k, m) => r \in U
    BY DEF NoteSoFar, SoFar
  <2>2. Fresh(all) \in U /\ <<0, Fresh(all)>> \in Q
    BY <1>2, <1>3, <2>1
  <2>3. ASSUME NEW n \in 1 .. N, NEW r \in U, <<n - 1, r>> \in Q
        PROVE  F[n][r] \in U /\ <<n, F[n][r]>> \in Q
    <3>1. NoteSoFar(NoteStep(r, n, c, k, m), n, all, c, k, m)
      BY <1>2, <2>3, NoteStepSoFar
    <3>2. NoteStep(r, n, c, k, m) = F[n][r]
      BY DEF NoteStep
    <3>3. n \in 0 .. N
      BY <1>2
    <3> HIDE DEF F
    <3> QED BY <2>1, <3>1, <3>2, <3>3
  <2>4. PICK g : Passes(g, N, Q, U, Fresh(all), F)
    <3> HIDE DEF F, Q, U
    <3>1. Leads(N, Q, U, F)
      BY <2>3 DEF Leads
    <3> QED BY <1>2, <2>2, <3>1, Passing
  <2>5. ASSUME NEW n \in 0 .. N, n # 0 PROVE F[n][g[n - 1]] = Step(n, g[n - 1])
    <3>1. n \in 1 .. N /\ n - 1 \in 0 .. N /\ g[n - 1] \in U
      <4>1. n \in 1 .. N /\ n - 1 \in 0 .. N
        BY <1>2, <2>5
      <4>2. \A i \in 0 .. N : g[i] \in U
        <5> HIDE DEF F, Q, U
        <5> QED BY <2>4 DEF Passes
      <4> QED BY <4>1, <4>2
    <3> HIDE DEF U, Step
    <3> QED BY <3>1
  <2>6. Equation(g)
    <3> HIDE DEF F, Step, Q, U
    <3> QED BY <2>4, <2>5 DEF Passes
  <2> HIDE DEF Equation
  <2> QED BY <2>6
<1>5. PICK w : w = CHOOSE g : Equation(g)
  OBVIOUS
<1>6. Equation(w)
  <2> HIDE DEF Equation
  <2> QED BY <1>4, <1>5
<1>7. NoteOnDispatch(all, c, k, m) = w[N]
  BY <1>1, <1>5 DEF NoteOnDispatch, Fresh
<1> DEFINE Right == {n \in 0 .. N : NoteSoFar(w[n], n, all, c, k, m)}
<1>8. 0 \in Right
  BY <1>2, <1>3, <1>6
<1>9. ASSUME NEW n \in 1 .. N, n - 1 \in Right PROVE n \in Right
  <2>1. w[n] = NoteStep(w[n - 1], n, c, k, m)
    BY <1>2, <1>6 DEF NoteStep
  <2>2. NoteSoFar(w[n - 1], n - 1, all, c, k, m)
    BY <1>9
  <2>3. NoteSoFar(w[n], n, all, c, k, m)
    <3> HIDE DEF Equation
    <3> QED BY <1>2, <2>1, <2>2, NoteStepSoFar
  <2> QED BY <2>3
<1>10. N \in Right
  <2>1. \A n \in 0 .. N : n \in Right
    <3> HIDE DEF Right
    <3> QED BY <1>2, <1>8, <1>9, Upward
  <2> QED BY <1>2, <2>1
<1> QED BY <1>1, <1>7, <1>10

(* The dispatch of a controller has passed all layers.                      *)
LEMMA CCDispatched ==
  ASSUME instrument \in Instruments, voices \subseteq VoiceType, NEW c \in Channel, NEW k, NEW m,
         NEW x \in AnyControl, NEW v, NEW scoped \in BOOLEAN, NEW all \in AllSwitches
  PROVE  CCSoFar(CCDispatch(all, c, x, v, scoped, k, m), Len(L), all, c, x, v, scoped, k)
<1>1. PICK N : N = Len(L)
  OBVIOUS
<1>2. N \in Nat /\ DOMAIN L = 1 .. N
  BY <1>1, LayersAre
<1> DEFINE Step(n, r) == RegisterCC(r, n, c, x, v, scoped, k, m)
           Equation(g) == g = [n \in 0 .. N |-> IF n = 0 THEN Fresh(all) ELSE Step(n, g[n - 1])]
<1>3. CCSoFar(Fresh(all), 0, all, c, x, v, scoped, k)
  BY FreshSoFar DEF CCSoFar
<1>4. \E g : Equation(g)
  <2> DEFINE U == Results(c)
             Q == {p \in (0 .. N) \X U : CCSoFar(p[2], p[1], all, c, x, v, scoped, k)}
             F == [n \in 1 .. N |-> [r \in U |-> Step(n, r)]]
  <2>1. \A n : \A r : CCSoFar(r, n, all, c, x, v, scoped, k) => r \in U
    BY DEF CCSoFar, SoFar
  <2>2. Fresh(all) \in U /\ <<0, Fresh(all)>> \in Q
    BY <1>2, <1>3, <2>1
  <2>3. ASSUME NEW n \in 1 .. N, NEW r \in U, <<n - 1, r>> \in Q
        PROVE  F[n][r] \in U /\ <<n, F[n][r]>> \in Q
    <3>1. CCSoFar(RegisterCC(r, n, c, x, v, scoped, k, m), n, all, c, x, v, scoped, k)
      BY <1>2, <2>3, CCStepSoFar
    <3>2. RegisterCC(r, n, c, x, v, scoped, k, m) = F[n][r]
      OBVIOUS
    <3>3. n \in 0 .. N
      BY <1>2
    <3> HIDE DEF F
    <3> QED BY <2>1, <3>1, <3>2, <3>3
  <2>4. PICK g : Passes(g, N, Q, U, Fresh(all), F)
    <3> HIDE DEF F, Q, U
    <3>1. Leads(N, Q, U, F)
      BY <2>3 DEF Leads
    <3> QED BY <1>2, <2>2, <3>1, Passing
  <2>5. ASSUME NEW n \in 0 .. N, n # 0 PROVE F[n][g[n - 1]] = Step(n, g[n - 1])
    <3>1. n \in 1 .. N /\ n - 1 \in 0 .. N /\ g[n - 1] \in U
      <4>1. n \in 1 .. N /\ n - 1 \in 0 .. N
        BY <1>2, <2>5
      <4>2. \A i \in 0 .. N : g[i] \in U
        <5> HIDE DEF F, Q, U
        <5> QED BY <2>4 DEF Passes
      <4> QED BY <4>1, <4>2
    <3> HIDE DEF U, Step
    <3> QED BY <3>1
  <2>6. Equation(g)
    <3> HIDE DEF F, Step, Q, U
    <3> QED BY <2>4, <2>5 DEF Passes
  <2> HIDE DEF Equation
  <2> QED BY <2>6
<1>5. PICK w : w = CHOOSE g : Equation(g)
  OBVIOUS
<1>6. Equation(w)
  <2> HIDE DEF Equation
  <2> QED BY <1>4, <1>5
<1>7. CCDispatch(all, c, x, v, scoped, k, m) = w[N]
  BY <1>1, <1>5 DEF CCDispatch, Fresh
<1> DEFINE Right == {n \in 0 .. N : CCSoFar(w[n], n, all, c, x, v, scoped, k)}
<1>8. 0 \in Right
  BY <1>2, <1>3, <1>6
<1>9. ASSUME NEW n \in 1 .. N, n - 1 \in Right PROVE n \in Right
  <2>1. w[n] = RegisterCC(w[n - 1], n, c, x, v, scoped, k, m)
    BY <1>2, <1>6
  <2>2. CCSoFar(w[n - 1], n - 1, all, c, x, v, scoped, k)
    BY <1>9
  <2>3. CCSoFar(w[n], n, all, c, x, v, scoped, k)
    <3> HIDE DEF Equation
    <3> QED BY <1>2, <2>1, <2>2, CCStepSoFar
  <2> QED BY <2>3
<1>10. N \in Right
  <2>1. \A n \in 0 .. N : n \in Right
    <3> HIDE DEF Right
    <3> QED BY <1>2, <1>8, <1>9, Upward
  <2> QED BY <1>2, <2>1
<1> QED BY <1>1, <1>7, <1>10

-----------------------------------------------------------------------------
(* The switches after a message.                                           *)

Became(l, f, counts, key, off) == [Turned(l, f, counts) EXCEPT !.key = key, !.off = off]
WithPrevious(f, b) == [f EXCEPT !.previous = b]

LEMMA WithTyped ==
  ASSUME NEW f \in Switch, NEW b \in BOOLEAN
  PROVE  WithKey(f, b) \in Switch /\ WithPrevious(f, b) \in Switch
BY DEF WithKey, WithPrevious, Switch

LEMMA ScopeTurned ==
  ASSUME instrument \in Instruments, NEW i \in DOMAIN L, NEW f \in Switch, NEW g,
         NEW counts \in BOOLEAN, NEW key, NEW off,
         g = Became(L[i], f, counts, key, off)
  PROVE  /\ g.key = key /\ g.off = off /\ g.previous = f.previous
         /\ g.wheel = f.wheel /\ g.pressure = f.pressure /\ g.program = f.program
         /\ g.counter = CounterAfter(L[i], f, counts)
         /\ g.sequence = SequenceAfter(L[i], f, counts)
<1>1. PICK t : t = Turned(L[i], f, counts)
  OBVIOUS
<1>2. /\ t \in Switch /\ t.previous = f.previous /\ t.wheel = f.wheel
      /\ t.pressure = f.pressure /\ t.program = f.program
      /\ t.counter = CounterAfter(L[i], f, counts) /\ t.sequence = SequenceAfter(L[i], f, counts)
  BY <1>1, LayersAre, TurnedTyped
<1> QED BY <1>1, <1>2 DEF Switch, Became

(* Switches whose key chokes have lightened, and nothing else but what     *)
(* counts and what controllers say.                                        *)
Passed(new, old, l, s, c, counts) ==
  /\ new.previous = old.previous
  /\ new.wheel = old.wheel /\ new.pressure = old.pressure /\ new.program = old.program
  /\ new.counter = CounterAfter(l, old, counts)
  /\ new.sequence = SequenceAfter(l, old, counts)

ChokedElsewhere(l, s, c, new, old) ==
  (l.restricted /\ s # c /\ new # old) => \E v \in voices \ voices' : v.channel = s

PassedAt(new, old, off, i, s, c, counting) ==
  /\ new.off = off
  /\ Passed(new, old, L[i], s, c, i \in counting /\ s = ScopeOf(L[i], c))
  /\ Lighter(L[i], new.key, old.key)
  /\ ChokedElsewhere(L[i], s, c, new.key, old.key)

LEMMA PassedAll ==
  ASSUME instrument \in Instruments, NEW c \in Channel, NEW r, NEW all \in AllSwitches,
         NEW counting, NEW seen, NEW may, SoFar(r, Len(L), c, all, counting, seen, may),
         voices' = r.voices, NEW i \in DOMAIN L, NEW s \in ScopesOf(L[i])
  PROVE  PassedAt(r.all[i][s], all[i][s], seen[i][s], i, s, c, counting)
<1>1. i <= Len(L)
  BY LayersAre
<1>2. PICK counts : counts = (i \in counting /\ s = ScopeOf(L[i], c))
  OBVIOUS
<1>3. SwitchSoFar(r, i, s, c, all[i][s], counts, seen[i][s])
  <2>1. SwitchSoFar(r, i, s, c, all[i][s], i <= Len(L) /\ i \in counting /\ s = ScopeOf(L[i], c),
                    IF i <= Len(L) THEN seen[i][s] ELSE all[i][s].off)
    BY DEF SoFar
  <2>2. (i <= Len(L) /\ i \in counting /\ s = ScopeOf(L[i], c)) = counts
    BY <1>1, <1>2
  <2>3. (IF i <= Len(L) THEN seen[i][s] ELSE all[i][s].off) = seen[i][s]
    BY <1>1
  <2> QED BY <2>1, <2>2, <2>3
<1>4. PICK x, y : x = r.all[i][s] /\ y = all[i][s]
  OBVIOUS
<1>5. y \in Switch
  BY <1>4, AllSwitchesAre
<1>6. /\ x = [Turned(L[i], y, counts) EXCEPT !.key = x.key, !.off = seen[i][s]]
      /\ Lighter(L[i], x.key, y.key)
      /\ (L[i].restricted /\ s # c /\ x.key # y.key) => \E v \in voices \ r.voices : v.channel = s
  BY <1>3, <1>4 DEF SwitchSoFar
<1>7. counts \in BOOLEAN
  BY <1>2
<1>8. x.off = seen[i][s] /\ Passed(x, y, L[i], s, c, counts)
  <2>1. PICK key, off : key = x.key /\ off = seen[i][s]
    OBVIOUS
  <2>2. x = Became(L[i], y, counts, key, off)
    BY <1>6, <2>1 DEF Became
  <2> QED BY <1>5, <1>7, <2>1, <2>2, ScopeTurned DEF Passed
<1>9. ChokedElsewhere(L[i], s, c, x.key, y.key)
  BY <1>6 DEF ChokedElsewhere
<1> QED BY <1>2, <1>4, <1>6, <1>8, <1>9 DEF PassedAt

(* The key of a switch after a key switch was selected.                    *)
SelectedAt(f, old, i, s, c, k) ==
  /\ f = WithKey(old, f.key)
  /\ f.key = IF Hears(L[i], c) /\ s = ScopeOf(L[i], c) /\ k \in L[i].last THEN TRUE
             ELSE IF IsLast(k) /\ Leaves(i, k, c) /\ s = ScopeOf(L[i], c) THEN FALSE
             ELSE old.key

LEMMA SelectedIs ==
  ASSUME instrument \in Instruments, NEW all \in AllSwitches, NEW c \in Channel, NEW k \in Key
  PROVE  /\ Selected(all, c, k) \in AllSwitches
         /\ \A i \in DOMAIN L : \A s \in ScopesOf(L[i]) :
              SelectedAt(Selected(all, c, k)[i][s], all[i][s], i, s, c, k)
<1>1. PICK off : off = [n \in DOMAIN all |->
                          IF Leaves(n, k, c)
                          THEN [all[n] EXCEPT ![ScopeOf(L[n], c)].key = FALSE] ELSE all[n]]
  OBVIOUS
<1>2. /\ all = [n \in DOMAIN L |-> all[n]]
      /\ \A n \in DOMAIN L : all[n] \in [ScopesOf(L[n]) -> Switch]
  BY AllSwitchesAre
<1>3. ASSUME NEW n \in DOMAIN L, NEW t \in ScopesOf(L[n])
      PROVE  off[n][t] = IF Leaves(n, k, c) /\ t = ScopeOf(L[n], c) THEN WithKey(all[n][t], FALSE)
                         ELSE all[n][t]
  BY <1>1, <1>2, <1>3 DEF WithKey
<1>4. ASSUME NEW n \in DOMAIN L PROVE off[n] \in [ScopesOf(L[n]) -> Switch]
  <2>1. \A t \in ScopesOf(L[n]) : off[n][t] \in Switch
    BY <1>2, <1>3, WithTyped
  <2>2. off[n] = [t \in ScopesOf(L[n]) |-> off[n][t]]
    BY <1>1, <1>2
  <2> QED BY <2>1, <2>2
<1>5. off \in AllSwitches
  <2>1. off = [n \in DOMAIN L |-> off[n]]
    BY <1>1, <1>2
  <2> QED BY <1>4, <2>1, AllSwitchesAre
<1>6. PICK on : on = KeySwitched(off, "last", {<<c, k>>}, TRUE)
  OBVIOUS
<1>7. on \in AllSwitches /\ KeysSet(on, off, "last", {<<c, k>>}, TRUE)
  BY <1>5, <1>6, KeySwitchedIs
<1>8. ASSUME NEW i \in DOMAIN L, NEW s \in ScopesOf(L[i])
      PROVE  SelectedAt(Selected(all, c, k)[i][s], all[i][s], i, s, c, k)
  <2>1. on[i][s] = IF Reached(L[i], s, L[i]["last"], {<<c, k>>}) THEN WithKey(off[i][s], TRUE) ELSE off[i][s]
    BY <1>7 DEF KeysSet
  <2>2. Reached(L[i], s, L[i]["last"], {<<c, k>>}) <=>
          Hears(L[i], c) /\ s = ScopeOf(L[i], c) /\ k \in L[i].last
    BY DEF Reached
  <2>3. all[i][s] \in Switch /\ off[i][s] \in Switch
    BY <1>2, <1>5, AllSwitchesAre
  <2>4. off[i][s] = IF Leaves(i, k, c) /\ s = ScopeOf(L[i], c) THEN WithKey(all[i][s], FALSE)
                     ELSE all[i][s]
    BY <1>3
  <2>5. CASE IsLast(k)
    <3>1. Selected(all, c, k) = on
      BY <1>1, <1>6, <2>5 DEF Selected
    <3>2. on[i][s] = WithKey(all[i][s], on[i][s].key)
      BY <2>1, <2>3, <2>4 DEF WithKey, Switch
    <3>3. on[i][s].key = IF Reached(L[i], s, L[i]["last"], {<<c, k>>}) THEN TRUE
                         ELSE IF Leaves(i, k, c) /\ s = ScopeOf(L[i], c) THEN FALSE
                         ELSE all[i][s].key
      BY <2>1, <2>3, <2>4 DEF WithKey, Switch
    <3> QED BY <2>2, <2>5, <3>1, <3>2, <3>3 DEF SelectedAt
  <2>6. CASE ~IsLast(k)
    <3>1. Selected(all, c, k) = all /\ k \notin L[i].last
      BY <2>6 DEF Selected, IsLast
    <3> QED BY <2>3, <2>6, <3>1 DEF SelectedAt, WithKey, Switch
  <2> QED BY <2>5, <2>6
<1>9. Selected(all, c, k) \in {on, all}
  BY <1>1, <1>6 DEF Selected
<1> QED BY <1>7, <1>8, <1>9

PreviousAt(f, old, i, s, c) ==
  /\ f = WithPrevious(old, f.previous)
  /\ s # ScopeOf(L[i], c) => f = old

LEMMA PreviousIs ==
  ASSUME instrument \in Instruments, NEW all \in AllSwitches, NEW c \in Channel, NEW k \in Key
  PROVE  /\ Previous(all, c, k) \in AllSwitches
         /\ \A i \in DOMAIN L : \A s \in ScopesOf(L[i]) :
              PreviousAt(Previous(all, c, k)[i][s], all[i][s], i, s, c)
<1>1. PICK a : a = Previous(all, c, k)
  OBVIOUS
<1>2. /\ all = [n \in DOMAIN L |-> all[n]]
      /\ \A n \in DOMAIN L : all[n] \in [ScopesOf(L[n]) -> Switch]
  BY AllSwitchesAre
<1>3. ASSUME NEW n \in DOMAIN L, NEW t \in ScopesOf(L[n])
      PROVE  a[n][t] = IF L[n].previous # {} /\ Hears(L[n], c) /\ t = ScopeOf(L[n], c)
                       THEN WithPrevious(all[n][t], k \in L[n].previous) ELSE all[n][t]
  BY <1>1, <1>2 DEF Previous, WithPrevious
<1>4. ASSUME NEW n \in DOMAIN L PROVE a[n] \in [ScopesOf(L[n]) -> Switch]
  <2>1. ASSUME NEW t \in ScopesOf(L[n]) PROVE a[n][t] \in Switch
    <3>1. all[n][t] \in Switch /\ (k \in L[n].previous) \in BOOLEAN
      BY <1>2
    <3>2. WithPrevious(all[n][t], k \in L[n].previous) \in Switch
      BY <3>1 DEF WithPrevious, Switch
    <3> QED BY <1>3, <3>1, <3>2
  <2>2. a[n] = [t \in ScopesOf(L[n]) |-> a[n][t]]
    BY <1>1, <1>2 DEF Previous
  <2> QED BY <2>1, <2>2
<1>5. a \in AllSwitches
  <2>1. a = [n \in DOMAIN L |-> a[n]]
    BY <1>1, <1>2 DEF Previous
  <2> QED BY <1>4, <2>1, AllSwitchesAre
<1>6. ASSUME NEW i \in DOMAIN L, NEW s \in ScopesOf(L[i])
      PROVE  PreviousAt(a[i][s], all[i][s], i, s, c)
  <2>1. all[i][s] \in Switch
    BY <1>2
  <2>2. a[i][s] = WithPrevious(all[i][s], a[i][s].previous)
    BY <1>3, <2>1 DEF Switch, WithPrevious
  <2> QED BY <1>3, <2>2 DEF PreviousAt
<1> QED BY <1>1, <1>5, <1>6

(* What a note does to the switch of a layer and scope.                    *)
NoteKeeps(new, old, l, s, c, counts) ==
  /\ new.off = old.off
  /\ new.wheel = old.wheel /\ new.pressure = old.pressure /\ new.program = old.program
  /\ new.counter = CounterAfter(l, old, counts)
  /\ new.sequence = SequenceAfter(l, old, counts)
  /\ s = ScopeOf(l, c) \/ new.previous = old.previous
NoteKeys(new, old, i, l, s, c, k) ==
  /\ l.last # {} =>
       new = IF Hears(l, c) /\ s = ScopeOf(l, c) /\ k \in l.last THEN TRUE
             ELSE IF IsLast(k) /\ Leaves(i, k, c) /\ s = ScopeOf(l, c) THEN FALSE
             ELSE old
  /\ l.down # {} => (new => old \/ (Hears(l, c) /\ s = ScopeOf(l, c) /\ k \in l.down))
  /\ l.up # {} => (old => new \/ (Hears(l, c) /\ s = ScopeOf(l, c) /\ k \in l.up))
  /\ ChokedElsewhere(l, s, c, new, old)
NoteChange(new, old, i, l, s, c, k) ==
  /\ NoteKeeps(new, old, l, s, c, i \in NoteCounting(c, k) /\ s = ScopeOf(l, c))
  /\ NoteKeys(new.key, old.key, i, l, s, c, k)
NoteChanges(i, s, c, k) == NoteChange(switches'[i][s], switches[i][s], i, L[i], s, c, k)

(* The key after a press, and before the chokes.                           *)
PressedKey(old, l, s, c, k) ==
  IF Hears(l, c) /\ s = ScopeOf(l, c) /\ k \in l.down THEN TRUE
  ELSE IF Hears(l, c) /\ s = ScopeOf(l, c) /\ k \in l.up THEN FALSE
  ELSE old
NoteCauses(i, s, c, k) ==
  L[i].last = {} =>
    \/ switches'[i][s].key = PressedKey(switches[i][s].key, L[i], s, c, k)
    \/ \E k2 \in L[i].down \cup L[i].up : Cut(switches, started', s, k2)

LEMMA CutAlike ==
  ASSUME instrument \in Instruments, voices \subseteq VoiceType, NEW a, NEW b, NEW begun, NEW c \in Channel,
         begun \subseteq {u \in (DOMAIN L) \X Channel \X Key : u[2] = c /\ Hears(L[u[1]], c)},
         \A i \in DOMAIN L : \A s \in ScopesOf(L[i]) : a[i][s].off = b[i][s].off,
         NEW s, NEW k, Cut(a, begun, s, k)
  PROVE  Cut(b, begun, s, k)
<1>1. PICK t \in begun, v \in voices \cup {VoiceOf(u) : u \in begun} :
        LET own == L[v.layer]
        IN /\ v.ofNote /\ v.number = k /\ s \in {Omni, v.channel}
           /\ own.offBy # 0 /\ own.offBy = L[t[1]].group
           /\ own.restricted => v.channel = t[2]
           /\ \/ own.group # L[t[1]].group \/ k # t[3]
              \/ a[v.layer][ScopeOf(own, v.channel)].off # {}
  BY DEF Cut, VoiceOf
<1>2. v.layer \in DOMAIN L /\ v.channel \in Channel /\ Hears(L[v.layer], v.channel)
  <2>1. CASE v \in voices
    BY <2>1 DEF VoiceType
  <2>2. CASE v \in {VoiceOf(u) : u \in begun}
    BY <2>2 DEF VoiceOf
  <2> QED BY <2>1, <2>2
<1>3. ScopeOf(L[v.layer], v.channel) \in ScopesOf(L[v.layer])
  BY <1>2, LayersAre, ScopesAre
<1>4. a[v.layer][ScopeOf(L[v.layer], v.channel)].off = b[v.layer][ScopeOf(L[v.layer], v.channel)].off
  BY <1>2, <1>3
<1> QED BY <1>1, <1>4 DEF Cut, VoiceOf

LEMMA NoteOnDoes ==
  ASSUME TypeOK, NEW c \in Channel, NEW k \in Key, NoteOn(c, k)
  PROVE  /\ switches' \in AllSwitches
         /\ started' \subseteq MayStart(c, k, midi')
         /\ voices' \subseteq voices \cup NewVoices(c)
         /\ \A i \in DOMAIN L : \A s \in ScopesOf(L[i]) : NoteChanges(i, s, c, k) /\ NoteCauses(i, s, c, k)
<1>1. instrument \in Instruments /\ switches \in AllSwitches /\ voices \subseteq VoiceType
  BY DEF TypeOK
<1>2. PICK a : a = Selected(switches, c, k)
  OBVIOUS
<1>3. PICK b : b = Pressed(a, <<c, k>>)
  OBVIOUS
<1>4. PICK m : m = midi'
  OBVIOUS
<1>5. PICK r : r = NoteOnDispatch(b, c, k, m)
  OBVIOUS
<1>6. switches' = Previous(r.all, c, k) /\ voices' = r.voices /\ started' = r.started
  <2>1. m = NoteCountedOn(c, k)
    BY <1>4 DEF NoteOn
  <2>2. Dispatched([r EXCEPT !.all = Previous(@, c, k)], c)
    BY <1>2, <1>3, <1>5, <2>1 DEF NoteOn
  <2>3. r \in Results(c)
    <3>1. a \in AllSwitches /\ b \in AllSwitches
      BY <1>1, <1>2, <1>3, SelectedIs, PressedTyped
    <3> QED BY <1>1, <1>5, <3>1, NoteDispatched DEF NoteSoFar, SoFar
  <2> QED BY <2>2, <2>3 DEF Dispatched, Results
<1>7. a \in AllSwitches /\ b \in AllSwitches
  BY <1>1, <1>2, <1>3, SelectedIs, PressedTyped
<1>8. SoFar(r, Len(L), c, b, NoteCounting(c, k), Offs(b), MayStart(c, k, m))
  BY <1>1, <1>5, <1>7, NoteDispatched DEF NoteSoFar
<1>9. r.all \in AllSwitches /\ r.started \subseteq MayStart(c, k, m)
  BY <1>8 DEF SoFar, Results
<1>10. switches' \in AllSwitches
  BY <1>1, <1>6, <1>9, PreviousIs
<1>12. ASSUME NEW i \in DOMAIN L, NEW s \in ScopesOf(L[i]) PROVE b[i][s].off = switches[i][s].off
  <2>1. PICK y, z, old : y = b[i][s] /\ z = a[i][s] /\ old = switches[i][s]
    OBVIOUS
  <2>2. old \in Switch /\ z \in Switch
    BY <1>1, <1>7, <2>1, AllSwitchesAre
  <2>3. z = WithKey(old, z.key)
    BY <1>1, <1>2, <2>1, SelectedIs DEF SelectedAt
  <2>4. y = WithKey(z, y.key)
    <3>1. PressedAt(y, z, L[i], s, c, k)
      BY <1>1, <1>3, <1>7, <2>1, PressedIs
    <3> QED BY <3>1 DEF PressedAt
  <2>5. z.off = old.off
    BY <2>2, <2>3 DEF WithKey, Switch
  <2>6. y.off = z.off
    BY <2>2, <2>4 DEF WithKey, Switch
  <2> QED BY <2>1, <2>5, <2>6
<1>13. ASSUME NEW s, NEW k2, Cut(b, r.started, s, k2) PROVE Cut(switches, r.started, s, k2)
  <2>1. r.started \subseteq {u \in (DOMAIN L) \X Channel \X Key : u[2] = c /\ Hears(L[u[1]], c)}
    BY <1>9 DEF MayStart
  <2> QED BY <1>1, <1>12, <1>13, <2>1, CutAlike
<1>11. ASSUME NEW i \in DOMAIN L, NEW s \in ScopesOf(L[i])
       PROVE  NoteChanges(i, s, c, k) /\ NoteCauses(i, s, c, k)
  <2>1. PICK l, f, x, y, z, old : /\ l = L[i] /\ f = switches'[i][s] /\ x = r.all[i][s]
                                  /\ y = b[i][s] /\ z = a[i][s] /\ old = switches[i][s]
    OBVIOUS
  <2>2. PICK counts : counts = (i \in NoteCounting(c, k) /\ s = ScopeOf(l, c))
    OBVIOUS
  <2>3. old \in Switch /\ z \in Switch /\ y \in Switch /\ x \in Switch
    BY <1>1, <1>7, <1>9, <2>1, AllSwitchesAre
  <2>4. SelectedAt(z, old, i, s, c, k)
    BY <1>1, <1>2, <2>1, SelectedIs
  <2>5. PressedAt(y, z, l, s, c, k)
    BY <1>1, <1>3, <1>7, <2>1, PressedIs
  <2>6. /\ x.off = Offs(b)[i][s] /\ Passed(x, y, l, s, c, counts)
        /\ Lighter(l, x.key, y.key) /\ ChokedElsewhere(l, s, c, x.key, y.key)
    <3>1. PassedAt(r.all[i][s], b[i][s], Offs(b)[i][s], i, s, c, NoteCounting(c, k))
      BY <1>1, <1>6, <1>7, <1>8, PassedAll
    <3> QED BY <2>1, <2>2, <3>1 DEF PassedAt
  <2>7. PreviousAt(f, x, i, s, c)
    BY <1>1, <1>6, <1>9, <2>1, PreviousIs
  <2>8. /\ f.off = x.off /\ f.wheel = x.wheel /\ f.pressure = x.pressure /\ f.program = x.program
        /\ f.counter = x.counter /\ f.sequence = x.sequence /\ f.key = x.key
        /\ s # ScopeOf(l, c) => f.previous = x.previous
    BY <2>1, <2>3, <2>7 DEF PreviousAt, WithPrevious, Switch
  <2>9. /\ z.off = old.off /\ z.wheel = old.wheel /\ z.pressure = old.pressure
        /\ z.program = old.program /\ z.counter = old.counter /\ z.sequence = old.sequence
        /\ z.previous = old.previous
    BY <2>3, <2>4 DEF SelectedAt, WithKey, Switch
  <2>23. /\ y = WithKey(z, y.key)
         /\ y.key = IF Hears(l, c) /\ s = ScopeOf(l, c) /\ k \in l.down THEN TRUE
                    ELSE IF Hears(l, c) /\ s = ScopeOf(l, c) /\ k \in l.up THEN FALSE
                    ELSE z.key
    BY <2>5 DEF PressedAt
  <2>10. /\ y.off = z.off /\ y.wheel = z.wheel /\ y.pressure = z.pressure
         /\ y.program = z.program /\ y.counter = z.counter /\ y.sequence = z.sequence
         /\ y.previous = z.previous
    BY <2>3, <2>23 DEF WithKey, Switch
  <2>11. x.off = y.off
    BY <2>1, <2>6 DEF Offs
  <2>12. /\ f.off = old.off /\ f.wheel = old.wheel /\ f.pressure = old.pressure
         /\ f.program = old.program /\ (s = ScopeOf(l, c) \/ f.previous = old.previous)
    BY <2>6, <2>8, <2>9, <2>10, <2>11 DEF Passed
  <2>13. f.counter = CounterAfter(l, old, counts) /\ f.sequence = SequenceAfter(l, old, counts)
    BY <2>6, <2>8, <2>9, <2>10 DEF Passed, CounterAfter, SequenceAfter
  <2>14. l.down = {} \/ l.up = {}
    BY <1>1, <2>1, LayersAre
  <2>15. l.last # {} => l.down = {} /\ l.up = {}
    BY <1>1, <2>1, LayersAre
  <2>16. z.key = IF Hears(l, c) /\ s = ScopeOf(l, c) /\ k \in l.last THEN TRUE
                 ELSE IF IsLast(k) /\ Leaves(i, k, c) /\ s = ScopeOf(l, c) THEN FALSE
                 ELSE old.key
    BY <2>1, <2>4 DEF SelectedAt
  <2>17. l.last = {} => z.key = old.key
    BY <2>1, <2>16 DEF Leaves
  <2>18. l.last # {} => f.key = z.key
    BY <2>23, <2>6, <2>8, <2>15 DEF Lighter
  <2>19. l.down # {} => (f.key => old.key \/ (Hears(l, c) /\ s = ScopeOf(l, c) /\ k \in l.down))
    BY <2>23, <2>6, <2>8, <2>14, <2>15, <2>17 DEF Lighter
  <2>20. l.up # {} => (old.key => f.key \/ (Hears(l, c) /\ s = ScopeOf(l, c) /\ k \in l.up))
    BY <2>23, <2>6, <2>8, <2>14, <2>15, <2>17 DEF Lighter
  <2>21. l.restricted /\ s # c => y.key = old.key
    BY <2>23, <2>16 DEF ScopeOf
  <2>22. ChokedElsewhere(l, s, c, f.key, old.key)
    BY <2>6, <2>8, <2>21 DEF ChokedElsewhere
  <2>24. l.last # {} =>
           f.key = IF Hears(l, c) /\ s = ScopeOf(l, c) /\ k \in l.last THEN TRUE
                   ELSE IF IsLast(k) /\ Leaves(i, k, c) /\ s = ScopeOf(l, c) THEN FALSE
                   ELSE old.key
    BY <2>16, <2>18
  <2>25. f.off = old.off
    BY <2>8, <2>9, <2>10, <2>11
  <2>26. NoteKeeps(f, old, l, s, c, counts)
    BY <2>12, <2>13, <2>25 DEF NoteKeeps
  <2>27. NoteKeys(f.key, old.key, i, l, s, c, k)
    BY <2>19, <2>20, <2>22, <2>24 DEF NoteKeys
  <2>28. NoteChange(f, old, i, l, s, c, k)
    BY <2>2, <2>26, <2>27 DEF NoteChange
  <2>29. ASSUME l.last = {}, f.key # y.key
         PROVE  \E k2 \in l.down \cup l.up : Cut(switches, started', s, k2)
    <3>1. PICK k2 \in l.down \cup l.up : Cut(b, r.started, s, k2)
      BY <1>8, <2>1, <2>8, <2>29 DEF SoFar, Causes
    <3> QED BY <1>6, <1>13, <3>1
  <2>30. l.last = {} => y.key = PressedKey(old.key, l, s, c, k)
    BY <2>17, <2>23 DEF PressedKey
  <2>31. NoteCauses(i, s, c, k)
    BY <2>1, <2>29, <2>30 DEF NoteCauses
  <2> QED BY <2>1, <2>28, <2>31 DEF NoteChanges
<1>14. voices' \subseteq voices \cup NewVoices(c)
  BY <1>6, <1>8 DEF SoFar, Results
<1> QED BY <1>4, <1>6, <1>9, <1>10, <1>11, <1>14

(* What a controller does: the switches all are those of before, but for   *)
(* the one that a wheel or a pressure has set.                             *)
Alike(all) ==
  \A i \in DOMAIN L : \A s \in ScopesOf(L[i]) :
    \A f \in {"key", "previous", "sequence", "counter", "program", "off"} :
      all[i][s][f] = switches[i][s][f]

CCDone(c, x, v, scoped, k, all) ==
  /\ switches' \in AllSwitches /\ started' = {} /\ voices' \subseteq voices \cup NewVoices(c)
  /\ \A i \in DOMAIN L : \A s \in ScopesOf(L[i]) : switches'[i][s].key = all[i][s].key
  /\ \A i \in DOMAIN L : \A s \in ScopesOf(L[i]) :
       PassedAt(switches'[i][s], all[i][s], CCOffs(all, c, x, v, scoped)[i][s], i, s, c,
                CCCounting(c, x, v, k))

(* A wheel or a pressure that m has moved is what the switches have noted. *)
Noticed(l, s, new, old, m) ==
  /\ \/ new.pressure = old.pressure /\ m.pressure[s] = midi.pressure[s]
     \/ new.pressure = (m.pressure[s] \in l.pressure)
  /\ \/ new.wheel = old.wheel /\ m.wheel[s] = midi.wheel[s] /\ (s \in centred => s \in centred')
     \/ new.wheel = (m.wheel[s] \in l.wheel)

Rest(m) ==
  /\ m.counts = midi.counts /\ m.notes = midi.notes /\ m.active = midi.active
  /\ m.program = midi.program /\ m.controls = midi.controls

Untouched(c, all) ==
  \A i \in DOMAIN L : \A s \in ScopesOf(L[i]) : s \notin {Omni, c} =>
    all[i][s].wheel = switches[i][s].wheel /\ all[i][s].pressure = switches[i][s].pressure

Follows(c, all, m) ==
  /\ all \in AllSwitches /\ Alike(all) /\ Untouched(c, all) /\ m \in MidiType /\ Rest(m) /\ centred' \subseteq centred
  /\ \A i \in DOMAIN L : \A s \in ScopesOf(L[i]) : Noticed(L[i], s, all[i][s], switches[i][s], m)

CCEffect(c, x, v, scoped, k, all, m) ==
  /\ Follows(c, all, m) /\ CCDone(c, x, v, scoped, k, all)
  /\ midi' = ControlStored(m, c, x, v, scoped)
  /\ x \in AnyControl /\ scoped \in BOOLEAN /\ c \in Channel /\ v \in Level
  /\ source' = None \/ (source' = c /\ (scoped \/ x \in Extended))
  /\ UNCHANGED <<instrument, currentSwitch, held, silenced>>

LEMMA CCDispatchDoes ==
  ASSUME instrument \in Instruments, voices \subseteq VoiceType, NEW c \in Channel, NEW x \in AnyControl, NEW v,
         NEW scoped \in BOOLEAN, NEW k, NEW all \in AllSwitches, NEW m, NEW from,
         Dispatched(CCDispatch(all, c, x, v, scoped, k, m), from)
  PROVE  CCDone(c, x, v, scoped, k, all)
<1>1. PICK r : r = CCDispatch(all, c, x, v, scoped, k, m)
  OBVIOUS
<1>2. SoFar(r, Len(L), c, all, CCCounting(c, x, v, k), CCOffs(all, c, x, v, scoped), {})
  BY <1>1, CCDispatched DEF CCSoFar
<1>3. switches' = r.all /\ voices' = r.voices /\ started' = r.started
  BY <1>1 DEF Dispatched
<1>4. r.all \in AllSwitches /\ r.started = {} /\ r.voices \subseteq voices \cup NewVoices(c)
  BY <1>2 DEF SoFar, Results
<1>6. \A i \in DOMAIN L : \A s \in ScopesOf(L[i]) : r.all[i][s].key = all[i][s].key
  BY <1>2, <1>4 DEF SoFar, Causes, Cut
<1>5. ASSUME NEW i \in DOMAIN L, NEW s \in ScopesOf(L[i])
      PROVE  PassedAt(r.all[i][s], all[i][s], CCOffs(all, c, x, v, scoped)[i][s], i, s, c,
                      CCCounting(c, x, v, k))
  BY <1>2, <1>3, PassedAll
<1> QED BY <1>3, <1>4, <1>5, <1>6 DEF CCDone

Fields == {"key", "previous", "sequence", "counter", "wheel", "pressure", "program", "off"}

(* A message of channel c sets one field of the switches it reaches.       *)
RegisteredAt(new, old, l, s, c, field, v) ==
  /\ \A f \in Fields \ {field} : new[f] = old[f]
  /\ new[field] = IF Hears(l, c) /\ s = ScopeOf(l, c) THEN v \in l[field] ELSE old[field]

LEMMA RegisteredIs ==
  ASSUME TypeOK, NEW c \in Channel, NEW v, NEW field \in {"wheel", "pressure"}
  PROVE  /\ Registered(field, c, v) \in AllSwitches
         /\ \A i \in DOMAIN L : \A s \in ScopesOf(L[i]) :
              RegisteredAt(Registered(field, c, v)[i][s], switches[i][s], L[i], s, c, field, v)
<1>1. PICK a : a = Registered(field, c, v)
  OBVIOUS
<1>2. /\ instrument \in Instruments /\ switches = [n \in DOMAIN L |-> switches[n]]
      /\ \A n \in DOMAIN L : switches[n] \in [ScopesOf(L[n]) -> Switch]
  BY AllSwitchesAre DEF TypeOK
<1>3. ASSUME NEW n \in DOMAIN L, NEW t \in ScopesOf(L[n])
      PROVE  a[n][t] = IF Hears(L[n], c) /\ t = ScopeOf(L[n], c)
                       THEN [switches[n][t] EXCEPT ![field] = v \in L[n][field]] ELSE switches[n][t]
  BY <1>1, <1>2 DEF Registered
<1>4. ASSUME NEW n \in DOMAIN L, NEW t \in ScopesOf(L[n])
      PROVE  a[n][t] \in Switch /\ RegisteredAt(a[n][t], switches[n][t], L[n], t, c, field, v)
  <2>1. switches[n][t] \in Switch /\ (v \in L[n][field]) \in BOOLEAN
    BY <1>2
  <2>2. CASE field = "wheel"
    <3>1. /\ [switches[n][t] EXCEPT !["wheel"] = v \in L[n]["wheel"]] \in Switch
          /\ \A f \in Fields \ {"wheel"} :
               [switches[n][t] EXCEPT !["wheel"] = v \in L[n]["wheel"]][f] = switches[n][t][f]
      BY <2>1, <2>2 DEF Switch, Fields
    <3>2. [switches[n][t] EXCEPT !["wheel"] = v \in L[n]["wheel"]]["wheel"] = (v \in L[n]["wheel"])
      BY <2>1 DEF Switch
    <3> QED BY <1>3, <2>1, <2>2, <3>1, <3>2 DEF RegisteredAt
  <2>3. CASE field = "pressure"
    <3>1. /\ [switches[n][t] EXCEPT !["pressure"] = v \in L[n]["pressure"]] \in Switch
          /\ \A f \in Fields \ {"pressure"} :
               [switches[n][t] EXCEPT !["pressure"] = v \in L[n]["pressure"]][f] = switches[n][t][f]
      BY <2>1, <2>3 DEF Switch, Fields
    <3>2. [switches[n][t] EXCEPT !["pressure"] = v \in L[n]["pressure"]]["pressure"]
            = (v \in L[n]["pressure"])
      BY <2>1 DEF Switch
    <3> QED BY <1>3, <2>1, <2>3, <3>1, <3>2 DEF RegisteredAt
  <2> QED BY <2>2, <2>3
<1>5. ASSUME NEW n \in DOMAIN L PROVE a[n] \in [ScopesOf(L[n]) -> Switch]
  <2>1. a[n] = [t \in ScopesOf(L[n]) |-> a[n][t]]
    BY <1>1, <1>2 DEF Registered
  <2> QED BY <1>4, <2>1
<1>6. a \in AllSwitches
  <2>1. a = [n \in DOMAIN L |-> a[n]]
    BY <1>1 DEF Registered
  <2> QED BY <1>2, <1>5, <2>1, AllSwitchesAre
<1> QED BY <1>1, <1>4, <1>6

LEMMA PerformDoes ==
  ASSUME TypeOK, NEW c \in Channel, NEW x \in AnyControl, NEW v \in Level,
         NEW scoped \in BOOLEAN, NEW k, NEW all, NEW m, Follows(c, all, m),
         scoped \/ x \in Extended, PerformHdcc(all, c, x, v, scoped, k, m)
  PROVE  CCEffect(c, x, v, scoped, k, all, m)
<1>1. Dispatched(CCDispatch(all, c, x, v, scoped, k, m), c) /\ all \in AllSwitches
  BY DEF PerformHdcc, Follows
<1>2. CCDone(c, x, v, scoped, k, all)
  BY <1>1, CCDispatchDoes DEF TypeOK
<1>3. source' = c
  BY <1>1 DEF Dispatched
<1> QED BY <1>2, <1>3 DEF CCEffect, PerformHdcc

LEMMA ControlsAre == Control \subseteq AnyControl /\ Extended \subseteq AnyControl
BY DEF AnyControl

WheelMoved(c, v) == [midi EXCEPT !.wheel[Omni] = v, !.wheel[c] = v]
PressureMoved(c, v) == [midi EXCEPT !.pressure[Omni] = v, !.pressure[c] = v]
PolyMoved(c, k, v) == [midi EXCEPT !.poly[<<Omni, k>>] = v, !.poly[<<c, k>>] = v]

LEMMA NothingMoved ==
  ASSUME TypeOK, UNCHANGED centred, NEW c, NEW m \in MidiType, Rest(m),
         m.wheel = midi.wheel, m.pressure = midi.pressure
  PROVE  Follows(c, switches, m)
<1>1. Alike(switches) /\ Untouched(c, switches) /\ switches \in AllSwitches
  BY DEF Alike, Untouched, TypeOK
<1>2. \A i \in DOMAIN L : \A s \in ScopesOf(L[i]) :
        Noticed(L[i], s, switches[i][s], switches[i][s], m)
  BY DEF Noticed
<1> QED BY <1>1, <1>2 DEF Follows

LEMMA ControlDoes ==
  ASSUME TypeOK, NEW c \in Channel, NEW x \in Control, NEW v \in Level, ControlChange(c, x, v)
  PROVE  CCEffect(c, x, v, TRUE, None, switches, midi)
<1>1. Follows(c, switches, midi) /\ x \in AnyControl
  BY NothingMoved, ControlsAre DEF TypeOK, Rest, ControlChange
<1>2. PerformHdcc(switches, c, x, v, TRUE, None, midi)
  BY DEF ControlChange
<1> QED BY <1>1, <1>2, PerformDoes

LEMMA AutomateDoes ==
  ASSUME TypeOK, NEW x \in Control, NEW v \in Level, Automate(x, v)
  PROVE  CCEffect(0, x, v, FALSE, None, switches, midi)
<1>1. /\ Follows(0, switches, midi) /\ switches \in AllSwitches /\ x \in AnyControl
      /\ instrument \in Instruments /\ voices \subseteq VoiceType /\ 0 \in Channel
  BY NothingMoved, ControlsAre, ActivationAssumption DEF TypeOK, Rest, Automate
<1>2. Dispatched(CCDispatch(switches, 0, x, v, FALSE, None, midi), None)
  BY DEF Automate
<1>3. CCDone(0, x, v, FALSE, None, switches)
  BY <1>1, <1>2, CCDispatchDoes
<1>4. source' = None
  BY <1>2 DEF Dispatched
<1> QED BY <1>1, <1>3, <1>4 DEF CCEffect, Automate

LEMMA MovedTyped ==
  ASSUME TypeOK, NEW c \in Channel, NEW v \in Level
  PROVE  /\ WheelMoved(c, v) \in MidiType /\ Rest(WheelMoved(c, v))
         /\ PressureMoved(c, v) \in MidiType /\ Rest(PressureMoved(c, v))
         /\ WheelMoved(c, v).pressure = midi.pressure /\ PressureMoved(c, v).wheel = midi.wheel
         /\ \A s \in Scope :
              /\ WheelMoved(c, v).wheel[s] = IF s \in {Omni, c} THEN v ELSE midi.wheel[s]
              /\ PressureMoved(c, v).pressure[s] = IF s \in {Omni, c} THEN v ELSE midi.pressure[s]
<1>1. Omni \in Scope /\ c \in Scope /\ midi \in MidiType
  BY DEF Scope, TypeOK
<1>2. ASSUME NEW g \in [Scope -> Level]
      PROVE  /\ [g EXCEPT ![Omni] = v, ![c] = v] \in [Scope -> Level]
             /\ \A s \in Scope : [g EXCEPT ![Omni] = v, ![c] = v][s] = IF s \in {Omni, c} THEN v ELSE g[s]
  BY <1>1
<1>3. midi.wheel \in [Scope -> Level] /\ midi.pressure \in [Scope -> Level]
  BY <1>1 DEF MidiType
<1>4. /\ WheelMoved(c, v) \in MidiType /\ Rest(WheelMoved(c, v))
      /\ WheelMoved(c, v).pressure = midi.pressure
      /\ WheelMoved(c, v).wheel = [midi.wheel EXCEPT ![Omni] = v, ![c] = v]
  BY <1>1, <1>2, <1>3 DEF WheelMoved, MidiType, Rest
<1>5. /\ PressureMoved(c, v) \in MidiType /\ Rest(PressureMoved(c, v))
      /\ PressureMoved(c, v).wheel = midi.wheel
      /\ PressureMoved(c, v).pressure = [midi.pressure EXCEPT ![Omni] = v, ![c] = v]
  BY <1>1, <1>2, <1>3 DEF PressureMoved, MidiType, Rest
<1> QED BY <1>2, <1>3, <1>4, <1>5

LEMMA PolyTyped ==
  ASSUME TypeOK, NEW c \in Channel, NEW k \in Key, NEW v \in Level, NEW m, m = PolyMoved(c, k, v)
  PROVE  /\ m \in MidiType /\ Rest(m)
         /\ m.wheel = midi.wheel /\ m.pressure = midi.pressure
<1>1. Omni \in Scope /\ c \in Scope /\ midi \in MidiType
  BY DEF Scope, TypeOK
<1>2. ASSUME NEW g \in [Scope \X Key -> Level]
      PROVE  [g EXCEPT ![<<Omni, k>>] = v, ![<<c, k>>] = v] \in [Scope \X Key -> Level]
  BY <1>1
<1> QED BY <1>1, <1>2 DEF PolyMoved, MidiType, Rest

(* The scopes whose value a message of channel c moves are those whose     *)
(* switches it reaches.                                                    *)
LEMMA ScopeReached ==
  ASSUME instrument \in Instruments, NEW c \in Channel, NEW i \in DOMAIN L, NEW s \in ScopesOf(L[i])
  PROVE  s \in Scope /\ (s \in {Omni, c} <=> Hears(L[i], c) /\ s = ScopeOf(L[i], c))
<1>1. L[i] \in Layer
  BY LayersAre
<1>2. s \in Scope
  BY <1>1, ScopesAre
<1>3. c # Omni /\ (L[i].restricted => L[i].channels \subseteq Channel /\ Omni \notin L[i].channels)
  BY <1>1, LayerFields, ActivationAssumption
<1> QED BY <1>2, <1>3 DEF ScopesOf, Hears, ScopeOf

LEMMA RegisteredAlike ==
  ASSUME TypeOK, NEW c \in Channel, NEW v, NEW field \in {"wheel", "pressure"}
  PROVE  /\ Alike(Registered(field, c, v)) /\ Registered(field, c, v) \in AllSwitches
         /\ Untouched(c, Registered(field, c, v))
<1>1. {"key", "previous", "sequence", "counter", "program", "off"} \subseteq Fields \ {field}
  BY DEF Fields
<1>2. PICK all : all = Registered(field, c, v)
  OBVIOUS
<1>3. ASSUME NEW i \in DOMAIN L, NEW s \in ScopesOf(L[i]), s \notin {Omni, c}
      PROVE  all[i][s]["wheel"] = switches[i][s]["wheel"] /\ all[i][s]["pressure"] = switches[i][s]["pressure"]
  <2>1. RegisteredAt(all[i][s], switches[i][s], L[i], s, c, field, v)
    BY <1>2, RegisteredIs
  <2>2. ~(Hears(L[i], c) /\ s = ScopeOf(L[i], c))
    BY <1>3, ScopeReached DEF TypeOK
  <2> QED BY <2>1, <2>2 DEF RegisteredAt, Fields
<1>4. Untouched(c, all)
  BY <1>3 DEF Untouched
<1>5. Alike(all) /\ all \in AllSwitches
  BY <1>1, <1>2, RegisteredIs DEF RegisteredAt, Alike
<1> QED BY <1>2, <1>4, <1>5

LEMMA WheelDoes ==
  ASSUME TypeOK, NEW c \in Channel, NEW v \in Level, Wheel(c, v)
  PROVE  CCEffect(c, WheelCC, v, FALSE, None, Registered("wheel", c, v), WheelMoved(c, v))
<1>1. WheelCC \in AnyControl /\ WheelCC \in Extended
  BY ControlsAre DEF Extended
<1>2. PICK m : m = WheelMoved(c, v)
  OBVIOUS
<1>3. PICK all : all = Registered("wheel", c, v)
  OBVIOUS
<1>4. PerformHdcc(all, c, WheelCC, v, FALSE, None, m) /\ centred' = centred \ {Omni, c}
  BY <1>2, <1>3 DEF Wheel, WheelMoved
<1>5. ASSUME NEW i \in DOMAIN L, NEW s \in ScopesOf(L[i])
      PROVE  Noticed(L[i], s, all[i][s], switches[i][s], m)
  <2>1. s \in Scope /\ (s \in {Omni, c} <=> Hears(L[i], c) /\ s = ScopeOf(L[i], c))
    BY ScopeReached DEF TypeOK
  <2>2. RegisteredAt(all[i][s], switches[i][s], L[i], s, c, "wheel", v)
    BY <1>3, RegisteredIs
  <2>3. all[i][s]["pressure"] = switches[i][s]["pressure"]
    BY <2>2 DEF RegisteredAt, Fields
  <2>4. m.pressure[s] = midi.pressure[s] /\ m.wheel[s] = IF s \in {Omni, c} THEN v ELSE midi.wheel[s]
    BY <1>2, <2>1, MovedTyped
  <2>5. all[i][s]["wheel"] = IF s \in {Omni, c} THEN v \in L[i]["wheel"] ELSE switches[i][s]["wheel"]
    BY <2>1, <2>2 DEF RegisteredAt
  <2>6. s \notin {Omni, c} => (s \in centred => s \in centred')
    BY <1>4
  <2>7. CASE s \in {Omni, c}
    BY <2>3, <2>4, <2>5, <2>7 DEF Noticed
  <2>8. CASE s \notin {Omni, c}
    BY <2>3, <2>4, <2>5, <2>6, <2>8 DEF Noticed
  <2> QED BY <2>7, <2>8
<1>6. Follows(c, all, m)
  BY <1>2, <1>3, <1>4, <1>5, MovedTyped, RegisteredAlike DEF Follows
<1> QED BY <1>1, <1>2, <1>3, <1>4, <1>6, PerformDoes

LEMMA PressureDoes ==
  ASSUME TypeOK, NEW c \in Channel, NEW v \in Level, Pressure(c, v)
  PROVE  CCEffect(c, PressureCC, v, FALSE, None, Registered("pressure", c, v), PressureMoved(c, v))
<1>1. PressureCC \in AnyControl /\ PressureCC \in Extended
  BY ControlsAre DEF Extended
<1>2. PICK m : m = PressureMoved(c, v)
  OBVIOUS
<1>3. PICK all : all = Registered("pressure", c, v)
  OBVIOUS
<1>4. PerformHdcc(all, c, PressureCC, v, FALSE, None, m) /\ centred' = centred
  BY <1>2, <1>3 DEF Pressure, PressureMoved
<1>5. ASSUME NEW i \in DOMAIN L, NEW s \in ScopesOf(L[i])
      PROVE  Noticed(L[i], s, all[i][s], switches[i][s], m)
  <2>1. s \in Scope /\ (s \in {Omni, c} <=> Hears(L[i], c) /\ s = ScopeOf(L[i], c))
    BY ScopeReached DEF TypeOK
  <2>2. RegisteredAt(all[i][s], switches[i][s], L[i], s, c, "pressure", v)
    BY <1>3, RegisteredIs
  <2>3. all[i][s]["wheel"] = switches[i][s]["wheel"]
    BY <2>2 DEF RegisteredAt, Fields
  <2>4. m.wheel[s] = midi.wheel[s] /\ m.pressure[s] = IF s \in {Omni, c} THEN v ELSE midi.pressure[s]
    BY <1>2, <2>1, MovedTyped
  <2>5. all[i][s]["pressure"] =
          IF s \in {Omni, c} THEN v \in L[i]["pressure"] ELSE switches[i][s]["pressure"]
    BY <2>1, <2>2 DEF RegisteredAt
  <2>7. CASE s \in {Omni, c}
    BY <1>4, <2>3, <2>4, <2>5, <2>7 DEF Noticed
  <2>8. CASE s \notin {Omni, c}
    BY <1>4, <2>3, <2>4, <2>5, <2>8 DEF Noticed
  <2> QED BY <2>7, <2>8
<1>6. Follows(c, all, m)
  BY <1>2, <1>3, <1>4, <1>5, MovedTyped, RegisteredAlike DEF Follows
<1> QED BY <1>1, <1>2, <1>3, <1>4, <1>6, PerformDoes

LEMMA PolyDoes ==
  ASSUME TypeOK, NEW c \in Channel, NEW v \in Level, NEW k \in Key, PolyPressure(c, k, v)
  PROVE  CCEffect(c, PolyCC, v, FALSE, k, switches, PolyMoved(c, k, v))
<1>1. PolyCC \in AnyControl /\ PolyCC \in Extended
  BY ControlsAre DEF Extended
<1>2. PICK m : m = PolyMoved(c, k, v)
  OBVIOUS
<1>3. Follows(c, switches, m)
  BY <1>2, PolyTyped, NothingMoved DEF PolyPressure
<1>4. PerformHdcc(switches, c, PolyCC, v, FALSE, k, m)
  BY <1>2 DEF PolyPressure, PolyMoved
<1> QED BY <1>1, <1>2, <1>3, <1>4, PerformDoes

(* The steps of the system, with all messages that pass as controllers as  *)
(* one.                                                                    *)
CCSteps == \E c, x, v, scoped, k, all, m : CCEffect(c, x, v, scoped, k, all, m)

Programs ==
  \E to \in SUBSET Scope, p \in Program : \E c : Omni \in to /\ ProgramChange(to, c, p)

LEMMA Steps ==
  ASSUME TypeOK, [Next]_vars
  PROVE  \/ \E c \in Channel, k \in Key : NoteOn(c, k) \/ NoteOff(c, k)
         \/ \E c \in Channel : AllNotesOff(c) \/ ResetAllControllers(c)
         \/ CCSteps \/ Programs \/ Reload \/ (\E v \in voices : VoiceEnds(v)) \/ UNCHANGED vars
<1>1. (\E c \in Channel, x \in Control, v \in Level : ControlChange(c, x, v)) => CCSteps
  BY ControlDoes DEF CCSteps
<1>2. (\E x \in Control, v \in Level : Automate(x, v)) => CCSteps
  BY AutomateDoes DEF CCSteps
<1>3. (\E c \in Channel, v \in Level : Wheel(c, v) \/ Pressure(c, v)) => CCSteps
  BY WheelDoes, PressureDoes DEF CCSteps
<1>4. (\E c \in Channel, k \in Key, v \in Level : PolyPressure(c, k, v)) => CCSteps
  BY PolyDoes DEF CCSteps
<1>5. ASSUME NEW p \in Program, ProgramChange(Scope, None, p) PROVE Programs
  BY <1>5 DEF Programs, Scope
<1>6. ASSUME NEW c \in Channel, NEW p \in Program, ProgramChange({Omni, c}, c, p) PROVE Programs
  <2>1. {Omni, c} \in SUBSET Scope /\ Omni \in {Omni, c}
    BY DEF Scope
  <2> QED BY <1>6, <2>1 DEF Programs
<1> QED BY <1>1, <1>2, <1>3, <1>4, <1>5, <1>6 DEF Next

-----------------------------------------------------------------------------
(* Types.                                                                  *)


Noted(g, l) == {x \in AnyControl : g[x] \notin l.conditions[x]}

Made(a, b, d, n, e, f, g, off) ==
  [key |-> a, previous |-> b, sequence |-> d, counter |-> n, wheel |-> e,
   pressure |-> f, program |-> g, off |-> off]

LEMMA SwitchMade ==
  ASSUME NEW r, r = Made(r.key, r.previous, r.sequence, r.counter, r.wheel, r.pressure,
                         r.program, r.off),
         r.key \in BOOLEAN, r.previous \in BOOLEAN, r.sequence \in BOOLEAN, r.counter \in Nat,
         r.wheel \in BOOLEAN, r.pressure \in BOOLEAN, r.program \in BOOLEAN,
         r.off \in SUBSET AnyControl
  PROVE  r \in Switch
BY DEF Made, Switch

LEMMA InitialTyped ==
  ASSUME NEW l \in Layer, NEW s, NEW m, NEW default
  PROVE  /\ Initial(l, s, m, default) \in Switch
         /\ Initial(l, s, m, default).key = (IF l.last # {} THEN default \in l.last ELSE l.down = {})
         /\ Initial(l, s, m, default).sequence = ~l.positioned
         /\ Initial(l, s, m, default).counter = 0
         /\ Initial(l, s, m, default).wheel = (m.wheel[s] \in l.wheel)
         /\ Initial(l, s, m, default).pressure = (m.pressure[s] \in l.pressure)
         /\ Initial(l, s, m, default).program = (m.program[Omni] \in l.programs)
         /\ Initial(l, s, m, default).off = Noted(m.controls[s], l)
<1>1. PICK off : off = Noted(m.controls[s], l)
  OBVIOUS
<1>2. off \in SUBSET AnyControl /\ l.positioned \in BOOLEAN /\ (~l.positioned) \in BOOLEAN
  BY <1>1, LayerFields DEF Noted
<1>3. (default \in l.last) \in BOOLEAN /\ (l.down = {}) \in BOOLEAN
  OBVIOUS
<1>7. (IF l.last # {} THEN default \in l.last ELSE l.down = {}) \in BOOLEAN
  BY <1>3
<1>4. /\ (l.previous = {}) \in BOOLEAN /\ (m.wheel[s] \in l.wheel) \in BOOLEAN
      /\ (m.pressure[s] \in l.pressure) \in BOOLEAN /\ (m.program[Omni] \in l.programs) \in BOOLEAN
  OBVIOUS
<1>5. Initial(l, s, m, default) =
        Made(IF l.last # {} THEN default \in l.last ELSE l.down = {}, l.previous = {},
             ~l.positioned, 0, m.wheel[s] \in l.wheel, m.pressure[s] \in l.pressure,
             m.program[Omni] \in l.programs, off)
  BY <1>1, Zenon DEF Initial, Made, Noted
<1>6. Initial(l, s, m, default) \in Switch
  <2>1. PICK r : r = Initial(l, s, m, default)
    OBVIOUS
  <2>2. r = Made(r.key, r.previous, r.sequence, r.counter, r.wheel, r.pressure, r.program, r.off)
    BY <1>5, <2>1 DEF Made
  <2>3. r.key \in BOOLEAN /\ r.previous \in BOOLEAN /\ r.sequence \in BOOLEAN /\ r.wheel \in BOOLEAN
    BY <1>2, <1>4, <1>5, <1>7, <2>1 DEF Made
  <2>4. r.pressure \in BOOLEAN /\ r.program \in BOOLEAN
    BY <1>4, <1>5, <2>1 DEF Made
  <2>5. r.counter \in Nat /\ r.off \in SUBSET AnyControl
    BY <1>2, <1>5, <2>1 DEF Made
  <2> QED BY <2>1, <2>2, <2>3, <2>4, <2>5, SwitchMade
<1> QED BY <1>1, <1>5, <1>6 DEF Made

LEMMA LoadedTyped ==
  ASSUME instrument \in Instruments, NEW m, NEW a, a = Loaded(instrument, m)
  PROVE  /\ a \in AllSwitches
         /\ \A i \in DOMAIN L : \A s \in ScopesOf(L[i]) :
              a[i][s] = Initial(L[i], s, m, instrument.default)
<1>1. /\ a = [i \in DOMAIN L |-> a[i]]
      /\ \A i \in DOMAIN L : a[i] = [s \in ScopesOf(L[i]) |-> Initial(L[i], s, m, instrument.default)]
  BY DEF Loaded, L
<1>2. ASSUME NEW i \in DOMAIN L, NEW s \in ScopesOf(L[i])
      PROVE  Initial(L[i], s, m, instrument.default) \in Switch
  BY LayersAre, InitialTyped
<1>3. \A i \in DOMAIN L : a[i] \in [ScopesOf(L[i]) -> Switch]
  BY <1>1, <1>2
<1>4. a \in AllSwitches
  BY <1>1, <1>3, SwitchesFrom
<1>5. ASSUME NEW i \in DOMAIN L, NEW s \in ScopesOf(L[i])
      PROVE  a[i][s] = Initial(L[i], s, m, instrument.default)
  BY ONLY <1>1
<1> QED BY ONLY <1>4, <1>5

(* The fields a program, or a reset of the controllers, sets.              *)
WithProgram(f, b) == [f EXCEPT !.program = b]
WithOff(f, off) == [f EXCEPT !.off = off]
ResetOff(l) == {x \in AnyControl : 0 \notin l.conditions[x]}
Programmed(l, p) == p \in l.programs

LEMMA WithFields ==
  ASSUME NEW f \in Switch, NEW b, NEW off
  PROVE  /\ WithProgram(f, b).key = f.key /\ WithOff(f, off).key = f.key
         /\ WithProgram(f, b).sequence = f.sequence /\ WithOff(f, off).sequence = f.sequence
         /\ WithProgram(f, b).counter = f.counter /\ WithOff(f, off).counter = f.counter
         /\ WithProgram(f, b).wheel = f.wheel /\ WithOff(f, off).wheel = f.wheel
         /\ WithProgram(f, b).pressure = f.pressure /\ WithOff(f, off).pressure = f.pressure
         /\ WithProgram(f, b).program = b /\ WithOff(f, off).program = f.program
         /\ WithProgram(f, b).off = f.off /\ WithOff(f, off).off = off
BY DEF Switch, WithProgram, WithOff

LEMMA ProgramDoes ==
  ASSUME TypeOK, NEW to, NEW c, NEW p, ProgramChange(to, c, p)
  PROVE  /\ switches' \in AllSwitches
         /\ \A i \in DOMAIN L : \A s \in ScopesOf(L[i]) :
              switches'[i][s] = WithProgram(switches[i][s], Programmed(L[i], p))
<1>1. /\ switches' = [i \in DOMAIN L |-> switches'[i]]
      /\ \A i \in DOMAIN L : switches'[i] =
           [s \in ScopesOf(L[i]) |-> WithProgram(switches[i][s], Programmed(L[i], p))]
  BY DEF ProgramChange, Dispatched, WithProgram, Programmed
<1>2. ASSUME NEW i \in DOMAIN L, NEW s \in ScopesOf(L[i])
      PROVE  WithProgram(switches[i][s], Programmed(L[i], p)) \in Switch
  <2>1. switches[i][s] \in Switch
    BY AllSwitchesAre DEF TypeOK
  <2>2. Programmed(L[i], p) \in BOOLEAN
    BY DEF Programmed
  <2> QED BY <2>1, <2>2 DEF WithProgram, Switch
<1>3. \A i \in DOMAIN L : switches'[i] \in [ScopesOf(L[i]) -> Switch]
  BY <1>1, <1>2
<1> QED BY <1>1, <1>3, AllSwitchesAre DEF TypeOK

LEMMA ResetDoes ==
  ASSUME TypeOK, NEW c, ResetAllControllers(c)
  PROVE  /\ switches' \in AllSwitches
         /\ \A i \in DOMAIN L : \A s \in ScopesOf(L[i]) :
              switches'[i][s] = WithOff(switches[i][s], ResetOff(L[i]))
<1>1. /\ switches' = [i \in DOMAIN L |-> switches'[i]]
      /\ \A i \in DOMAIN L : switches'[i] =
           [s \in ScopesOf(L[i]) |-> WithOff(switches[i][s], ResetOff(L[i]))]
  BY DEF ResetAllControllers, Dispatched, WithOff, ResetOff
<1>2. ASSUME NEW i \in DOMAIN L, NEW s \in ScopesOf(L[i])
      PROVE  WithOff(switches[i][s], ResetOff(L[i])) \in Switch
  <2>1. switches[i][s] \in Switch
    BY AllSwitchesAre DEF TypeOK
  <2>2. ResetOff(L[i]) \in SUBSET AnyControl
    BY DEF ResetOff
  <2> QED BY <2>1, <2>2 DEF WithOff, Switch
<1>3. \A i \in DOMAIN L : switches'[i] \in [ScopesOf(L[i]) -> Switch]
  BY <1>1, <1>2
<1> QED BY <1>1, <1>3, AllSwitchesAre DEF TypeOK

LEMMA CountsTyped ==
  ASSUME NEW S, NEW f \in [S -> Nat], NEW p \in S
  PROVE  /\ [f EXCEPT ![p] = @ + 1] \in [S -> Nat] /\ [f EXCEPT ![p] = Fewer(@)] \in [S -> Nat]
         /\ f[p] # 0 => [f EXCEPT ![p] = @ - 1] \in [S -> Nat]
BY DEF Fewer

LEMMA PressTyped ==
  ASSUME TypeOK, NEW c \in Channel, NEW k \in Key
  PROVE  NoteCountedOn(c, k) \in MidiType /\ NoteCountedOff(c, k) \in MidiType
<1>1. midi \in MidiType /\ <<c, k>> \in Channel \X Key /\ midi.active \in Nat
  BY DEF TypeOK, MidiType
<1>2. PICK x, y : /\ x = IF IsLast(k) THEN midi.active ELSE midi.active + 1
                  /\ y = IF IsLast(k) THEN midi.active ELSE Fewer(midi.active)
  OBVIOUS
<1>3. PICK n : n = [midi EXCEPT !.active = x]
  OBVIOUS
<1>4. PICK m : m = [midi EXCEPT !.active = y]
  OBVIOUS
<1>5. x \in Nat /\ y \in Nat
  BY <1>1, <1>2 DEF Fewer
<1>6. n \in MidiType /\ n.counts = midi.counts /\ n.notes = midi.notes
  BY <1>1, <1>3, <1>5 DEF MidiType
<1>7. m \in MidiType /\ m.counts = midi.counts /\ m.notes = midi.notes
  BY <1>1, <1>4, <1>5 DEF MidiType
<1>8. [n EXCEPT !.counts[<<c, k>>] = @ + 1, !.notes[c] = @ + 1] \in MidiType
  <2>1. /\ [n.counts EXCEPT ![<<c, k>>] = @ + 1] \in [Channel \X Key -> Nat]
        /\ [n.notes EXCEPT ![c] = @ + 1] \in [Channel -> Nat]
    <3>1. n.counts \in [Channel \X Key -> Nat] /\ n.notes \in [Channel -> Nat]
      BY <1>6 DEF MidiType
    <3> QED BY <1>1, <3>1, CountsTyped
  <2> QED BY <1>6, <2>1 DEF MidiType
<1>9. midi.counts[<<c, k>>] # 0 =>
        [m EXCEPT !.counts[<<c, k>>] = @ - 1, !.notes[c] = Fewer(@)] \in MidiType
  <2>1. ASSUME midi.counts[<<c, k>>] # 0
        PROVE  /\ [m.counts EXCEPT ![<<c, k>>] = @ - 1] \in [Channel \X Key -> Nat]
               /\ [m.notes EXCEPT ![c] = Fewer(@)] \in [Channel -> Nat]
    <3>1. m.counts \in [Channel \X Key -> Nat] /\ m.notes \in [Channel -> Nat]
      BY <1>7 DEF MidiType
    <3> QED BY <1>1, <1>7, <2>1, <3>1, CountsTyped
  <2> QED BY <1>7, <2>1 DEF MidiType
<1>10. NoteCountedOn(c, k) \in {n, [n EXCEPT !.counts[<<c, k>>] = @ + 1, !.notes[c] = @ + 1]}
  BY <1>2, <1>3 DEF NoteCountedOn
<1>11. \/ NoteCountedOff(c, k) = m
       \/ /\ midi.counts[<<c, k>>] # 0
          /\ NoteCountedOff(c, k) = [m EXCEPT !.counts[<<c, k>>] = @ - 1, !.notes[c] = Fewer(@)]
  BY <1>2, <1>4 DEF NoteCountedOff
<1> QED BY <1>6, <1>7, <1>8, <1>9, <1>10, <1>11

LEMMA SameLayers ==
  ASSUME instrument' = instrument
  PROVE  L' = L /\ AllSwitches' = AllSwitches /\ VoiceType' = VoiceType
<1>1. L' = L
  BY DEF L
<1> QED BY <1>1 DEF AllSwitches, VoiceType

(* q is m with the controller stored.                                      *)
IsStored(q, m, c, x, v, scoped) ==
  /\ q \in MidiType
  /\ q.counts = m.counts /\ q.notes = m.notes /\ q.active = m.active
  /\ q.program = m.program /\ q.wheel = m.wheel /\ q.pressure = m.pressure
  /\ \A s \in Scope : q.controls[s] =
       IF s \in {Omni, c} \/ ~scoped THEN [m.controls[s] EXCEPT ![x] = v] ELSE m.controls[s]

LEMMA StoredTyped ==
  ASSUME NEW m \in MidiType, NEW c, NEW x \in AnyControl, NEW v \in Level, NEW scoped
  PROVE  IsStored(ControlStored(m, c, x, v, scoped), m, c, x, v, scoped)
<1>1. PICK g : g = [s \in Scope |-> IF s \in {Omni, c} \/ ~scoped
                                    THEN [m.controls[s] EXCEPT ![x] = v] ELSE m.controls[s]]
  OBVIOUS
<1>2. m.controls \in [Scope -> [AnyControl -> Level]]
  BY DEF MidiType
<1>3. g \in [Scope -> [AnyControl -> Level]]
  BY <1>1, <1>2
<1>4. ControlStored(m, c, x, v, scoped) = [m EXCEPT !.controls = g]
  BY <1>1, <1>2 DEF ControlStored, MidiType
<1>5. PICK n : n = [m EXCEPT !.controls = g]
  OBVIOUS
<1>6. /\ n \in MidiType /\ n.controls = g /\ n.counts = m.counts /\ n.notes = m.notes
      /\ n.active = m.active /\ n.program = m.program /\ n.wheel = m.wheel
      /\ n.pressure = m.pressure
  BY <1>3, <1>5 DEF MidiType
<1>7. \A s \in Scope : n.controls[s] =
        IF s \in {Omni, c} \/ ~scoped THEN [m.controls[s] EXCEPT ![x] = v] ELSE m.controls[s]
  BY <1>1, <1>6
<1> QED BY <1>4, <1>5, <1>6, <1>7 DEF IsStored

LEMMA InitTypes ==
  ASSUME Init
  PROVE  TypeOK
<1>1. instrument \in Instruments
  BY DEF Init
<1>2. midi \in MidiType
  <2>1. /\ [s \in Scope |-> 0] \in [Scope -> Level] /\ [s \in Scope |-> 0] \in [Scope -> Program]
        /\ [p \in Scope \X Key |-> 0] \in [Scope \X Key -> Level]
    BY ActivationAssumption
  <2>2. [s \in Scope |-> [x \in AnyControl |-> 0]] \in [Scope -> [AnyControl -> Level]]
    BY ActivationAssumption
  <2>3. NoPress \in [Channel \X Key -> Nat] /\ NoNote \in [Channel -> Nat] /\ 0 \in Nat
    BY DEF NoPress, NoNote
  <2> QED BY <2>1, <2>2, <2>3 DEF Init, MidiType
<1>3. switches \in AllSwitches
  BY <1>1, <1>2, LoadedTyped DEF Init
<1>4. currentSwitch \in [Scope -> Key \cup {None}]
  BY <1>1, LayersAre DEF Init
<1>5. held \in [Channel \X Key -> Nat] /\ silenced \in BOOLEAN /\ centred \subseteq Scope /\ started = {}
      /\ voices = {}
  BY DEF Init, NoPress
<1> QED BY <1>1, <1>2, <1>3, <1>4, <1>5 DEF TypeOK

TypedStep ==
  /\ instrument' = instrument
  /\ switches' \in AllSwitches /\ midi' \in MidiType
  /\ currentSwitch' \in [Scope -> Key \cup {None}] /\ held' \in [Channel \X Key -> Nat]
  /\ silenced' \in BOOLEAN /\ centred' \subseteq Scope
  /\ started' \subseteq (DOMAIN L) \X Channel \X Key
  /\ voices' \subseteq VoiceType

LEMMA NextTypes ==
  ASSUME TypeOK, [Next]_vars
  PROVE  TypeOK'
<1>1. /\ instrument \in Instruments /\ switches \in AllSwitches /\ midi \in MidiType
      /\ currentSwitch \in [Scope -> Key \cup {None}] /\ held \in [Channel \X Key -> Nat]
      /\ silenced \in BOOLEAN /\ centred \subseteq Scope
      /\ started \subseteq (DOMAIN L) \X Channel \X Key /\ voices \subseteq VoiceType
  BY DEF TypeOK
<1> SUFFICES TypedStep
  BY <1>1, SameLayers DEF TypeOK, TypedStep
<1>2. ASSUME NEW c \in Channel, NEW k \in Key, NoteOn(c, k)
      PROVE  TypedStep
  <2>1. /\ switches' \in AllSwitches /\ started' \subseteq (DOMAIN L) \X Channel \X Key
        /\ voices' \subseteq VoiceType
    BY <1>1, <1>2, NoteOnDoes DEF MayStart, NewVoices
  <2>2. midi' \in MidiType
    BY <1>2, PressTyped DEF NoteOn
  <2>3. currentSwitch' \in [Scope -> Key \cup {None}]
    BY <1>1, <1>2 DEF NoteOn
  <2>4. held' \in [Channel \X Key -> Nat]
    BY <1>1, <1>2, CountsTyped DEF NoteOn
  <2> QED BY <1>1, <1>2, <2>1, <2>2, <2>3, <2>4 DEF TypedStep, NoteOn
<1>3. ASSUME NEW c \in Channel, NEW k \in Key, NoteOff(c, k)
      PROVE  TypedStep
  <2>1. switches' \in AllSwitches /\ started' = {} /\ voices' = voices
    BY <1>1, <1>3, PressedTyped DEF NoteOff, Dispatched
  <2>2. midi' \in MidiType
    BY <1>3, PressTyped DEF NoteOff
  <2>3. held' \in [Channel \X Key -> Nat]
    BY <1>1, <1>3, CountsTyped DEF NoteOff
  <2> QED BY <1>1, <1>3, <2>1, <2>2, <2>3 DEF TypedStep, NoteOff
<1>4. ASSUME NEW c \in Channel, AllNotesOff(c)
      PROVE  TypedStep
  <2>1. PICK n : n = IF midi.active > AllNotes THEN midi.active - AllNotes ELSE 0
    OBVIOUS
  <2>2. n \in Nat /\ NoPress \in [Channel \X Key -> Nat] /\ NoNote \in [Channel -> Nat]
    BY <1>1, <2>1, ActivationAssumption DEF NoPress, NoNote, MidiType
  <2>3. midi' = [midi EXCEPT !.counts = NoPress, !.notes = NoNote, !.active = n]
    BY <1>1, <1>4, <2>1 DEF AllNotesOff, MidiType
  <2>4. midi' \in MidiType
    BY <1>1, <2>2, <2>3 DEF MidiType
  <2> QED BY <1>1, <1>4, <2>4 DEF TypedStep, AllNotesOff, Dispatched
<1>5. ASSUME NEW c \in Channel, ResetAllControllers(c)
      PROVE  TypedStep
  <2>1. /\ [s \in Scope |-> 0] \in [Scope -> Level]
        /\ [s \in Scope |-> [x \in AnyControl |-> 0]] \in [Scope -> [AnyControl -> Level]]
    BY ActivationAssumption
  <2>2. midi' \in MidiType
    BY <1>1, <1>5, <2>1 DEF MidiType, ResetAllControllers
  <2>3. switches' \in AllSwitches
    BY <1>5, ResetDoes
  <2> QED BY <1>1, <1>5, <2>2, <2>3 DEF TypedStep, ResetAllControllers, Dispatched
<1>6. ASSUME CCSteps
      PROVE  TypedStep
  <2>1. PICK c, x, v, scoped, k, all, m : CCEffect(c, x, v, scoped, k, all, m)
    BY <1>6 DEF CCSteps
  <2>2. /\ switches' \in AllSwitches /\ started' = {} /\ m \in MidiType /\ centred' \subseteq centred
        /\ voices' \subseteq VoiceType
    BY <1>1, <2>1 DEF CCEffect, CCDone, Follows, NewVoices
  <2>3. midi' \in MidiType
    <3>1. x \in AnyControl /\ v \in Level /\ midi' = ControlStored(m, c, x, v, scoped)
      BY <2>1 DEF CCEffect
    <3>2. IsStored(midi', m, c, x, v, scoped)
      BY <2>2, <3>1, StoredTyped
    <3> QED BY <3>2 DEF IsStored
  <2> QED BY <1>1, <2>1, <2>2, <2>3 DEF TypedStep, CCEffect
<1>7. ASSUME Programs
      PROVE  TypedStep
  <2>1. PICK to \in SUBSET Scope, p \in Program : \E c : ProgramChange(to, c, p)
    BY <1>7 DEF Programs
  <2>7. PICK c : ProgramChange(to, c, p)
    BY <2>1
  <2>2. PICK g : g = [s \in Scope |-> IF s \in to THEN p ELSE midi.program[s]]
    OBVIOUS
  <2>3. midi' = [midi EXCEPT !.program = g]
    BY <1>1, <2>7, <2>2 DEF ProgramChange, MidiType
  <2>4. g \in [Scope -> Program]
    BY <1>1, <2>2 DEF MidiType
  <2>5. midi' \in MidiType
    BY <1>1, <2>3, <2>4 DEF MidiType
  <2>6. switches' \in AllSwitches
    BY <2>7, ProgramDoes
  <2> QED BY <1>1, <2>5, <2>6, <2>7 DEF TypedStep, ProgramChange, Dispatched
<1>8. ASSUME Reload
      PROVE  TypedStep
  <2>1. switches' \in AllSwitches
    <3>1. switches' = Loaded(instrument, midi')
      BY <1>8 DEF Reload, Dispatched
    <3> QED BY <1>1, <3>1, LoadedTyped
  <2>2. PICK g : g = [p \in Scope \X Key |-> IF p[1] = Omni THEN midi.poly[p] ELSE 0]
    OBVIOUS
  <2>3. g \in [Scope \X Key -> Level] /\ NoPress \in [Channel \X Key -> Nat] /\ NoNote \in [Channel -> Nat]
    BY <1>1, <2>2, ActivationAssumption DEF MidiType, NoPress, NoNote
  <2>4. midi' = [midi EXCEPT !.counts = NoPress, !.notes = NoNote, !.active = 0, !.poly = g]
    BY <1>1, <1>8, <2>2 DEF Reload, MidiType
  <2>5. midi' \in MidiType
    BY <1>1, <2>3, <2>4 DEF MidiType
  <2>6. currentSwitch' \in [Scope -> Key \cup {None}]
    BY <1>1, <1>8, LayersAre DEF Reload
  <2> QED BY <1>1, <1>8, <2>1, <2>5, <2>6 DEF TypedStep, Reload, Dispatched
<1>9. ASSUME (\E v \in voices : VoiceEnds(v)) \/ UNCHANGED vars
      PROVE  TypedStep
  BY <1>1, <1>9 DEF TypedStep, VoiceEnds, vars
<1> QED BY <1>2, <1>3, <1>4, <1>5, <1>6, <1>7, <1>8, <1>9, Steps

-----------------------------------------------------------------------------
(* Key switches.                                                           *)

KeysStay == \A i \in DOMAIN L : \A s \in ScopesOf(L[i]) :
  switches'[i][s].key = switches[i][s].key

(* All other messages: no key is pressed, nothing is loaded.               *)
OtherSteps ==
  \/ \E c \in Channel : AllNotesOff(c) \/ ResetAllControllers(c)
  \/ CCSteps \/ Programs \/ (\E v \in voices : VoiceEnds(v)) \/ UNCHANGED vars

LEMMA SwitchTyped ==
  ASSUME TypeOK, NEW i \in DOMAIN L, NEW s \in ScopesOf(L[i])
  PROVE  /\ switches[i][s] \in Switch /\ L[i] \in Layer /\ s \in Scope
         /\ switches[i][s].key \in BOOLEAN /\ switches[i][s].counter \in Nat
         /\ switches[i][s].sequence \in BOOLEAN
<1>1. switches[i][s] \in Switch /\ L[i] \in Layer
  BY AllSwitchesAre, LayersAre DEF TypeOK
<1>2. ScopesOf(L[i]) \subseteq Scope
  BY <1>1, LayerFields DEF ScopesOf, Scope
<1> QED BY <1>1, <1>2 DEF Switch

LEMMA OthersKeep ==
  ASSUME TypeOK, OtherSteps
  PROVE  /\ KeysStay
         /\ UNCHANGED <<instrument, currentSwitch, held>>
<1>1. ASSUME CCSteps
      PROVE  KeysStay /\ UNCHANGED <<instrument, currentSwitch, held>>
  <2>1. PICK c, x, v, scoped, k, all, m : CCEffect(c, x, v, scoped, k, all, m)
    BY <1>1 DEF CCSteps
  <2>2. ASSUME NEW i \in DOMAIN L, NEW s \in ScopesOf(L[i])
        PROVE  switches'[i][s].key = switches[i][s].key
    <3>1. all[i][s]["key"] = switches[i][s]["key"]
      BY <2>1 DEF CCEffect, Follows, Alike
    <3>2. switches'[i][s].key = all[i][s].key
      BY <2>1 DEF CCEffect, CCDone
    <3> QED BY <3>1, <3>2
  <2> QED BY <2>1, <2>2 DEF KeysStay, CCEffect
<1>2. ASSUME Programs
      PROVE  KeysStay /\ UNCHANGED <<instrument, currentSwitch, held>>
  <2>1. PICK to \in SUBSET Scope, p \in Program : \E c : ProgramChange(to, c, p)
    BY <1>2 DEF Programs
  <2>2. PICK c : ProgramChange(to, c, p)
    BY <2>1
  <2>3. ASSUME NEW i \in DOMAIN L, NEW s \in ScopesOf(L[i])
        PROVE  switches'[i][s].key = switches[i][s].key
    <3>1. switches'[i][s] = WithProgram(switches[i][s], Programmed(L[i], p))
      BY <2>2, ProgramDoes
    <3> QED BY <3>1, SwitchTyped, WithFields
  <2> QED BY <2>2, <2>3 DEF KeysStay, ProgramChange
<1>3. ASSUME NEW c \in Channel, ResetAllControllers(c)
      PROVE  KeysStay /\ UNCHANGED <<instrument, currentSwitch, held>>
  <2>1. ASSUME NEW i \in DOMAIN L, NEW s \in ScopesOf(L[i])
        PROVE  switches'[i][s].key = switches[i][s].key
    <3>1. switches'[i][s] = WithOff(switches[i][s], ResetOff(L[i]))
      BY <1>3, ResetDoes
    <3> QED BY <3>1, SwitchTyped, WithFields
  <2> QED BY <1>3, <2>1 DEF KeysStay, ResetAllControllers
<1>4. ASSUME (\E c \in Channel : AllNotesOff(c)) \/ (\E v \in voices : VoiceEnds(v)) \/ UNCHANGED vars
      PROVE  KeysStay /\ UNCHANGED <<instrument, currentSwitch, held>>
  <2>1. switches' = switches /\ UNCHANGED <<instrument, currentSwitch, held>>
    BY <1>4 DEF AllNotesOff, Dispatched, VoiceEnds, vars
  <2> QED BY <2>1 DEF KeysStay
<1> QED BY <1>1, <1>2, <1>3, <1>4 DEF OtherSteps

LEMMA SplitSteps ==
  ASSUME TypeOK, [Next]_vars
  PROVE  \/ \E c \in Channel, k \in Key : NoteOn(c, k) \/ NoteOff(c, k)
         \/ Reload \/ OtherSteps
BY Steps DEF OtherSteps

LatestAt(key, current, l) == l.last # {} => (key <=> current \in l.last)

LEMMA LatestKept ==
  ASSUME TypeOK, KeySwitchIsLatest, [Next]_vars
  PROVE  KeySwitchIsLatest'
<1>1. /\ instrument \in Instruments /\ switches \in AllSwitches
      /\ currentSwitch \in [Scope -> Key \cup {None}]
      /\ TypeOK' /\ L' = L /\ instrument' = instrument
  <2>1. TypeOK' /\ instrument' = instrument
    BY NextTypes, SplitSteps, OthersKeep DEF NoteOn, NoteOff, Reload
  <2> QED BY <2>1, SameLayers DEF TypeOK
<1>2. ASSUME NEW i \in DOMAIN L, NEW s \in ScopesOf(L[i])
      PROVE  LatestAt(switches[i][s].key, currentSwitch[s], L[i])
  BY <1>2 DEF KeySwitchIsLatest, LatestAt
<1> SUFFICES ASSUME NEW i \in DOMAIN L, NEW s \in ScopesOf(L[i])
             PROVE  LatestAt(switches'[i][s].key, currentSwitch'[s], L[i])
  BY <1>1 DEF KeySwitchIsLatest, LatestAt
<1>3. s \in Scope /\ Omni \in Scope
  BY SwitchTyped DEF Scope
<1>4. ASSUME NEW c \in Channel, NEW k \in Key, NoteOn(c, k)
      PROVE  LatestAt(switches'[i][s].key, currentSwitch'[s], L[i])
  <2>1. NoteKeys(switches'[i][s].key, switches[i][s].key, i, L[i], s, c, k)
    BY <1>4, NoteOnDoes DEF NoteChanges, NoteChange
  <2>2. s \in {Omni, c} <=> Hears(L[i], c) /\ s = ScopeOf(L[i], c)
    BY <1>1, ScopeReached
  <2>3. c \in Scope
    BY DEF Scope
  <2>4. currentSwitch'[s] = IF IsLast(k) /\ s \in {Omni, c} THEN k ELSE currentSwitch[s]
    BY <1>1, <1>3, <1>4, <2>3 DEF NoteOn
  <2>5. k \in L[i].last => IsLast(k)
    BY DEF IsLast
  <2>6. L[i].last # {} =>
          switches'[i][s].key = IF s \in {Omni, c} /\ k \in L[i].last THEN TRUE
             ELSE IF IsLast(k) /\ s \in {Omni, c} /\ currentSwitch[s] # k /\ currentSwitch[s] \in L[i].last
             THEN FALSE ELSE switches[i][s].key
    BY <2>1, <2>2 DEF NoteKeys, Leaves
  <2> QED BY <1>2, <2>4, <2>5, <2>6 DEF LatestAt
<1>5. ASSUME NEW c \in Channel, NEW k \in Key, NoteOff(c, k)
      PROVE  LatestAt(switches'[i][s].key, currentSwitch'[s], L[i])
  <2>1. switches' = Lifted(switches, {<<c, k>>}) /\ currentSwitch' = currentSwitch
    BY <1>5 DEF NoteOff, Dispatched
  <2>2. Lighter(L[i], switches'[i][s].key, switches[i][s].key)
    BY <1>1, <2>1, LiftedIs
  <2> QED BY <1>2, <2>1, <2>2 DEF Lighter, LatestAt
<1>6. ASSUME Reload
      PROVE  LatestAt(switches'[i][s].key, currentSwitch'[s], L[i])
  <2>1. PICK m : switches' = Loaded(instrument, m)
    BY <1>6 DEF Reload, Dispatched
  <2>2. switches'[i][s] = Initial(L[i], s, m, instrument.default)
    BY <1>1, <2>1, LoadedTyped
  <2>3. currentSwitch'[s] = instrument.default
    BY <1>3, <1>6 DEF Reload
  <2>4. switches'[i][s].key =
          (IF L[i].last # {} THEN instrument.default \in L[i].last ELSE L[i].down = {})
    BY <2>2, SwitchTyped, InitialTyped
  <2> QED BY <2>3, <2>4 DEF LatestAt
<1>7. ASSUME OtherSteps
      PROVE  LatestAt(switches'[i][s].key, currentSwitch'[s], L[i])
  <2>1. Lighter(L[i], switches'[i][s].key, switches[i][s].key) /\ currentSwitch' = currentSwitch
    BY <1>7, OthersKeep DEF KeysStay, Lighter
  <2> QED BY <1>2, <2>1 DEF Lighter, LatestAt
<1> QED BY <1>4, <1>5, <1>6, <1>7, SplitSteps

(* sw_down is on, and sw_up off, only while a source in scope holds a key. *)
Holds(s, k) == \E c \in Channel : s \in {Omni, c} /\ held[<<c, k>>] > 0
SwitchNeedsKey ==
  \A n \in DOMAIN L : \A s \in ScopesOf(L[n]) :
    /\ L[n].down # {} /\ switches[n][s].key => \E k \in L[n].down : Holds(s, k)
    /\ L[n].up # {} /\ ~switches[n][s].key => \E k \in L[n].up : Holds(s, k)

NeedsAt(key, l, s) ==
  /\ l.down # {} /\ key => \E k \in l.down : Holds(s, k)
  /\ l.up # {} /\ ~key => \E k \in l.up : Holds(s, k)

HoldsNext(s, k) == \E c \in Channel : s \in {Omni, c} /\ held'[<<c, k>>] > 0
NeedsAfter(key, l, s) ==
  /\ l.down # {} /\ key => \E k \in l.down : HoldsNext(s, k)
  /\ l.up # {} /\ ~key => \E k \in l.up : HoldsNext(s, k)

LEMMA HeldAt ==
  ASSUME TypeOK, NEW c \in Channel, NEW k \in Key
  PROVE  held[<<c, k>>] \in Nat
BY DEF TypeOK

LEMMA LayerKeys ==
  ASSUME instrument \in Instruments, NEW i \in DOMAIN L
  PROVE  L[i].down \subseteq Key /\ L[i].up \subseteq Key /\ L[i].last \subseteq Key
BY LayersAre DEF Layer

LEMMA NeedsKept ==
  ASSUME TypeOK, SwitchNeedsKey, [Next]_vars
  PROVE  SwitchNeedsKey'
<1>1. /\ instrument \in Instruments /\ switches \in AllSwitches /\ held \in [Channel \X Key -> Nat]
      /\ TypeOK' /\ L' = L /\ instrument' = instrument
  <2>1. TypeOK' /\ instrument' = instrument
    BY NextTypes, SplitSteps, OthersKeep DEF NoteOn, NoteOff, Reload
  <2> QED BY <2>1, SameLayers DEF TypeOK
<1>2. ASSUME NEW i \in DOMAIN L, NEW s \in ScopesOf(L[i])
      PROVE  NeedsAt(switches[i][s].key, L[i], s)
  BY <1>2 DEF SwitchNeedsKey, NeedsAt
<1> SUFFICES ASSUME NEW i \in DOMAIN L, NEW s \in ScopesOf(L[i])
             PROVE  NeedsAfter(switches'[i][s].key, L[i], s)
  BY <1>1 DEF SwitchNeedsKey, NeedsAfter, HoldsNext, Holds
<1>3. L[i].down \subseteq Key /\ L[i].up \subseteq Key
  BY <1>1, LayerKeys
<1>4. ASSUME NEW c \in Channel, NEW k \in Key, NoteOn(c, k)
      PROVE  NeedsAfter(switches'[i][s].key, L[i], s)
  <2>1. NoteKeys(switches'[i][s].key, switches[i][s].key, i, L[i], s, c, k)
    BY <1>4, NoteOnDoes DEF NoteChanges, NoteChange
  <2>2. s \in {Omni, c} <=> Hears(L[i], c) /\ s = ScopeOf(L[i], c)
    BY <1>1, ScopeReached
  <2>3. held' = [held EXCEPT ![<<c, k>>] = @ + 1] /\ held[<<c, k>>] \in Nat
    BY <1>4, HeldAt DEF NoteOn
  <2>4. held'[<<c, k>>] > 0
    BY <1>1, <2>3
  <2>5. ASSUME NEW k2 \in Key, Holds(s, k2) PROVE HoldsNext(s, k2)
    <3>1. PICK d \in Channel : s \in {Omni, d} /\ held[<<d, k2>>] > 0
      BY <2>5 DEF Holds
    <3>2. held'[<<d, k2>>] > 0
      <4>1. CASE <<d, k2>> = <<c, k>>
        BY <2>4, <4>1
      <4>2. CASE <<d, k2>> # <<c, k>>
        <5>1. <<d, k2>> \in Channel \X Key
          OBVIOUS
        <5> QED BY <1>1, <2>3, <3>1, <4>2, <5>1
      <4> QED BY <4>1, <4>2
    <3> QED BY <3>1, <3>2 DEF HoldsNext
  <2>6. s \in {Omni, c} => HoldsNext(s, k)
    BY <2>4 DEF HoldsNext
  <2> QED BY <1>2, <1>3, <2>1, <2>2, <2>5, <2>6 DEF NoteKeys, NeedsAt, NeedsAfter
<1>5. ASSUME NEW c \in Channel, NEW k \in Key, NoteOff(c, k)
      PROVE  NeedsAfter(switches'[i][s].key, L[i], s)
  <2>1. switches' = Lifted(switches, {<<c, k>>}) /\ held' = [held EXCEPT ![<<c, k>>] = Fewer(@)]
    BY <1>5 DEF NoteOff, Dispatched
  <2>2. PICK new, old : new = switches'[i][s].key /\ old = switches[i][s].key
    OBVIOUS
  <2>3. Lighter(L[i], new, old)
    BY <1>1, <2>1, <2>2, LiftedIs
  <2>4. s \in {Omni, c} <=> Hears(L[i], c) /\ s = ScopeOf(L[i], c)
    BY <1>1, ScopeReached
  <2>5. s \in {Omni, c} => (k \in L[i].down => ~new) /\ (k \in L[i].up => new)
    <3>1. \A p \in {<<c, k>>} : (Hears(L[i], p[1]) /\ s = ScopeOf(L[i], p[1])) =>
            /\ p[2] \in L[i].down => ~new
            /\ p[2] \in L[i].up => new
      BY <1>1, <2>1, <2>2, LiftedIs
    <3> QED BY <2>4, <3>1
  <2>6. ASSUME NEW k2 \in Key, Holds(s, k2), s \in {Omni, c} => k2 # k PROVE HoldsNext(s, k2)
    <3>1. PICK d \in Channel : s \in {Omni, d} /\ held[<<d, k2>>] > 0
      BY <2>6 DEF Holds
    <3>2. <<d, k2>> # <<c, k>> /\ <<d, k2>> \in Channel \X Key
      BY <2>6, <3>1
    <3>3. held'[<<d, k2>>] = held[<<d, k2>>]
      BY <1>1, <2>1, <3>2
    <3> QED BY <3>1, <3>3 DEF HoldsNext
  <2>7. NeedsAt(old, L[i], s)
    BY <1>2, <2>2
  <2>8. L[i].down # {} /\ new => \E k2 \in L[i].down : HoldsNext(s, k2)
    BY <1>3, <2>3, <2>5, <2>6, <2>7 DEF Lighter, NeedsAt
  <2>9. L[i].up # {} /\ ~new => \E k2 \in L[i].up : HoldsNext(s, k2)
    BY <1>3, <2>3, <2>5, <2>6, <2>7 DEF Lighter, NeedsAt
  <2> QED BY <2>2, <2>8, <2>9 DEF NeedsAfter
<1>6. ASSUME Reload
      PROVE  NeedsAfter(switches'[i][s].key, L[i], s)
  <2>1. PICK m : switches' = Loaded(instrument, m)
    BY <1>6 DEF Reload, Dispatched
  <2>2. switches'[i][s] = Initial(L[i], s, m, instrument.default)
    BY <1>1, <2>1, LoadedTyped
  <2>3. switches'[i][s].key =
          (IF L[i].last # {} THEN instrument.default \in L[i].last ELSE L[i].down = {})
    BY <2>2, SwitchTyped, InitialTyped
  <2>4. /\ L[i].down = {} \/ L[i].up = {}
        /\ L[i].last # {} => L[i].down = {} /\ L[i].up = {}
    BY <1>1, LayersAre
  <2> QED BY <2>3, <2>4 DEF NeedsAfter
<1>7. ASSUME OtherSteps
      PROVE  NeedsAfter(switches'[i][s].key, L[i], s)
  <2>1. Lighter(L[i], switches'[i][s].key, switches[i][s].key) /\ held' = held
    BY <1>7, OthersKeep DEF KeysStay, Lighter
  <2>2. \A k : Holds(s, k) = HoldsNext(s, k)
    BY <2>1 DEF Holds, HoldsNext
  <2> QED BY <1>2, <2>1, <2>2 DEF Lighter, NeedsAt, NeedsAfter
<1> QED BY <1>4, <1>5, <1>6, <1>7, SplitSteps

LEMMA InitKeys ==
  ASSUME Init
  PROVE  KeySwitchIsLatest /\ SwitchNeedsKey
<1>1. instrument \in Instruments /\ TypeOK
  BY InitTypes DEF TypeOK
<1>2. ASSUME NEW i \in DOMAIN L, NEW s \in ScopesOf(L[i])
      PROVE  LatestAt(switches[i][s].key, currentSwitch[s], L[i]) /\ NeedsAt(switches[i][s].key, L[i], s)
  <2>1. switches[i][s] = Initial(L[i], s, midi, instrument.default)
    BY <1>1, LoadedTyped DEF Init
  <2>2. switches[i][s].key =
          (IF L[i].last # {} THEN instrument.default \in L[i].last ELSE L[i].down = {})
    BY <1>1, <2>1, SwitchTyped, InitialTyped
  <2>3. currentSwitch[s] = instrument.default
    BY <1>1, SwitchTyped DEF Init
  <2>4. /\ L[i].down = {} \/ L[i].up = {}
        /\ L[i].last # {} => L[i].down = {} /\ L[i].up = {}
    BY <1>1, LayersAre
  <2> QED BY <2>2, <2>3, <2>4 DEF LatestAt, NeedsAt
<1> QED BY <1>2 DEF LatestAt, NeedsAt, KeySwitchIsLatest, SwitchNeedsKey

(* FollowsKeys of a step, with what it says of presses spelled out.        *)
(* SwitchEnds is what it says of releases and loads.                       *)
Press(keys, s) ==
  \E c \in Channel, k \in keys : s \in {Omni, c} /\ held'[<<c, k>>] > held[<<c, k>>]
CutNow(keys, s) == \E k \in keys : Cut(switches, started', s, k)
Release(keys, s) == \E c \in Channel, k \in keys : s \in {Omni, c} /\ NoteOff(c, k)

(* The two kinds of switches a layer has, each on while off the other way. *)
SwitchFollows(i, s) ==
  /\ L[i].down # {} =>
       /\ (Press(L[i].down, s) /\ ~CutNow(L[i].down, s)) => switches'[i][s].key
       /\ (switches'[i][s].key /\ ~switches[i][s].key) => Press(L[i].down, s)
       /\ (switches[i][s].key /\ ~switches'[i][s].key) =>
            CutNow(L[i].down, s) \/ Reload \/ Release(L[i].down, s)
  /\ L[i].up # {} =>
       /\ (Press(L[i].up, s) /\ ~CutNow(L[i].up, s)) => ~switches'[i][s].key
       /\ (~switches'[i][s].key /\ switches[i][s].key) => Press(L[i].up, s)
       /\ (~switches[i][s].key /\ switches'[i][s].key) =>
            CutNow(L[i].up, s) \/ Reload \/ Release(L[i].up, s)

SwitchEnds(i, s) ==
  /\ L[i].down # {} /\ (Reload \/ Release(L[i].down, s)) => ~switches'[i][s].key
  /\ L[i].up # {} /\ (Reload \/ Release(L[i].up, s)) => switches'[i][s].key

LEMMA EndedStep ==
  ASSUME TypeOK, [Next]_vars, NEW i \in DOMAIN L, NEW s \in ScopesOf(L[i])
  PROVE  SwitchEnds(i, s)
<1>1. /\ instrument \in Instruments /\ switches \in AllSwitches
      /\ L[i].down \subseteq Key /\ L[i].up \subseteq Key
      /\ L[i].last # {} => L[i].down = {} /\ L[i].up = {}
      /\ L[i].down = {} \/ L[i].up = {}
  BY LayerKeys, LayersAre DEF TypeOK
<1>2. ASSUME NEW c \in Channel, NEW k \in Key, NoteOff(c, k), s \in {Omni, c}
      PROVE  /\ k \in L[i].down => ~switches'[i][s].key
             /\ k \in L[i].up => switches'[i][s].key
  <2>1. switches' = Lifted(switches, {<<c, k>>})
    BY <1>2 DEF NoteOff, Dispatched
  <2>2. Hears(L[i], c) /\ s = ScopeOf(L[i], c)
    BY <1>1, <1>2, ScopeReached
  <2>3. \A p \in {<<c, k>>} : (Hears(L[i], p[1]) /\ s = ScopeOf(L[i], p[1])) =>
          /\ p[2] \in L[i].down => ~switches'[i][s].key
          /\ p[2] \in L[i].up => switches'[i][s].key
    BY <1>1, <2>1, LiftedIs
  <2> QED BY <2>2, <2>3
<1>3. ASSUME Reload
      PROVE  /\ L[i].down # {} => ~switches'[i][s].key
             /\ L[i].up # {} => switches'[i][s].key
  <2>1. PICK m : switches' = Loaded(instrument, m)
    BY <1>3 DEF Reload, Dispatched
  <2>2. switches'[i][s] = Initial(L[i], s, m, instrument.default)
    BY <1>1, <2>1, LoadedTyped
  <2>3. switches'[i][s].key =
          (IF L[i].last # {} THEN instrument.default \in L[i].last ELSE L[i].down = {})
    BY <2>2, SwitchTyped, InitialTyped
  <2> QED BY <1>1, <2>3
<1> QED BY <1>1, <1>2, <1>3 DEF SwitchEnds, Release

LEMMA FollowedStep ==
  ASSUME TypeOK, [Next]_vars, NEW i \in DOMAIN L, NEW s \in ScopesOf(L[i])
  PROVE  SwitchFollows(i, s)
<1>1. /\ instrument \in Instruments /\ switches \in AllSwitches /\ held \in [Channel \X Key -> Nat]
      /\ L[i].down \subseteq Key /\ L[i].up \subseteq Key
      /\ L[i].down = {} \/ L[i].up = {}
      /\ L[i].last # {} => L[i].down = {} /\ L[i].up = {}
  BY LayerKeys, LayersAre DEF TypeOK
<1>2. ASSUME NEW c \in Channel, NEW k \in Key, NoteOn(c, k)
      PROVE  SwitchFollows(i, s)
  <2>1. s \in {Omni, c} <=> Hears(L[i], c) /\ s = ScopeOf(L[i], c)
    BY <1>1, ScopeReached
  <2>2. \A p \in Channel \X Key : held'[p] > held[p] <=> p = <<c, k>>
    BY <1>1, <1>2 DEF NoteOn
  <2>3. ASSUME NEW keys \in SUBSET Key PROVE Press(keys, s) <=> s \in {Omni, c} /\ k \in keys
    <3>1. ASSUME NEW d \in Channel, NEW k2 \in keys
          PROVE  held'[<<d, k2>>] > held[<<d, k2>>] <=> d = c /\ k2 = k
      <4>1. <<d, k2>> \in Channel \X Key
        OBVIOUS
      <4> QED BY <2>2, <4>1
    <3> QED BY <3>1 DEF Press
  <2>4. NoteCauses(i, s, c, k) /\ NoteKeys(switches'[i][s].key, switches[i][s].key, i, L[i], s, c, k)
    BY <1>2, NoteOnDoes DEF NoteChanges, NoteChange
  <2>5. CASE L[i].down # {}
    <3>1. L[i].last = {} /\ L[i].up = {} /\ L[i].down \cup L[i].up = L[i].down
      BY <1>1, <2>5
    <3>2. Press(L[i].down, s) <=> Hears(L[i], c) /\ s = ScopeOf(L[i], c) /\ k \in L[i].down
      BY <1>1, <2>1, <2>3
    <3>3. \/ switches'[i][s].key = PressedKey(switches[i][s].key, L[i], s, c, k)
          \/ CutNow(L[i].down, s)
      BY <2>4, <3>1 DEF NoteCauses, CutNow
    <3>4. switches'[i][s].key => switches[i][s].key \/ Press(L[i].down, s)
      BY <2>4, <2>5, <3>2 DEF NoteKeys
    <3> QED BY <3>1, <3>2, <3>3, <3>4 DEF SwitchFollows, PressedKey
  <2>6. CASE L[i].up # {}
    <3>1. L[i].last = {} /\ L[i].down = {} /\ L[i].down \cup L[i].up = L[i].up
      BY <1>1, <2>6
    <3>2. Press(L[i].up, s) <=> Hears(L[i], c) /\ s = ScopeOf(L[i], c) /\ k \in L[i].up
      BY <1>1, <2>1, <2>3
    <3>3. \/ switches'[i][s].key = PressedKey(switches[i][s].key, L[i], s, c, k)
          \/ CutNow(L[i].up, s)
      BY <2>4, <3>1 DEF NoteCauses, CutNow
    <3>4. switches[i][s].key => switches'[i][s].key \/ Press(L[i].up, s)
      BY <2>4, <2>6, <3>2 DEF NoteKeys
    <3> QED BY <3>1, <3>2, <3>3, <3>4 DEF SwitchFollows, PressedKey
  <2> QED BY <2>5, <2>6 DEF SwitchFollows
<1>3. ASSUME held' = held PROVE \A keys \in SUBSET Key : ~Press(keys, s)
  <2>1. \A p \in Channel \X Key : ~(held'[p] > held[p])
    BY <1>1, <1>3
  <2> QED BY <2>1 DEF Press
<1>4. ASSUME NEW c \in Channel, NEW k \in Key, NoteOff(c, k)
      PROVE  SwitchFollows(i, s)
  <2>1. switches' = Lifted(switches, {<<c, k>>}) /\ held' = [held EXCEPT ![<<c, k>>] = Fewer(@)]
    BY <1>4 DEF NoteOff, Dispatched
  <2>2. \A p \in Channel \X Key : ~(held'[p] > held[p])
    BY <1>1, <2>1 DEF Fewer
  <2>3. \A keys \in SUBSET Key : ~Press(keys, s)
    BY <2>2 DEF Press
  <2>4. Lighter(L[i], switches'[i][s].key, switches[i][s].key)
    BY <1>1, <2>1, LiftedIs
  <2>5. switches'[i][s].key # switches[i][s].key =>
          /\ Hears(L[i], c) /\ s = ScopeOf(L[i], c)
          /\ k \in L[i].down \cup L[i].up
    <3>1. switches'[i][s].key # switches[i][s].key =>
            \E p \in {<<c, k>>} : /\ Hears(L[i], p[1]) /\ s = ScopeOf(L[i], p[1])
                                 /\ p[2] \in L[i].down \cup L[i].up
      BY <1>1, <2>1, LiftedIs
    <3> QED BY <3>1
  <2>6. switches'[i][s].key # switches[i][s].key =>
          /\ L[i].down # {} => Release(L[i].down, s)
          /\ L[i].up # {} => Release(L[i].up, s)
    <3>1. s \in {Omni, c} <=> Hears(L[i], c) /\ s = ScopeOf(L[i], c)
      BY <1>1, ScopeReached
    <3> QED BY <1>1, <1>4, <2>5, <3>1 DEF Release
  <2> QED BY <1>1, <2>3, <2>4, <2>6 DEF SwitchFollows, Lighter
<1>5. ASSUME Reload
      PROVE  SwitchFollows(i, s)
  <2>1. PICK m : switches' = Loaded(instrument, m)
    BY <1>5 DEF Reload, Dispatched
  <2>2. switches'[i][s] = Initial(L[i], s, m, instrument.default)
    BY <1>1, <2>1, LoadedTyped
  <2>3. switches'[i][s].key =
          (IF L[i].last # {} THEN instrument.default \in L[i].last ELSE L[i].down = {})
    BY <2>2, SwitchTyped, InitialTyped
  <2>4. \A keys \in SUBSET Key : ~Press(keys, s)
    BY <1>3, <1>5 DEF Reload
  <2> QED BY <1>1, <1>5, <2>3, <2>4 DEF SwitchFollows
<1>6. ASSUME OtherSteps
      PROVE  SwitchFollows(i, s)
  <2>1. switches'[i][s].key = switches[i][s].key /\ held' = held
    BY <1>6, OthersKeep DEF KeysStay
  <2> QED BY <1>1, <1>3, <2>1 DEF SwitchFollows
<1> QED BY <1>2, <1>4, <1>5, <1>6, SplitSteps

-----------------------------------------------------------------------------
(* The switches, the MIDI state and the presses have their types in every  *)
(* state, whatever the instrument.                                         *)
THEOREM TypesInvariant == Spec => []TypeOK
<1>1. Init => TypeOK
  BY InitTypes
<1>2. TypeOK /\ [Next]_vars => TypeOK'
  BY NextTypes
<1> QED BY <1>1, <1>2, PTL DEF Spec

(* A layer with sw_last is switched on for a source exactly while its key  *)
(* switch is the latest one (Synth::noteOn and its lists of key switches). *)
THEOREM KeySwitches == Spec => []KeySwitchIsLatest
<1>1. Init => TypeOK /\ KeySwitchIsLatest
  BY InitTypes, InitKeys
<1>2. TypeOK /\ KeySwitchIsLatest /\ [Next]_vars => KeySwitchIsLatest'
  BY LatestKept
<1> QED BY <1>1, <1>2, TypesInvariant, PTL DEF Spec

(* sw_down is on, and sw_up off, only while a source in scope holds one of *)
(* their keys (Layer::setKeySwitched, and checkOffGroups).                 *)
THEOREM SwitchesNeedKeys == Spec => []SwitchNeedsKey
<1>1. Init => SwitchNeedsKey
  BY InitKeys
<1>2. TypeOK /\ SwitchNeedsKey /\ [Next]_vars => SwitchNeedsKey'
  BY NeedsKept
<1> QED BY <1>1, <1>2, TypesInvariant, PTL DEF Spec

(* sw_down goes on, and sw_up off, with the press of a key in scope only.  *)
(* A Note Off or a load ends that always, a note that chokes one of a key  *)
(* may, and nothing else does (Synth::Impl::noteOffDispatch, from          *)
(* checkOffGroups).                                                        *)
THEOREM SwitchesFollow == Spec => SwitchesFollowKeys
<1> DEFINE Followed == \A n \in DOMAIN L : \A s \in ScopesOf(L[n]) :
       /\ L[n].down # {} =>
            FollowsKeys(L[n].down, s, switches[n][s].key, switches'[n][s].key)
       /\ L[n].up # {} =>
            FollowsKeys(L[n].up, s, ~switches[n][s].key, ~switches'[n][s].key)
<1>1. TypeOK /\ [Next]_vars => [Followed]_vars
  <2> SUFFICES ASSUME TypeOK, [Next]_vars, NEW n \in DOMAIN L, NEW s \in ScopesOf(L[n])
               PROVE  /\ L[n].down # {} =>
                           FollowsKeys(L[n].down, s, switches[n][s].key, switches'[n][s].key)
                      /\ L[n].up # {} =>
                           FollowsKeys(L[n].up, s, ~switches[n][s].key, ~switches'[n][s].key)
    BY Zenon
  <2>1. SwitchFollows(n, s) /\ SwitchEnds(n, s)
    BY FollowedStep, EndedStep, Zenon
  <2> QED BY <2>1, Zenon DEF SwitchFollows, SwitchEnds, FollowsKeys, Press, CutNow, Release
<1> QED BY <1>1, TypesInvariant, PTL DEF Spec, SwitchesFollowKeys

-----------------------------------------------------------------------------
(* Conditions.                                                             *)

CurrentAt(f, l, s, m, exempt) ==
  /\ f.off = Noted(m.controls[s], l)
  /\ f.pressure <=> m.pressure[s] \in l.pressure
  /\ s \in exempt \/ (f.wheel <=> m.wheel[s] \in l.wheel)
  /\ l.restricted \/ (f.program <=> m.program[Omni] \in l.programs)

(* What leaves the conditions alone.                                       *)
SameConditions(new, old) ==
  new.off = old.off /\ new.pressure = old.pressure /\ new.wheel = old.wheel /\ new.program = old.program

LEMMA CountingKeeps ==
  ASSUME TypeOK, NEW c \in Channel, NEW k \in Key, NEW m \in {NoteCountedOn(c, k), NoteCountedOff(c, k)}
  PROVE  /\ m.controls = midi.controls /\ m.pressure = midi.pressure
         /\ m.wheel = midi.wheel /\ m.program = midi.program
<1>1. midi \in MidiType
  BY DEF TypeOK
<1>2. CASE m = NoteCountedOn(c, k)
  BY <1>1, <1>2 DEF NoteCountedOn, MidiType
<1>3. CASE m = NoteCountedOff(c, k)
  BY <1>1, <1>3 DEF NoteCountedOff, MidiType
<1> QED BY <1>2, <1>3

LEMMA NotedAfter ==
  ASSUME NEW g \in [AnyControl -> Level], NEW l, NEW x \in AnyControl, NEW v
  PROVE  Noted([g EXCEPT ![x] = v], l) = OffAfter(l, Noted(g, l), x, v)
<1>1. \A y \in AnyControl : [g EXCEPT ![x] = v][y] = IF y = x THEN v ELSE g[y]
  OBVIOUS
<1> QED BY <1>1 DEF Noted, OffAfter

LEMMA ReachIs ==
  ASSUME instrument \in Instruments, NEW c \in Channel, NEW scoped \in BOOLEAN,
         NEW i \in DOMAIN L, NEW s \in ScopesOf(L[i])
  PROVE  s \in InReach(L[i], c, scoped) <=> s \in {Omni, c} \/ ~scoped
<1>1. L[i] \in Layer /\ s \in Scope
  BY LayersAre, ScopeReached
<1>2. L[i].restricted => L[i].channels \subseteq Channel /\ Omni \notin L[i].channels
  BY <1>1, LayerFields, ActivationAssumption
<1> QED BY <1>2 DEF InReach, ScopesOf

LEMMA ConditionsKept ==
  ASSUME TypeOK, ConditionsCurrent, [Next]_vars
  PROVE  ConditionsCurrent'
<1>1. /\ instrument \in Instruments /\ switches \in AllSwitches /\ midi \in MidiType
      /\ L' = L /\ instrument' = instrument
  <2>1. instrument' = instrument
    BY SplitSteps, OthersKeep DEF NoteOn, NoteOff, Reload
  <2> QED BY <2>1, SameLayers DEF TypeOK
<1>2. ASSUME NEW i \in DOMAIN L, NEW s \in ScopesOf(L[i])
      PROVE  CurrentAt(switches[i][s], L[i], s, midi, centred)
  BY <1>2 DEF ConditionsCurrent, CurrentAt, Noted
<1> SUFFICES ASSUME NEW i \in DOMAIN L, NEW s \in ScopesOf(L[i])
             PROVE  CurrentAt(switches'[i][s], L[i], s, midi', centred')
  BY <1>1 DEF ConditionsCurrent, CurrentAt, Noted
<1>3. PICK new, old, l : new = switches'[i][s] /\ old = switches[i][s] /\ l = L[i]
  OBVIOUS
<1>4. /\ old \in Switch /\ l \in Layer /\ s \in Scope /\ Omni \in Scope
      /\ CurrentAt(old, l, s, midi, centred)
  BY <1>2, <1>3, SwitchTyped DEF Scope
<1>5. ASSUME SameConditions(new, old), centred' = centred,
             midi'.controls = midi.controls, midi'.pressure = midi.pressure,
             midi'.wheel = midi.wheel, midi'.program = midi.program
      PROVE  CurrentAt(new, l, s, midi', centred')
  BY <1>4, <1>5 DEF CurrentAt, SameConditions
<1>6. ASSUME NEW c \in Channel, NEW k \in Key, NoteOn(c, k)
      PROVE  CurrentAt(new, l, s, midi', centred')
  <2>1. SameConditions(new, old)
    BY <1>3, <1>6, NoteOnDoes DEF NoteChanges, NoteChange, NoteKeeps, SameConditions
  <2>2. midi' = NoteCountedOn(c, k) /\ centred' = centred
    BY <1>6 DEF NoteOn
  <2> QED BY <1>5, <2>1, <2>2, CountingKeeps
<1>7. ASSUME NEW c \in Channel, NEW k \in Key, NoteOff(c, k)
      PROVE  CurrentAt(new, l, s, midi', centred')
  <2>1. switches' = Lifted(switches, {<<c, k>>})
    BY <1>7 DEF NoteOff, Dispatched
  <2>2. new = WithKey(old, new.key)
    BY <1>1, <1>3, <2>1, LiftedIs
  <2>3. SameConditions(new, old)
    BY <1>4, <2>2 DEF WithKey, Switch, SameConditions
  <2>4. midi' = NoteCountedOff(c, k) /\ centred' = centred
    BY <1>7 DEF NoteOff
  <2> QED BY <1>5, <2>3, <2>4, CountingKeeps
<1>8. ASSUME NEW c \in Channel, ResetAllControllers(c)
      PROVE  CurrentAt(new, l, s, midi', centred')
  <2>1. new = WithOff(old, ResetOff(l))
    BY <1>3, <1>8, ResetDoes
  <2>2. /\ new.off = ResetOff(l) /\ new.pressure = old.pressure /\ new.program = old.program
    BY <1>4, <2>1, WithFields
  <2>3. /\ midi'.controls = [t \in Scope |-> [x \in AnyControl |-> 0]]
        /\ midi'.pressure = midi.pressure /\ midi'.program = midi.program /\ centred' = Scope
    BY <1>1, <1>8 DEF ResetAllControllers, MidiType
  <2>4. Noted(midi'.controls[s], l) = ResetOff(l)
    BY <1>4, <2>3 DEF Noted, ResetOff
  <2> QED BY <1>4, <2>2, <2>3, <2>4 DEF CurrentAt
<1>9. ASSUME CCSteps
      PROVE  CurrentAt(new, l, s, midi', centred')
  <2>1. PICK c, x, v, scoped, k, all, m : CCEffect(c, x, v, scoped, k, all, m)
    BY <1>9 DEF CCSteps
  <2>2. PICK mid : mid = all[i][s]
    OBVIOUS
  <2>3. /\ Noticed(l, s, mid, old, m) /\ centred' \subseteq centred
        /\ mid["off"] = old["off"] /\ mid["program"] = old["program"]
        /\ m.program = midi.program /\ m.controls = midi.controls
    BY <1>3, <2>1, <2>2 DEF CCEffect, Follows, Alike, Rest
  <2>4. m \in MidiType /\ x \in AnyControl /\ v \in Level /\ c \in Channel /\ scoped \in BOOLEAN
    BY <2>1 DEF CCEffect, Follows
  <2>5. /\ new.off = CCOffs(all, c, x, v, scoped)[i][s]
        /\ new.pressure = mid.pressure /\ new.wheel = mid.wheel /\ new.program = mid.program
    BY <1>3, <2>1, <2>2 DEF CCEffect, CCDone, PassedAt, Passed
  <2>6. /\ midi'.program = m.program /\ midi'.wheel = m.wheel /\ midi'.pressure = m.pressure
        /\ midi'.controls[s] = IF s \in {Omni, c} \/ ~scoped THEN [m.controls[s] EXCEPT ![x] = v]
                               ELSE m.controls[s]
    <3>1. midi' = ControlStored(m, c, x, v, scoped)
      BY <2>1 DEF CCEffect
    <3>2. IsStored(midi', m, c, x, v, scoped)
      BY <2>4, <3>1, StoredTyped
    <3> QED BY <1>4, <3>2 DEF IsStored
  <2>7. m.controls[s] \in [AnyControl -> Level]
    BY <1>4, <2>4 DEF MidiType
  <2>8. new.off = IF s \in {Omni, c} \/ ~scoped THEN OffAfter(l, old.off, x, v) ELSE old.off
    <3>1. s \in InReach(l, c, scoped) <=> s \in {Omni, c} \/ ~scoped
      BY <1>1, <1>3, <2>4, ReachIs
    <3>2. CCOffs(all, c, x, v, scoped)[i][s] =
            IF s \in InReach(l, c, scoped) THEN OffAfter(l, mid.off, x, v) ELSE mid.off
      BY <1>3, <2>2 DEF CCOffs
    <3> QED BY <2>3, <2>5, <3>1, <3>2
  <2>9. old.off = Noted(m.controls[s], l)
    BY <1>4, <2>3 DEF CurrentAt
  <2>10. new.off = Noted(midi'.controls[s], l)
    BY <2>4, <2>6, <2>7, <2>8, <2>9, NotedAfter
  <2>11. (new.pressure <=> midi'.pressure[s] \in l.pressure)
    BY <1>4, <2>3, <2>5, <2>6 DEF CurrentAt, Noticed
  <2>12. s \in centred' \/ (new.wheel <=> midi'.wheel[s] \in l.wheel)
    BY <1>4, <2>3, <2>5, <2>6 DEF CurrentAt, Noticed
  <2>13. l.restricted \/ (new.program <=> midi'.program[Omni] \in l.programs)
    BY <1>4, <2>3, <2>5, <2>6 DEF CurrentAt
  <2> QED BY <2>10, <2>11, <2>12, <2>13 DEF CurrentAt
<1>10. ASSUME Programs
       PROVE  CurrentAt(new, l, s, midi', centred')
  <2>1. PICK to \in SUBSET Scope, p \in Program : \E c : Omni \in to /\ ProgramChange(to, c, p)
    BY <1>10 DEF Programs
  <2>2. PICK c : Omni \in to /\ ProgramChange(to, c, p)
    BY <2>1
  <2>3. new = WithProgram(old, Programmed(l, p))
    BY <1>3, <2>2, ProgramDoes
  <2>4. /\ new.off = old.off /\ new.pressure = old.pressure /\ new.wheel = old.wheel
        /\ new.program = Programmed(l, p)
    BY <1>4, <2>3, WithFields
  <2>5. /\ midi'.controls = midi.controls /\ midi'.pressure = midi.pressure
        /\ midi'.wheel = midi.wheel /\ midi'.program[Omni] = p /\ centred' = centred
    BY <1>1, <1>4, <2>2 DEF ProgramChange, MidiType
  <2> QED BY <1>4, <2>4, <2>5 DEF CurrentAt, Programmed
<1>11. ASSUME Reload
       PROVE  CurrentAt(new, l, s, midi', centred')
  <2>1. new = Initial(l, s, midi', instrument.default)
    <3>1. switches' = Loaded(instrument, midi')
      BY <1>11 DEF Reload, Dispatched
    <3> QED BY <1>1, <1>3, <3>1, LoadedTyped
  <2>2. /\ new.wheel = (midi'.wheel[s] \in l.wheel) /\ new.pressure = (midi'.pressure[s] \in l.pressure)
        /\ new.program = (midi'.program[Omni] \in l.programs)
        /\ new.off = Noted(midi'.controls[s], l)
    BY <1>4, <2>1, InitialTyped
  <2> QED BY <2>2 DEF CurrentAt
<1>12. ASSUME (\E c \in Channel : AllNotesOff(c)) \/ (\E v \in voices : VoiceEnds(v)) \/ UNCHANGED vars
       PROVE  CurrentAt(new, l, s, midi', centred')
  <2>1. new = old /\ centred' = centred
    BY <1>3, <1>12 DEF AllNotesOff, Dispatched, VoiceEnds, vars
  <2>2. /\ midi'.controls = midi.controls /\ midi'.pressure = midi.pressure
        /\ midi'.wheel = midi.wheel /\ midi'.program = midi.program
    BY <1>1, <1>12 DEF AllNotesOff, VoiceEnds, vars, MidiType
  <2> QED BY <1>5, <2>1, <2>2 DEF SameConditions
<1> QED BY <1>3, <1>6, <1>7, <1>8, <1>9, <1>10, <1>11, <1>12, Steps

LEMMA InitConditions ==
  ASSUME Init
  PROVE  ConditionsCurrent
<1>1. instrument \in Instruments /\ TypeOK
  BY InitTypes DEF TypeOK
<1>2. ASSUME NEW i \in DOMAIN L, NEW s \in ScopesOf(L[i])
      PROVE  CurrentAt(switches[i][s], L[i], s, midi, centred)
  <2>1. switches[i][s] = Initial(L[i], s, midi, instrument.default)
    BY <1>1, LoadedTyped DEF Init
  <2>2. PICK f, l : f = switches[i][s] /\ l = L[i]
    OBVIOUS
  <2>3. /\ f.wheel = (midi.wheel[s] \in l.wheel) /\ f.pressure = (midi.pressure[s] \in l.pressure)
        /\ f.program = (midi.program[Omni] \in l.programs)
        /\ f.off = Noted(midi.controls[s], l)
    BY <1>1, <2>1, <2>2, SwitchTyped, InitialTyped
  <2> QED BY <2>2, <2>3 DEF CurrentAt
<1> QED BY <1>2 DEF CurrentAt, ConditionsCurrent, Noted

(* The conditions a layer has noted are those MidiState would give it now  *)
(* (Layer::updateCCState, registerPitchWheel, registerAftertouch,          *)
(* registerProgramChange, and Synth::resetAllControllers).                 *)
THEOREM Conditions == Spec => []ConditionsCurrent
<1>1. Init => ConditionsCurrent
  BY InitConditions
<1>2. TypeOK /\ ConditionsCurrent /\ [Next]_vars => ConditionsCurrent'
  BY ConditionsKept
<1> QED BY <1>1, <1>2, TypesInvariant, PTL DEF Spec

-----------------------------------------------------------------------------
(* Sources.                                                                *)

Elsewhere(new, old, chokes, last) ==
  /\ [new EXCEPT !.off = @ \ Extended, !.key = FALSE] = [old EXCEPT !.off = @ \ Extended, !.key = FALSE]
  /\ new.key = old.key \/ (chokes /\ last = {})

LEMMA SameElsewhere ==
  ASSUME NEW new \in Switch, NEW old \in Switch, NEW chokes, NEW last,
         new.previous = old.previous, new.sequence = old.sequence, new.counter = old.counter,
         new.wheel = old.wheel, new.pressure = old.pressure, new.program = old.program,
         new.off \ Extended = old.off \ Extended,
         new.key # old.key => chokes /\ last = {}
  PROVE  Elsewhere(new, old, chokes, last)
BY DEF Elsewhere, Switch

LEMMA IsolatedStep ==
  ASSUME TypeOK, [Next]_vars, source' # None, NEW n \in DOMAIN L, L[n].restricted,
         NEW s \in L[n].channels \ {source'}
  PROVE  Elsewhere(switches'[n][s], switches[n][s], \E v \in voices \ voices' : v.channel = s, L[n].last)
<1>1. PICK new, old, l : new = switches'[n][s] /\ old = switches[n][s] /\ l = L[n]
  OBVIOUS
<1>2. PICK chokes \in BOOLEAN : chokes = \E v \in voices \ voices' : v.channel = s
  OBVIOUS
<1>3. /\ s \in ScopesOf(l) /\ instrument \in Instruments /\ switches \in AllSwitches
      /\ l \in Layer /\ s # Omni
  <2>1. instrument \in Instruments /\ switches \in AllSwitches /\ l \in Layer /\ s \in ScopesOf(l)
    BY <1>1, LayersAre DEF TypeOK, ScopesOf
  <2>2. s \in Channel /\ s # Omni
    BY <1>1, <2>1, LayerFields, ActivationAssumption
  <2> QED BY <2>1, <2>2
<1>4. new \in Switch /\ old \in Switch
  <2>1. instrument' = instrument
    BY SplitSteps, OthersKeep DEF NoteOn, NoteOff, Reload
  <2>2. switches' \in AllSwitches
    BY <2>1, NextTypes, SameLayers DEF TypeOK
  <2> QED BY <1>1, <1>3, <2>2, AllSwitchesAre
<1> SUFFICES Elsewhere(new, old, chokes, l.last)
  BY <1>1, <1>2
<1>5. ASSUME NEW c \in Channel, NEW k \in Key, NoteOn(c, k)
      PROVE  Elsewhere(new, old, chokes, l.last)
  <2>1. s # c /\ ScopeOf(l, c) = c
    BY <1>1, <1>5 DEF NoteOn, Dispatched, ScopeOf
  <2>2. NoteChange(new, old, n, l, s, c, k)
    BY <1>1, <1>3, <1>5, NoteOnDoes DEF NoteChanges
  <2>3. NoteKeeps(new, old, l, s, c, FALSE)
    BY <1>1, <2>1, <2>2 DEF NoteChange
  <2>4. new.key # old.key => chokes /\ l.last = {}
    BY <1>1, <1>2, <2>1, <2>2 DEF NoteChange, NoteKeys, ChokedElsewhere
  <2> QED BY <1>4, <2>1, <2>3, <2>4, SameElsewhere DEF NoteKeeps, CounterAfter, SequenceAfter
<1>6. ASSUME NEW c \in Channel, NEW k \in Key, NoteOff(c, k)
      PROVE  Elsewhere(new, old, chokes, l.last)
  <2>1. switches' = Lifted(switches, {<<c, k>>}) /\ s # c /\ ScopeOf(l, c) = c
    BY <1>1, <1>6 DEF NoteOff, Dispatched, ScopeOf
  <2>2. new = WithKey(old, new.key)
    BY <1>1, <1>3, <2>1, LiftedIs
  <2>3. new.key = old.key
    <3>1. new.key # old.key => \E p \in {<<c, k>>} : Hears(l, p[1]) /\ s = ScopeOf(l, p[1])
      BY <1>1, <1>3, <2>1, LiftedIs
    <3> QED BY <2>1, <3>1
  <2>4. new = old
    BY <1>4, <2>2, <2>3 DEF WithKey, Switch
  <2> QED BY <1>4, <2>4, SameElsewhere
<1>7. ASSUME CCSteps
      PROVE  Elsewhere(new, old, chokes, l.last)
  <2>1. PICK c, x, v, scoped, k, all, m : CCEffect(c, x, v, scoped, k, all, m)
    BY <1>7 DEF CCSteps
  <2>2. PICK mid : mid = all[n][s]
    OBVIOUS
  <2>3. /\ s # c /\ ScopeOf(l, c) = c /\ (scoped \/ x \in Extended)
        /\ c \in Channel /\ scoped \in BOOLEAN
    BY <1>1, <2>1 DEF CCEffect, ScopeOf
  <2>4. /\ mid["key"] = old["key"] /\ mid["previous"] = old["previous"]
        /\ mid["sequence"] = old["sequence"] /\ mid["counter"] = old["counter"]
        /\ mid["program"] = old["program"] /\ mid["off"] = old["off"]
    BY <1>1, <1>3, <2>1, <2>2 DEF CCEffect, Follows, Alike
  <2>5. mid.wheel = old.wheel /\ mid.pressure = old.pressure
    BY <1>1, <1>3, <2>1, <2>2, <2>3 DEF CCEffect, Follows, Untouched
  <2>6. PassedAt(new, mid, CCOffs(all, c, x, v, scoped)[n][s], n, s, c, CCCounting(c, x, v, k))
    BY <1>1, <1>3, <2>1, <2>2 DEF CCEffect, CCDone
  <2>7. Passed(new, mid, l, s, c, FALSE)
    BY <1>1, <2>3, <2>6 DEF PassedAt
  <2>8. new.off \ Extended = old.off \ Extended
    <3>1. s \in InReach(l, c, scoped) <=> s \in {Omni, c} \/ ~scoped
      BY <1>1, <1>3, <2>3, ReachIs
    <3>2. new.off = IF s \in InReach(l, c, scoped) THEN OffAfter(l, mid.off, x, v) ELSE mid.off
      BY <1>1, <1>3, <2>2, <2>6 DEF PassedAt, CCOffs
    <3>3. x \in Extended => OffAfter(l, mid.off, x, v) \ Extended = mid.off \ Extended
      BY DEF OffAfter
    <3> QED BY <1>3, <2>3, <2>4, <3>1, <3>2, <3>3
  <2>9. new.key # old.key => chokes /\ l.last = {}
    BY <1>1, <1>2, <2>3, <2>4, <2>6 DEF PassedAt, Lighter, ChokedElsewhere
  <2> QED BY <1>4, <2>4, <2>5, <2>7, <2>8, <2>9, SameElsewhere DEF Passed, CounterAfter, SequenceAfter
<1>8. CASE UNCHANGED vars
  <2>1. new = old
    BY <1>1, <1>8 DEF vars
  <2> QED BY <1>4, <2>1, SameElsewhere
<1>9. ASSUME \/ \E c \in Channel : AllNotesOff(c) \/ ResetAllControllers(c)
             \/ Programs \/ Reload \/ (\E v \in voices : VoiceEnds(v))
      PROVE  FALSE
  BY <1>9 DEF AllNotesOff, ResetAllControllers, Programs, ProgramChange, Reload, VoiceEnds, Dispatched
<1> QED BY <1>5, <1>6, <1>7, <1>8, <1>9, Steps

(* A message of one source changes nothing that a layer with a channel     *)
(* range keeps for another one but the extended controllers, and sw_down   *)
(* and sw_up by a choke of a voice of that source.                         *)
THEOREM SourcesIsolated == Spec => SourcesIsolatedOtherwise
<1> DEFINE Isolated == source' # None =>
       \A n \in DOMAIN L : L[n].restricted =>
         \A s \in L[n].channels \ {source'} :
           LET new == switches'[n][s]
               old == switches[n][s]
               choked == \E v \in voices \ voices' : v.channel = s
           IN /\ [new EXCEPT !.off = @ \ Extended, !.key = FALSE]
                   = [old EXCEPT !.off = @ \ Extended, !.key = FALSE]
              /\ new.key = old.key \/ (choked /\ L[n].last = {})
<1>1. TypeOK /\ [Next]_vars => [Isolated]_vars
  <2> SUFFICES ASSUME TypeOK, [Next]_vars, source' # None, NEW n \in DOMAIN L, L[n].restricted,
                      NEW s \in L[n].channels \ {source'}
               PROVE  Elsewhere(switches'[n][s], switches[n][s],
                                \E v \in voices \ voices' : v.channel = s, L[n].last)
    BY Zenon DEF Elsewhere
  <2> QED BY IsolatedStep, Zenon
<1> QED BY <1>1, TypesInvariant, PTL DEF Spec, SourcesIsolatedOtherwise

-----------------------------------------------------------------------------
(* Rounds.                                                                 *)

(* The position a counter has reached.                                     *)
RoundAt(l, f) ==
  /\ f.counter \in Nat /\ f.counter < l.sequence[1]
  /\ f.sequence => l.sequence[2] = IF f.counter = 0 THEN l.sequence[1] ELSE f.counter
  /\ f.counter # 0 /\ l.sequence[2] = f.counter => f.sequence

RoundInv ==
  \A i \in DOMAIN L : L[i].positioned =>
    \A s \in ScopesOf(L[i]) :
      /\ RoundAt(L[i], switches[i][s])
      /\ \A j \in Round(i) : switches[j][s].counter = switches[i][s].counter

TurnedTo(l, new, old, counts) ==
  /\ new.counter = CounterAfter(l, old, counts)
  /\ new.sequence = SequenceAfter(l, old, counts)

LEMMA Around ==
  ASSUME NEW n \in Nat, NEW m \in Nat \ {0}, n < m
  PROVE  (n + 1) % m = IF n + 1 = m THEN 0 ELSE n + 1
<1>1. \A q \in Nat : q < m => q % m = q
  OBVIOUS
<1>2. m % m = 0
  OBVIOUS
<1>3. n + 1 \in Nat /\ (n + 1 # m => n + 1 < m)
  OBVIOUS
<1> QED BY <1>1, <1>2, <1>3

LEMMA TurnKeeps ==
  ASSUME NEW l \in Layer, NEW old, RoundAt(l, old), NEW counts \in BOOLEAN, NEW new,
         TurnedTo(l, new, old, counts)
  PROVE  RoundAt(l, new)
<1>1. PICK N, p, n : N = l.sequence[1] /\ p = l.sequence[2] /\ n = old.counter
  OBVIOUS
<1>2. N \in Nat \ {0} /\ p \in Nat /\ 1 <= p /\ p <= N /\ n \in Nat /\ n < N
  BY <1>1, LayerFields DEF RoundAt
<1>3. CASE ~counts
  BY <1>3 DEF TurnedTo, CounterAfter, SequenceAfter, RoundAt
<1>4. CASE counts
  <2>1. new.counter = (n + 1) % N /\ new.sequence = (n = p - 1)
    BY <1>1, <1>4 DEF TurnedTo, CounterAfter, SequenceAfter
  <2>2. new.counter = IF n + 1 = N THEN 0 ELSE n + 1
    BY <1>2, <2>1, Around
  <2>3. new.counter \in Nat /\ new.counter < N
    BY <1>2, <2>2
  <2>6. PICK q : q = new.counter
    OBVIOUS
  <2>7. (new.sequence <=> p = n + 1) /\ q = (IF n + 1 = N THEN 0 ELSE n + 1) /\ q \in Nat
    <3>1. new.sequence <=> n = p - 1
      BY <2>1
    <3>2. n = p - 1 <=> p = n + 1
      BY <1>2
    <3> QED BY <2>2, <2>3, <2>6, <3>1, <3>2
  <2>8. p = n + 1 => p = (IF q = 0 THEN N ELSE q)
    BY <1>2, <2>7
  <2>9. q # 0 /\ p = q => p = n + 1
    BY <1>2, <2>7
  <2>4. new.sequence => p = IF new.counter = 0 THEN N ELSE new.counter
    BY <2>6, <2>7, <2>8
  <2>5. new.counter # 0 /\ p = new.counter => new.sequence
    BY <2>6, <2>7, <2>9
  <2> QED BY <1>1, <2>3, <2>4, <2>5 DEF RoundAt
<1> QED BY <1>3, <1>4

LEMMA RoundAlike ==
  ASSUME instrument \in Instruments, NEW i \in DOMAIN L, NEW j \in Round(i)
  PROVE  /\ j \in DOMAIN L /\ ScopesOf(L[j]) = ScopesOf(L[i])
         /\ L[j].keys = L[i].keys /\ L[j].triggers = L[i].triggers
         /\ L[j].sequence[1] = L[i].sequence[1] /\ L[j].positioned
BY DEF Round

TurnAlike(i, j, s) ==
  \E b \in BOOLEAN : TurnedTo(L[i], switches'[i][s], switches[i][s], b)
                     /\ TurnedTo(L[j], switches'[j][s], switches[j][s], b)

LEMMA RoundTurns ==
  ASSUME TypeOK, [Next]_vars, ~Reload, NEW i \in DOMAIN L, NEW j \in DOMAIN L,
         ScopesOf(L[j]) = ScopesOf(L[i]), L[j].keys = L[i].keys, L[j].triggers = L[i].triggers,
         NEW s \in ScopesOf(L[i])
  PROVE  TurnAlike(i, j, s)
<1>1. instrument \in Instruments /\ switches \in AllSwitches
  BY DEF TypeOK
<1>2. ASSUME NEW n \in {i, j}
      PROVE  /\ n \in DOMAIN L /\ s \in ScopesOf(L[n]) /\ switches[n][s] \in Switch
             /\ \A c \in Channel : s \in {Omni, c} <=> Hears(L[n], c) /\ s = ScopeOf(L[n], c)
  BY <1>1, ScopeReached, SwitchTyped
<1>3. ASSUME NEW b \in BOOLEAN,
             \A n \in {i, j} : TurnedTo(L[n], switches'[n][s], switches[n][s], b)
      PROVE  TurnAlike(i, j, s)
  BY <1>3 DEF TurnAlike
<1>4. ASSUME \A n \in {i, j} : /\ switches'[n][s].counter = switches[n][s].counter
                               /\ switches'[n][s].sequence = switches[n][s].sequence
      PROVE  TurnAlike(i, j, s)
  <2>1. \A n \in {i, j} : TurnedTo(L[n], switches'[n][s], switches[n][s], FALSE)
    BY <1>4 DEF TurnedTo, CounterAfter, SequenceAfter
  <2> QED BY <1>3, <2>1
<1>5. ASSUME NEW c \in Channel, NEW k \in Key, NoteOn(c, k)
      PROVE  TurnAlike(i, j, s)
  <2>1. PICK b \in BOOLEAN : b = (s \in {Omni, c} /\ k \in L[i].keys)
    OBVIOUS
  <2>2. ASSUME NEW n \in {i, j} PROVE TurnedTo(L[n], switches'[n][s], switches[n][s], b)
    <3>1. (n \in NoteCounting(c, k) /\ s = ScopeOf(L[n], c)) = b
      BY <1>2, <2>1 DEF NoteCounting
    <3>2. NoteChanges(n, s, c, k)
      BY <1>2, <1>5, NoteOnDoes
    <3> QED BY <3>1, <3>2 DEF NoteChanges, NoteChange, NoteKeeps, TurnedTo
  <2> QED BY <1>3, <2>2
<1>6. ASSUME NEW c \in Channel, NEW k \in Key, NoteOff(c, k)
      PROVE  TurnAlike(i, j, s)
  <2>1. switches' = Lifted(switches, {<<c, k>>})
    BY <1>6 DEF NoteOff, Dispatched
  <2>2. ASSUME NEW n \in {i, j}
        PROVE  /\ switches'[n][s].counter = switches[n][s].counter
               /\ switches'[n][s].sequence = switches[n][s].sequence
    <3>1. switches'[n][s] = WithKey(switches[n][s], switches'[n][s].key)
      BY <1>1, <1>2, <2>1, LiftedIs
    <3> QED BY <1>2, <3>1 DEF WithKey, Switch
  <2> QED BY <1>4, <2>2
<1>7. ASSUME CCSteps
      PROVE  TurnAlike(i, j, s)
  <2>1. PICK c, x, v, scoped, k, all, m : CCEffect(c, x, v, scoped, k, all, m)
    BY <1>7 DEF CCSteps
  <2>2. PICK b \in BOOLEAN : b = /\ s \in {Omni, c} /\ v \in L[i].triggers[x]
                                 /\ (x = PolyCC => k \in L[i].keys)
    OBVIOUS
  <2>3. ASSUME NEW n \in {i, j} PROVE TurnedTo(L[n], switches'[n][s], switches[n][s], b)
    <3>1. c \in Channel
      BY <2>1 DEF CCEffect
    <3>2. (n \in CCCounting(c, x, v, k) /\ s = ScopeOf(L[n], c)) = b
      BY <1>2, <2>2, <3>1 DEF CCCounting
    <3>3. Passed(switches'[n][s], all[n][s], L[n], s, c, b)
      BY <1>2, <2>1, <3>2 DEF CCEffect, CCDone, PassedAt
    <3>4. /\ all[n][s]["counter"] = switches[n][s]["counter"]
          /\ all[n][s]["sequence"] = switches[n][s]["sequence"]
      BY <1>2, <2>1 DEF CCEffect, Follows, Alike
    <3> QED BY <3>3, <3>4 DEF Passed, TurnedTo, CounterAfter, SequenceAfter
  <2> QED BY <1>3, <2>3
<1>8. ASSUME Programs
      PROVE  TurnAlike(i, j, s)
  <2>1. PICK to \in SUBSET Scope, p \in Program : \E c : ProgramChange(to, c, p)
    BY <1>8 DEF Programs
  <2>2. PICK c : ProgramChange(to, c, p)
    BY <2>1
  <2>3. \A n \in {i, j} : switches'[n][s] = WithProgram(switches[n][s], Programmed(L[n], p))
    BY <1>2, <2>2, ProgramDoes
  <2> QED BY <1>2, <1>4, <2>3, WithFields, SMTT(40)
<1>9. ASSUME NEW c \in Channel, ResetAllControllers(c)
      PROVE  TurnAlike(i, j, s)
  <2>1. \A n \in {i, j} : switches'[n][s] = WithOff(switches[n][s], ResetOff(L[n]))
    BY <1>2, <1>9, ResetDoes
  <2> QED BY <1>2, <1>4, <2>1, WithFields
<1>10. ASSUME (\E c \in Channel : AllNotesOff(c)) \/ (\E v \in voices : VoiceEnds(v)) \/ UNCHANGED vars
       PROVE  TurnAlike(i, j, s)
  <2>1. switches' = switches
    BY <1>10 DEF AllNotesOff, Dispatched, VoiceEnds, vars
  <2> QED BY <1>4, <2>1
<1> QED BY <1>5, <1>6, <1>7, <1>8, <1>9, <1>10, Steps

LEMMA InitialRound ==
  ASSUME NEW l \in Layer, NEW s, NEW m, NEW default, NEW f, f = Initial(l, s, m, default)
  PROVE  f.counter = 0 /\ (l.positioned => RoundAt(l, f))
<1>1. f.counter = 0 /\ f.sequence = ~l.positioned
  BY InitialTyped
<1>2. l.sequence[1] \in Nat /\ 0 < l.sequence[1]
  BY LayerFields
<1>3. l.positioned => ~f.sequence
  BY <1>1
<1> QED BY <1>1, <1>2, <1>3 DEF RoundAt

LEMMA RoundKept ==
  ASSUME TypeOK, RoundInv, [Next]_vars
  PROVE  RoundInv'
<1>1. L' = L /\ instrument \in Instruments /\ (\A i : Round(i)' = Round(i))
  <2>1. instrument' = instrument
    BY SplitSteps, OthersKeep DEF NoteOn, NoteOff, Reload
  <2>2. L' = L
    BY <2>1, SameLayers
  <2> QED BY <2>2 DEF TypeOK, Round
<1> SUFFICES ASSUME NEW i \in DOMAIN L, L[i].positioned, NEW s \in ScopesOf(L[i])
             PROVE  /\ RoundAt(L[i], switches'[i][s])
                    /\ \A j \in Round(i) : switches'[j][s].counter = switches'[i][s].counter
  BY <1>1 DEF RoundInv
<1>2. L[i] \in Layer /\ switches[i][s] \in Switch
  BY SwitchTyped
<1>3. CASE Reload
  <2>1. PICK m : switches' = Loaded(instrument, m)
    BY <1>3 DEF Reload, Dispatched
  <2>2. ASSUME NEW n \in DOMAIN L, s \in ScopesOf(L[n])
        PROVE  /\ switches'[n][s].counter = 0
               /\ L[n].positioned => RoundAt(L[n], switches'[n][s])
    <3>1. switches'[n][s] = Initial(L[n], s, m, instrument.default) /\ L[n] \in Layer
      BY <1>1, <2>1, <2>2, LoadedTyped, LayersAre
    <3> QED BY <3>1, InitialRound
  <2>3. RoundAt(L[i], switches'[i][s])
    BY <2>2
  <2> QED BY <1>1, <2>2, <2>3, RoundAlike
<1>4. CASE ~Reload
  <2>1. RoundAt(L[i], switches'[i][s])
    <3>1. PICK b \in BOOLEAN : TurnedTo(L[i], switches'[i][s], switches[i][s], b)
      BY <1>4, RoundTurns DEF TurnAlike
    <3> QED BY <1>2, <3>1, TurnKeeps DEF RoundInv
  <2>2. ASSUME NEW j \in Round(i) PROVE switches'[j][s].counter = switches'[i][s].counter
    <3>1. /\ j \in DOMAIN L /\ ScopesOf(L[j]) = ScopesOf(L[i])
          /\ L[j].keys = L[i].keys /\ L[j].triggers = L[i].triggers
          /\ L[j].sequence[1] = L[i].sequence[1]
      BY <1>1, RoundAlike
    <3>2. TurnAlike(i, j, s)
      BY <1>4, <3>1, RoundTurns
    <3>3. switches[j][s].counter = switches[i][s].counter
      BY DEF RoundInv
    <3> QED BY <3>1, <3>2, <3>3 DEF TurnAlike, TurnedTo, CounterAfter
  <2> QED BY <2>1, <2>2
<1> QED BY <1>3, <1>4

LEMMA InitRounds ==
  ASSUME Init
  PROVE  RoundInv
<1>1. instrument \in Instruments /\ TypeOK
  BY InitTypes DEF TypeOK
<1> SUFFICES ASSUME NEW i \in DOMAIN L, L[i].positioned, NEW s \in ScopesOf(L[i])
             PROVE  /\ RoundAt(L[i], switches[i][s])
                    /\ \A j \in Round(i) : switches[j][s].counter = switches[i][s].counter
  BY DEF RoundInv
<1>2. ASSUME NEW n \in DOMAIN L, s \in ScopesOf(L[n])
      PROVE  /\ switches[n][s].counter = 0
             /\ L[n].positioned => RoundAt(L[n], switches[n][s])
  <2>1. switches[n][s] = Initial(L[n], s, midi, instrument.default) /\ L[n] \in Layer
    BY <1>1, <1>2, LoadedTyped, LayersAre DEF Init
  <2> QED BY <2>1, InitialRound
<1>3. RoundAt(L[i], switches[i][s])
  BY <1>2
<1> QED BY <1>1, <1>2, <1>3, RoundAlike

LEMMA FirstNumbers ==
  ASSUME NEW N \in Nat
  PROVE  IsFiniteSet(1 .. N) /\ Cardinality(1 .. N) = N
<1>1. 1 \in Int /\ N \in Int
  OBVIOUS
<1>2. IsFiniteSet(1 .. N)
  BY ONLY <1>1, FS_Interval
<1>3. Cardinality(1 .. N) = IF 1 > N THEN 0 ELSE N - 1 + 1
  BY ONLY <1>1, FS_Interval
<1> QED BY <1>2, <1>3

(* In a complete round no two layers have the same position.               *)
LEMMA PositionsDiffer ==
  ASSUME instrument \in Instruments, NEW n \in DOMAIN L, Complete(n),
         NEW a \in Round(n), NEW b \in Round(n), L[a].sequence[2] = L[b].sequence[2]
  PROVE  a = b
<1> DEFINE N == L[n].sequence[1]
           f == [m \in Round(n) |-> L[m].sequence[2]]
<1>1. N \in Nat /\ IsFiniteSet(1 .. N) /\ Cardinality(1 .. N) = N
  <2>1. N \in Nat
    BY LayersAre, LayerFields
  <2> HIDE DEF f, N
  <2> QED BY <2>1, FirstNumbers
<1>2. IsFiniteSet(Round(n))
  <2>1. DOMAIN L = 1 .. Len(L) /\ Len(L) \in Nat
    BY LayersAre
  <2>2. IsFiniteSet(DOMAIN L)
    BY <2>1, FirstNumbers
  <2>3. Round(n) \subseteq DOMAIN L
    BY DEF Round
  <2> QED BY <2>2, <2>3, FS_Subset
<1>3. f \in [Round(n) -> 1 .. N]
  <2>1. ASSUME NEW m \in Round(n) PROVE L[m].sequence[2] \in 1 .. N
    <3>1. L[m] \in Layer /\ L[m].sequence[1] = N
      BY LayersAre DEF Round
    <3> QED BY <3>1, LayerFields
  <2> QED BY <2>1
<1>4. \A p \in 1 .. N : \E m \in Round(n) : f[m] = p
  BY DEF Complete
<1>5. Cardinality(Round(n)) = Cardinality(1 .. N)
  BY <1>1 DEF Complete
<1>6. f \in Surjection(Round(n), 1 .. N)
  <2> HIDE DEF f, N
  <2> QED BY <1>3, <1>4 DEF Surjection
<1>7. f \in Injection(Round(n), 1 .. N)
  <2> HIDE DEF f, N
  <2> QED BY <1>2, <1>5, <1>6, FS_SurjSameCardinalityImpliesInj
<1>8. f[a] = f[b]
  OBVIOUS
<1> QED
  <2> HIDE DEF f, N
  <2> QED BY <1>3, <1>7, <1>8 DEF Injection, IsInjective

LEMMA RoundsFollow ==
  ASSUME TypeOK, RoundInv
  PROVE  RoundsAgree
<1> SUFFICES ASSUME NEW n \in DOMAIN L, Complete(n), NEW s \in ScopesOf(L[n])
             PROVE  /\ \A m \in Round(n) : switches[m][s].counter = switches[n][s].counter
                    /\ Cardinality({m \in Round(n) : switches[m][s].sequence}) <= 1
                    /\ switches[n][s].counter # 0 => \E m \in Round(n) : switches[m][s].sequence
  BY DEF RoundsAgree
<1>1. L[n].positioned /\ instrument \in Instruments
  BY DEF Complete, TypeOK
<1>2. \A m \in Round(n) : switches[m][s].counter = switches[n][s].counter
  BY <1>1 DEF RoundInv
<1>3. ASSUME NEW m \in Round(n) PROVE RoundAt(L[m], switches[m][s]) /\ L[m].sequence[1] = L[n].sequence[1]
  BY <1>1, RoundAlike DEF RoundInv
<1>4. Cardinality({m \in Round(n) : switches[m][s].sequence}) <= 1
  <2> DEFINE On == {m \in Round(n) : switches[m][s].sequence}
  <2>1. ASSUME NEW a \in On, NEW b \in On PROVE a = b
    <3>1. L[a].sequence[2] = L[b].sequence[2]
      BY <1>2, <1>3 DEF RoundAt
    <3> QED BY <1>1, <3>1, PositionsDiffer
  <2>2. CASE On = {}
    <3> HIDE DEF On
    <3>1. Cardinality(On) = 0
      BY <2>2, FS_EmptySet
    <3> QED BY <3>1 DEF On
  <2>3. CASE On # {}
    <3>1. PICK x : On = {x}
      <4> HIDE DEF On
      <4> QED BY <2>1, <2>3
    <3> HIDE DEF On
    <3>2. Cardinality(On) = 1
      BY <3>1, FS_Singleton
    <3> QED BY <3>2 DEF On
  <2> QED BY <2>2, <2>3
<1>5. ASSUME switches[n][s].counter # 0 PROVE \E m \in Round(n) : switches[m][s].sequence
  <2>1. switches[n][s].counter \in 1 .. L[n].sequence[1]
    <3>1. RoundAt(L[n], switches[n][s]) /\ L[n].sequence[1] \in Nat
      BY <1>1, LayersAre, LayerFields DEF RoundInv
    <3> QED BY <1>5, <3>1 DEF RoundAt
  <2>2. PICK m \in Round(n) : L[m].sequence[2] = switches[n][s].counter
    BY <2>1 DEF Complete
  <2> QED BY <1>2, <1>3, <1>5, <2>2 DEF RoundAt
<1> QED BY <1>2, <1>4, <1>5

(* In a complete round exactly one layer is on after the first message     *)
(* (Layer::registerNoteOn and registerCC count, whatever the layer's other *)
(* switches).                                                              *)
THEOREM Rounds == Spec => []RoundsAgree
<1>1. Init => RoundInv
  BY InitRounds
<1>2. TypeOK /\ RoundInv /\ [Next]_vars => RoundInv'
  BY RoundKept
<1>3. TypeOK /\ RoundInv => RoundsAgree
  BY RoundsFollow
<1> QED BY <1>1, <1>2, <1>3, TypesInvariant, PTL DEF Spec

-----------------------------------------------------------------------------
(* Presses.                                                                *)

(* A count as a set: one token for each press.                             *)
Tokens(S, f) == {t \in S \X Nat : 1 <= t[2] /\ t[2] <= f[t[1]]}
CountedTo(S, f, n) == IsFiniteSet(Tokens(S, f)) /\ Cardinality(Tokens(S, f)) = n

Raised(f, p) == [f EXCEPT ![p] = @ + 1]
Lowered(f, p) == [f EXCEPT ![p] = @ - 1]
Plus(S, p, n) == IF p \in S THEN n + 1 ELSE n
Minus(S, p, n) == IF p \in S THEN n - 1 ELSE n

LEMMA CountUp ==
  ASSUME NEW T, NEW S \in SUBSET T, NEW f \in [T -> Nat], NEW p \in T, NEW n \in Nat,
         CountedTo(S, f, n), NEW g, g = Raised(f, p)
  PROVE  CountedTo(S, g, Plus(S, p, n))
<1>1. g[p] = f[p] + 1 /\ (\A q \in T : q # p => g[q] = f[q]) /\ f[p] \in Nat
  BY DEF Raised
<1>2. CASE p \in S
  <2>1. Tokens(S, g) = Tokens(S, f) \cup {<<p, f[p] + 1>>}
    <3>1. ASSUME NEW q \in S, NEW i \in Nat
          PROVE  <<q, i>> \in Tokens(S, g) <=> <<q, i>> \in Tokens(S, f) \/ <<q, i>> = <<p, f[p] + 1>>
      <4>1. f[q] \in Nat
        OBVIOUS
      <4>2. CASE q = p
        BY <1>1, <4>2 DEF Tokens
      <4>3. CASE q # p
        BY <1>1, <4>3 DEF Tokens
      <4> QED BY <4>2, <4>3
    <3> QED BY <1>1, <1>2, <3>1 DEF Tokens
  <2>2. <<p, f[p] + 1>> \notin Tokens(S, f)
    BY <1>1 DEF Tokens
  <2>3. IsFiniteSet(Tokens(S, g)) /\ Cardinality(Tokens(S, g)) = Cardinality(Tokens(S, f)) + 1
    <3>1. PICK x, A, B : x = <<p, f[p] + 1>> /\ A = Tokens(S, f) /\ B = Tokens(S, g)
      OBVIOUS
    <3>2. B = A \cup {x} /\ x \notin A /\ IsFiniteSet(A)
      BY <2>1, <2>2, <3>1 DEF CountedTo
    <3>3. IsFiniteSet(B) /\ Cardinality(B) = Cardinality(A) + 1
      BY <3>2, FS_AddElement
    <3> QED BY <3>1, <3>3
  <2> QED BY <1>2, <2>3 DEF CountedTo, Plus
<1>3. CASE p \notin S
  <2>1. Tokens(S, g) = Tokens(S, f)
    BY <1>1, <1>3 DEF Tokens
  <2> QED BY <1>3, <2>1 DEF CountedTo, Plus
<1> QED BY <1>2, <1>3

LEMMA CountDown ==
  ASSUME NEW T, NEW S \in SUBSET T, NEW f \in [T -> Nat], NEW p \in T, NEW n \in Nat,
         CountedTo(S, f, n), f[p] # 0, NEW g, g = Lowered(f, p)
  PROVE  CountedTo(S, g, Minus(S, p, n)) /\ (p \in S => n # 0)
<1>1. g[p] = f[p] - 1 /\ (\A q \in T : q # p => g[q] = f[q]) /\ f[p] \in Nat
  BY DEF Lowered
<1>2. CASE p \in S
  <2>1. Tokens(S, g) = Tokens(S, f) \ {<<p, f[p]>>}
    <3>1. ASSUME NEW q \in S, NEW i \in Nat
          PROVE  <<q, i>> \in Tokens(S, g) <=> <<q, i>> \in Tokens(S, f) /\ <<q, i>> # <<p, f[p]>>
      <4>1. f[q] \in Nat
        OBVIOUS
      <4>2. CASE q = p
        BY <1>1, <4>2 DEF Tokens
      <4>3. CASE q # p
        BY <1>1, <4>3 DEF Tokens
      <4> QED BY <4>2, <4>3
    <3> QED BY <3>1 DEF Tokens
  <2>2. <<p, f[p]>> \in Tokens(S, f)
    BY <1>1, <1>2 DEF Tokens
  <2>3. IsFiniteSet(Tokens(S, g)) /\ Cardinality(Tokens(S, g)) = Cardinality(Tokens(S, f)) - 1
    <3>1. PICK x, A, B : x = <<p, f[p]>> /\ A = Tokens(S, f) /\ B = Tokens(S, g)
      OBVIOUS
    <3>2. B = A \ {x} /\ x \in A /\ IsFiniteSet(A)
      BY <2>1, <2>2, <3>1 DEF CountedTo
    <3>3. IsFiniteSet(B) /\ Cardinality(B) = Cardinality(A) - 1
      BY <3>2, FS_RemoveElement
    <3> QED BY <3>1, <3>3
  <2>4. Cardinality(Tokens(S, f)) # 0
    BY <2>2, FS_EmptySet DEF CountedTo
  <2> QED BY <1>2, <2>3, <2>4 DEF CountedTo, Minus
<1>3. CASE p \notin S
  <2>1. Tokens(S, g) = Tokens(S, f)
    BY <1>1, <1>3 DEF Tokens
  <2> QED BY <1>3, <2>1 DEF CountedTo, Minus
<1> QED BY <1>2, <1>3

LEMMA CountNone ==
  ASSUME NEW T, NEW S \in SUBSET T, NEW f, \A p \in T : f[p] = 0
  PROVE  CountedTo(S, f, 0)
<1>1. Tokens(S, f) = {}
  BY DEF Tokens
<1> QED BY <1>1, FS_EmptySet DEF CountedTo

Allowed(p, q) == IF p = q THEN 1 ELSE 0

(* Where more than one is counted there is more than one at q, or one      *)
(* elsewhere.                                                              *)
LEMMA CountMore ==
  ASSUME NEW T, NEW S \in SUBSET T, NEW f \in [T -> Nat], NEW n \in Nat, n > 1,
         CountedTo(S, f, n), NEW q
  PROVE  \E p \in S : f[p] > Allowed(p, q)
<1>1. SUFFICES ASSUME \A p \in S : ~(f[p] > Allowed(p, q)) PROVE FALSE
  OBVIOUS
<1>2. \A p \in S : f[p] \in Nat /\ f[p] <= Allowed(p, q)
  BY <1>1 DEF Allowed
<1>3. Tokens(S, f) \subseteq {<<q, 1>>}
  BY <1>2 DEF Tokens, Allowed
<1>4. IsFiniteSet({<<q, 1>>}) /\ Cardinality({<<q, 1>>}) = 1
  BY FS_Singleton
<1>5. Cardinality(Tokens(S, f)) <= 1
  BY <1>3, <1>4, FS_Subset
<1> QED BY <1>5 DEF CountedTo

(* Where one is counted, and it is at q, there is none elsewhere.          *)
LEMMA CountSingle ==
  ASSUME NEW T, NEW S \in SUBSET T, NEW f \in [T -> Nat], CountedTo(S, f, 1),
         NEW q \in S, f[q] # 0, NEW p \in S
  PROVE  ~(f[p] > Allowed(p, q))
<1>1. SUFFICES ASSUME f[p] > Allowed(p, q) PROVE FALSE
  OBVIOUS
<1>2. f[p] \in Nat /\ f[q] \in Nat
  OBVIOUS
<1>3. <<q, 1>> \in Tokens(S, f)
  BY <1>2 DEF Tokens
<1>4. <<p, Allowed(p, q) + 1>> \in Tokens(S, f)
  BY <1>1, <1>2 DEF Tokens, Allowed
<1>5. <<p, Allowed(p, q) + 1>> # <<q, 1>>
  BY DEF Allowed
<1>6. PICK x : Tokens(S, f) = {x}
  BY FS_Singleton DEF CountedTo
<1> QED BY <1>3, <1>4, <1>5, <1>6

Of(c) == {c} \X Key
Notes == {p \in Channel \X Key : ~IsLast(p[2])}

PressAt(p, f, h, sil) ==
  /\ f[p] <= h[p]
  /\ IsSwitch(p[1], p[2]) => f[p] = 0
  /\ ~sil /\ ~IsSwitch(p[1], p[2]) => f[p] = h[p]

(* What is counted of the presses that are held: no more, exactly as many  *)
(* of notes that were not silenced, by source and in all.                  *)
HeldWith(m, h, sil) ==
  /\ \A p \in Channel \X Key : PressAt(p, m.counts, h, sil)
  /\ \A c \in Channel : CountedTo(Of(c), m.counts, m.notes[c])
  /\ \E n \in Nat : CountedTo(Notes, h, n) /\ m.active <= n
HeldInv == HeldWith(midi, held, silenced)

(* What was started had a trigger, and is counted.                         *)
StartedAt(t, m) ==
  /\ Hears(L[t[1]], t[2]) /\ Triggers(L[t[1]], t[2], m)
  /\ IsSwitch(t[2], t[3]) \/ m.counts[<<t[2], t[3]>>] # 0
StartedInv == \A t \in started : StartedAt(t, midi)

LEMMA SwitchesOfLast ==
  ASSUME NEW c, NEW k, IsSwitch(c, k)
  PROVE  IsLast(k)
BY DEF IsSwitch, IsLast

LEMMA PressesFollow ==
  ASSUME TypeOK, HeldInv, StartedInv
  PROVE  FirstOrLegato
<1>1. /\ instrument \in Instruments /\ midi \in MidiType /\ held \in [Channel \X Key -> Nat]
      /\ midi.counts \in [Channel \X Key -> Nat] /\ midi.notes \in [Channel -> Nat]
      /\ midi.active \in Nat
  BY DEF TypeOK, MidiType
<1> SUFFICES ASSUME NEW t \in started
             PROVE  LET l == L[t[1]]
                        other == OtherPresses(ScopeOf(l, t[2]), t[2], t[3])
                    IN /\ l.trigger = "legato" => other
                       /\ (l.trigger = "first" /\ l.restricted /\ ~IsSwitch(t[2], t[3]))
                            => (silenced \/ ~other)
  BY DEF FirstOrLegato
<1>2. PICK l, c, k : l = L[t[1]] /\ c = t[2] /\ k = t[3]
  OBVIOUS
<1>3. l \in Layer /\ c \in Channel /\ k \in Key /\ <<c, k>> \in Channel \X Key
  <2>1. t \in (DOMAIN L) \X Channel \X Key
    BY DEF TypeOK
  <2> QED BY <1>1, <1>2, <2>1, LayersAre
<1>4. /\ Triggers(l, c, midi)
      /\ IsSwitch(c, k) \/ midi.counts[<<c, k>>] # 0
  BY <1>2 DEF StartedInv, StartedAt
<1>5. Of(c) \in SUBSET (Channel \X Key) /\ Notes \in SUBSET (Channel \X Key) /\ c # Omni
  BY <1>3, ActivationAssumption DEF Of, Notes
<1>6. ASSUME l.trigger = "legato" PROVE OtherPresses(ScopeOf(l, c), c, k)
  <2>1. Active(l, c, midi) > 1
    BY <1>4, <1>6 DEF Triggers
  <2>2. CASE l.restricted
    <3>1. CountedTo(Of(c), midi.counts, midi.notes[c]) /\ midi.notes[c] \in Nat /\ midi.notes[c] > 1
      BY <1>1, <1>3, <2>1, <2>2 DEF HeldInv, HeldWith, Active
    <3>2. PICK p \in Of(c) : midi.counts[p] > Allowed(p, <<c, k>>)
      BY <1>1, <1>5, <3>1, CountMore
    <3>3. p \in Channel \X Key /\ p[1] = c
      BY <1>5, <3>2 DEF Of
    <3>4. PressAt(p, midi.counts, held, silenced) /\ midi.counts[p] \in Nat /\ held[p] \in Nat
      BY <1>1, <3>3 DEF HeldInv, HeldWith
    <3>5. ~IsSwitch(p[1], p[2]) /\ held[p] > Allowed(p, <<c, k>>)
      BY <3>2, <3>4 DEF PressAt, Allowed
    <3> QED BY <2>2, <3>3, <3>5 DEF OtherPresses, Allowed, ScopeOf
  <2>3. CASE ~l.restricted
    <3>1. PICK n \in Nat : CountedTo(Notes, held, n) /\ midi.active <= n
      BY DEF HeldInv, HeldWith
    <3>2. n > 1
      BY <1>1, <2>1, <2>3, <3>1 DEF Active
    <3>3. PICK p \in Notes : held[p] > Allowed(p, <<c, k>>)
      BY <1>1, <1>5, <3>1, <3>2, CountMore
    <3>4. p \in Channel \X Key /\ ~IsSwitch(p[1], p[2])
      BY <3>3, SwitchesOfLast DEF Notes
    <3> QED BY <2>3, <3>3, <3>4 DEF OtherPresses, Allowed, ScopeOf
  <2> QED BY <2>2, <2>3
<1>7. ASSUME l.trigger = "first", l.restricted, ~IsSwitch(c, k), ~silenced
      PROVE  ~OtherPresses(ScopeOf(l, c), c, k)
  <2>1. midi.notes[c] = 1
    BY <1>4, <1>7 DEF Triggers, Active
  <2>2. CountedTo(Of(c), midi.counts, 1)
    BY <1>3, <2>1 DEF HeldInv, HeldWith
  <2>3. <<c, k>> \in Of(c) /\ midi.counts[<<c, k>>] # 0
    BY <1>3, <1>4, <1>7 DEF Of
  <2>4. SUFFICES ASSUME NEW p \in Channel \X Key, ScopeOf(l, c) \in {Omni, p[1]},
                        ~IsSwitch(p[1], p[2]), held[p] > Allowed(p, <<c, k>>)
                 PROVE  FALSE
    BY DEF OtherPresses, Allowed
  <2>5. p[1] = c /\ p \in Of(c)
    BY <1>5, <1>7, <2>4 DEF ScopeOf, Of
  <2>6. midi.counts[p] = held[p]
    BY <1>7, <2>4 DEF HeldInv, HeldWith, PressAt
  <2>7. ~(midi.counts[p] > Allowed(p, <<c, k>>))
    BY <1>1, <1>5, <2>2, <2>3, <2>5, CountSingle
  <2> QED BY <2>4, <2>6, <2>7
<1> QED BY <1>2, <1>6, <1>7

(* A press and a release as MidiState counts them.                         *)
CountsOn(m, c, k) ==
  /\ m.active = IF IsLast(k) THEN midi.active ELSE midi.active + 1
  /\ IF IsSwitch(c, k) THEN m.counts = midi.counts /\ m.notes = midi.notes
     ELSE /\ m.counts = [midi.counts EXCEPT ![<<c, k>>] = @ + 1]
          /\ m.notes = [midi.notes EXCEPT ![c] = @ + 1]

CountsOff(m, c, k) ==
  /\ m.active = IF IsLast(k) THEN midi.active ELSE Fewer(midi.active)
  /\ IF IsSwitch(c, k) \/ midi.counts[<<c, k>>] = 0
     THEN m.counts = midi.counts /\ m.notes = midi.notes
     ELSE /\ m.counts = [midi.counts EXCEPT ![<<c, k>>] = @ - 1]
          /\ m.notes = [midi.notes EXCEPT ![c] = Fewer(@)]

LEMMA CountsAre ==
  ASSUME TypeOK, NEW c \in Channel, NEW k \in Key
  PROVE  CountsOn(NoteCountedOn(c, k), c, k) /\ CountsOff(NoteCountedOff(c, k), c, k)
<1>1. midi \in MidiType
  BY DEF TypeOK
<1>2. PICK x, y : /\ x = (IF IsLast(k) THEN midi.active ELSE midi.active + 1)
                  /\ y = (IF IsLast(k) THEN midi.active ELSE Fewer(midi.active))
  OBVIOUS
<1>3. PICK n, m : n = [midi EXCEPT !.active = x] /\ m = [midi EXCEPT !.active = y]
  OBVIOUS
<1>4. /\ n.active = x /\ n.counts = midi.counts /\ n.notes = midi.notes
      /\ m.active = y /\ m.counts = midi.counts /\ m.notes = midi.notes
  BY <1>1, <1>3 DEF MidiType
<1>5. CountsOn(NoteCountedOn(c, k), c, k)
  <2>1. PICK q : q = [n EXCEPT !.counts[<<c, k>>] = @ + 1, !.notes[c] = @ + 1]
    OBVIOUS
  <2>2. /\ q.active = x /\ q.counts = [midi.counts EXCEPT ![<<c, k>>] = @ + 1]
        /\ q.notes = [midi.notes EXCEPT ![c] = @ + 1]
    BY <1>1, <1>3, <1>4, <2>1 DEF MidiType
  <2>3. NoteCountedOn(c, k) = IF IsSwitch(c, k) THEN n ELSE q
    BY <1>2, <1>3, <2>1 DEF NoteCountedOn
  <2> QED BY <1>2, <1>4, <2>2, <2>3 DEF CountsOn
<1>6. CountsOff(NoteCountedOff(c, k), c, k)
  <2>1. PICK q : q = [m EXCEPT !.counts[<<c, k>>] = @ - 1, !.notes[c] = Fewer(@)]
    OBVIOUS
  <2>2. /\ q.active = y /\ q.counts = [midi.counts EXCEPT ![<<c, k>>] = @ - 1]
        /\ q.notes = [midi.notes EXCEPT ![c] = Fewer(@)]
    BY <1>1, <1>3, <1>4, <2>1 DEF MidiType
  <2>3. NoteCountedOff(c, k) = IF IsSwitch(c, k) \/ midi.counts[<<c, k>>] = 0 THEN m ELSE q
    BY <1>2, <1>3, <2>1 DEF NoteCountedOff
  <2> QED BY <1>2, <1>4, <2>2, <2>3 DEF CountsOff
<1> QED BY <1>5, <1>6

LEMMA HeldOn ==
  ASSUME TypeOK, HeldInv, NEW c \in Channel, NEW k \in Key, NoteOn(c, k)
  PROVE  HeldWith(midi', held', silenced')
<1>1. /\ instrument \in Instruments /\ midi \in MidiType /\ held \in [Channel \X Key -> Nat]
      /\ midi.counts \in [Channel \X Key -> Nat] /\ midi.notes \in [Channel -> Nat]
      /\ midi.active \in Nat /\ <<c, k>> \in Channel \X Key
  BY DEF TypeOK, MidiType
<1>2. CountsOn(midi', c, k) /\ held' = [held EXCEPT ![<<c, k>>] = @ + 1] /\ silenced' = silenced
  BY CountsAre DEF NoteOn
<1>3. \A p \in Channel \X Key : PressAt(p, midi.counts, held, silenced)
  BY DEF HeldInv, HeldWith
<1>4. ASSUME NEW p \in Channel \X Key PROVE PressAt(p, midi'.counts, held', silenced')
  <2>1. held[p] \in Nat /\ midi.counts[p] \in Nat /\ PressAt(p, midi.counts, held, silenced)
    BY <1>1, <1>3
  <2>2. held'[p] = IF p = <<c, k>> THEN held[p] + 1 ELSE held[p]
    BY <1>1, <1>2
  <2>3. midi'.counts[p] = IF p = <<c, k>> /\ ~IsSwitch(c, k) THEN midi.counts[p] + 1 ELSE midi.counts[p]
    BY <1>1, <1>2 DEF CountsOn
  <2>4. p = <<c, k>> => p[1] = c /\ p[2] = k
    OBVIOUS
  <2> QED BY <1>2, <2>1, <2>2, <2>3, <2>4 DEF PressAt
<1>5. ASSUME NEW d \in Channel PROVE CountedTo(Of(d), midi'.counts, midi'.notes[d])
  <2>1. CountedTo(Of(d), midi.counts, midi.notes[d]) /\ midi.notes[d] \in Nat
    BY <1>1 DEF HeldInv, HeldWith
  <2>2. CASE IsSwitch(c, k)
    BY <1>2, <2>1, <2>2 DEF CountsOn
  <2>3. CASE ~IsSwitch(c, k)
    <3>1. Of(d) \in SUBSET (Channel \X Key) /\ (<<c, k>> \in Of(d) <=> c = d)
      BY DEF Of
    <3>2. midi'.counts = Raised(midi.counts, <<c, k>>)
      BY <1>2, <2>3 DEF CountsOn, Raised
    <3>3. CountedTo(Of(d), midi'.counts, Plus(Of(d), <<c, k>>, midi.notes[d]))
      BY <1>1, <2>1, <3>1, <3>2, CountUp
    <3>4. midi'.notes[d] = IF c = d THEN midi.notes[d] + 1 ELSE midi.notes[d]
      BY <1>1, <1>2, <2>3 DEF CountsOn
    <3> QED BY <3>1, <3>3, <3>4 DEF Plus
  <2> QED BY <2>2, <2>3
<1>6. \E n \in Nat : CountedTo(Notes, held', n) /\ midi'.active <= n
  <2>1. PICK n \in Nat : CountedTo(Notes, held, n) /\ midi.active <= n
    BY DEF HeldInv, HeldWith
  <2>2. PICK q : q = Plus(Notes, <<c, k>>, n)
    OBVIOUS
  <2>3. Notes \in SUBSET (Channel \X Key) /\ (<<c, k>> \in Notes <=> ~IsLast(k))
    BY <1>1 DEF Notes
  <2>4. CountedTo(Notes, held', q)
    <3>1. held' = Raised(held, <<c, k>>)
      BY <1>2 DEF Raised
    <3> QED BY <1>1, <2>1, <2>2, <2>3, <3>1, CountUp
  <2>5. q \in Nat /\ midi'.active <= q
    BY <1>1, <1>2, <2>1, <2>2, <2>3 DEF CountsOn, Plus
  <2> QED BY <2>4, <2>5
<1> QED BY <1>4, <1>5, <1>6 DEF HeldWith

LEMMA HeldOff ==
  ASSUME TypeOK, HeldInv, NEW c \in Channel, NEW k \in Key, NoteOff(c, k)
  PROVE  HeldWith(midi', held', silenced')
<1>1. /\ instrument \in Instruments /\ midi \in MidiType /\ held \in [Channel \X Key -> Nat]
      /\ midi.counts \in [Channel \X Key -> Nat] /\ midi.notes \in [Channel -> Nat]
      /\ midi.active \in Nat /\ <<c, k>> \in Channel \X Key /\ silenced \in BOOLEAN
  BY DEF TypeOK, MidiType
<1>2. /\ CountsOff(midi', c, k) /\ held' = [held EXCEPT ![<<c, k>>] = Fewer(@)]
      /\ silenced' = (silenced /\ held' # NoPress)
  BY CountsAre DEF NoteOff
<1>3. \A p \in Channel \X Key : PressAt(p, midi.counts, held, silenced)
  BY DEF HeldInv, HeldWith
<1>4. ASSUME NEW p \in Channel \X Key PROVE PressAt(p, midi'.counts, held', silenced')
  <2>1. held[p] \in Nat /\ midi.counts[p] \in Nat /\ PressAt(p, midi.counts, held, silenced)
    BY <1>1, <1>3
  <2>2. held'[p] = IF p = <<c, k>> THEN Fewer(held[p]) ELSE held[p]
    BY <1>1, <1>2
  <2>3. midi'.counts[p] = IF p = <<c, k>> /\ ~IsSwitch(c, k) THEN Fewer(midi.counts[p]) ELSE midi.counts[p]
    BY <1>1, <1>2 DEF CountsOff, Fewer
  <2>4. p = <<c, k>> => p[1] = c /\ p[2] = k
    OBVIOUS
  <2>5. PressAt(p, midi'.counts, held', silenced)
    BY <2>1, <2>2, <2>3, <2>4 DEF PressAt, Fewer
  <2>6. CASE held' = NoPress
    <3>1. held'[p] = 0 /\ midi'.counts[p] \in Nat
      BY <2>1, <2>3, <2>6 DEF NoPress, Fewer
    <3>2. midi'.counts[p] = held'[p]
      BY <2>5, <3>1 DEF PressAt
    <3> QED BY <2>5, <3>1, <3>2 DEF PressAt
  <2>7. CASE held' # NoPress
    BY <1>2, <2>5, <2>7 DEF PressAt
  <2> QED BY <2>6, <2>7
<1>5. ASSUME NEW d \in Channel PROVE CountedTo(Of(d), midi'.counts, midi'.notes[d])
  <2>1. CountedTo(Of(d), midi.counts, midi.notes[d]) /\ midi.notes[d] \in Nat
    BY <1>1 DEF HeldInv, HeldWith
  <2>2. CASE IsSwitch(c, k) \/ midi.counts[<<c, k>>] = 0
    BY <1>2, <2>1, <2>2 DEF CountsOff
  <2>3. CASE ~(IsSwitch(c, k) \/ midi.counts[<<c, k>>] = 0)
    <3>1. Of(d) \in SUBSET (Channel \X Key) /\ (<<c, k>> \in Of(d) <=> c = d)
      BY DEF Of
    <3>2. midi'.counts = Lowered(midi.counts, <<c, k>>)
      BY <1>2, <2>3 DEF CountsOff, Lowered
    <3>5. midi.counts[<<c, k>>] # 0
      BY <2>3
    <3>6. PICK f, n : f = midi.counts /\ n = midi.notes[d]
      OBVIOUS
    <3>7. PICK S : S = Of(d)
      OBVIOUS
    <3>8. PICK p : p = <<c, k>>
      OBVIOUS
    <3>9. /\ f \in [Channel \X Key -> Nat] /\ n \in Nat /\ f[p] # 0 /\ CountedTo(S, f, n)
          /\ S \in SUBSET (Channel \X Key) /\ p \in Channel \X Key
      BY <1>1, <2>1, <3>1, <3>5, <3>6, <3>7, <3>8
    <3>10. CountedTo(S, Lowered(f, p), Minus(S, p, n)) /\ (p \in S => n # 0)
      BY <3>9, CountDown
    <3>3. /\ CountedTo(Of(d), midi'.counts, Minus(Of(d), <<c, k>>, midi.notes[d]))
          /\ <<c, k>> \in Of(d) => midi.notes[d] # 0
      BY <3>2, <3>6, <3>7, <3>8, <3>10
    <3>4. midi'.notes[d] = IF c = d THEN Fewer(midi.notes[d]) ELSE midi.notes[d]
      BY <1>1, <1>2, <2>3 DEF CountsOff
    <3> QED BY <2>1, <3>1, <3>3, <3>4 DEF Fewer, Minus
  <2> QED BY <2>2, <2>3
<1>6. \E n \in Nat : CountedTo(Notes, held', n) /\ midi'.active <= n
  <2>1. PICK n \in Nat : CountedTo(Notes, held, n) /\ midi.active <= n
    BY DEF HeldInv, HeldWith
  <2>2. Notes \in SUBSET (Channel \X Key) /\ (<<c, k>> \in Notes <=> ~IsLast(k))
    BY <1>1 DEF Notes
  <2>3. midi'.active = (IF IsLast(k) THEN midi.active ELSE Fewer(midi.active))
    BY <1>2 DEF CountsOff
  <2>4. CASE held[<<c, k>>] = 0
    <3>1. held' = held
      BY <1>1, <1>2, <2>4 DEF Fewer
    <3>2. midi'.active <= n
      BY <1>1, <2>1, <2>3 DEF Fewer
    <3> QED BY <2>1, <3>1, <3>2
  <2>5. CASE held[<<c, k>>] # 0
    <3>1. PICK q : q = Minus(Notes, <<c, k>>, n)
      OBVIOUS
    <3>2. held' = Lowered(held, <<c, k>>)
      BY <1>2, <2>5 DEF Fewer, Lowered
    <3>3. CountedTo(Notes, held', q) /\ (<<c, k>> \in Notes => n # 0)
      <4>1. held \in [Channel \X Key -> Nat] /\ <<c, k>> \in Channel \X Key
        BY <1>1
      <4>2. PICK S, p, f : S = Notes /\ p = <<c, k>> /\ f = held
        OBVIOUS
      <4>3. CountedTo(S, Lowered(f, p), Minus(S, p, n)) /\ (p \in S => n # 0)
        BY <2>1, <2>2, <2>5, <4>1, <4>2, CountDown
      <4> QED BY ONLY <3>1, <3>2, <4>2, <4>3
    <3>4. q \in Nat /\ midi'.active <= q
      <4>1. PICK old, new : old = midi.active /\ new = midi'.active
        OBVIOUS
      <4>2. old \in Nat /\ old <= n /\ new = (IF IsLast(k) THEN old ELSE Fewer(old))
        BY <1>1, <2>1, <2>3, <4>1
      <4>3. CASE IsLast(k)
        BY ONLY <2>2, <3>1, <4>1, <4>2, <4>3, n \in Nat DEF Minus
      <4>4. CASE ~IsLast(k)
        BY ONLY <2>2, <3>1, <3>3, <4>1, <4>2, <4>4, n \in Nat DEF Minus, Fewer
      <4> QED BY <4>3, <4>4
    <3> QED BY <3>3, <3>4
  <2> QED BY <2>4, <2>5
<1> QED BY <1>4, <1>5, <1>6 DEF HeldWith

(* The counts of a state without presses, and of one where nothing of the  *)
(* notes has changed.                                                      *)
LEMMA HeldSame ==
  ASSUME HeldInv, midi'.counts = midi.counts, midi'.notes = midi.notes,
         midi'.active = midi.active, held' = held, silenced' = silenced
  PROVE  HeldWith(midi', held', silenced')
<1>1. PICK n, h, b : n = midi' /\ h = held' /\ b = silenced'
  OBVIOUS
<1>2. n.counts = midi.counts /\ n.notes = midi.notes /\ n.active = midi.active /\ h = held /\ b = silenced
  BY <1>1
<1>3. HeldWith(n, h, b)
  BY <1>2 DEF HeldInv, HeldWith
<1> QED BY <1>1, <1>3

LEMMA HeldNone ==
  ASSUME TypeOK, HeldInv, midi' \in MidiType, midi'.counts = NoPress, midi'.notes = NoNote,
         midi'.active <= midi.active, held' = held, silenced' = (held # NoPress)
  PROVE  HeldWith(midi', held', silenced')
<1>1. PICK m : m = midi'
  OBVIOUS
<1>2. /\ m.counts = NoPress /\ m.notes = NoNote /\ m.active <= midi.active
      /\ m.active \in Nat /\ midi.active \in Nat /\ held \in [Channel \X Key -> Nat]
  BY <1>1 DEF TypeOK, MidiType
<1>3. \A p \in Channel \X Key : m.counts[p] = 0
  BY <1>2 DEF NoPress
<1>4. ASSUME NEW p \in Channel \X Key PROVE PressAt(p, m.counts, held, silenced')
  <2>1. held[p] \in Nat /\ m.counts[p] = 0
    BY <1>2, <1>3
  <2>2. ~silenced' => held[p] = 0
    BY <1>2 DEF NoPress
  <2> QED BY <2>1, <2>2 DEF PressAt
<1>5. ASSUME NEW c \in Channel PROVE CountedTo(Of(c), m.counts, m.notes[c])
  <2>1. m.notes[c] = 0
    BY <1>2 DEF NoNote
  <2>2. Of(c) \in SUBSET (Channel \X Key)
    BY DEF Of
  <2> QED BY <1>3, <2>1, <2>2, CountNone
<1>6. \E n \in Nat : CountedTo(Notes, held, n) /\ m.active <= n
  BY <1>2 DEF HeldInv, HeldWith
<1> QED BY <1>1, <1>4, <1>5, <1>6 DEF HeldWith

LEMMA HeldKept ==
  ASSUME TypeOK, HeldInv, [Next]_vars
  PROVE  HeldInv'
<1>1. TypeOK' /\ midi' \in MidiType /\ midi \in MidiType
  BY NextTypes DEF TypeOK
<1>2. HeldWith(midi', held', silenced')
  <2>1. ASSUME NEW c \in Channel, NEW k \in Key, NoteOn(c, k) \/ NoteOff(c, k)
        PROVE  HeldWith(midi', held', silenced')
    BY <2>1, HeldOn, HeldOff
  <2>2. ASSUME NEW c \in Channel, AllNotesOff(c)
        PROVE  HeldWith(midi', held', silenced')
    <3>1. midi.active \in Nat /\ AllNotes \in Nat
      BY <1>1, ActivationAssumption DEF MidiType
    <3>2. PICK n : n = IF midi.active > AllNotes THEN midi.active - AllNotes ELSE 0
      OBVIOUS
    <3>3. midi' = [midi EXCEPT !.counts = NoPress, !.notes = NoNote, !.active = n]
      BY <1>1, <2>2, <3>2 DEF AllNotesOff, MidiType
    <3>4. midi'.counts = NoPress /\ midi'.notes = NoNote /\ midi'.active = n /\ n <= midi.active
      BY <1>1, <3>1, <3>2, <3>3 DEF MidiType
    <3>5. held' = held /\ silenced' = (held # NoPress)
      BY <2>2 DEF AllNotesOff
    <3> QED BY <1>1, <3>4, <3>5, HeldNone
  <2>3. ASSUME NEW c \in Channel, ResetAllControllers(c)
        PROVE  HeldWith(midi', held', silenced')
    <3>1. midi'.counts = midi.counts /\ midi'.notes = midi.notes /\ midi'.active = midi.active
      BY <1>1, <2>3 DEF ResetAllControllers, MidiType
    <3> QED BY <2>3, <3>1, HeldSame DEF ResetAllControllers
  <2>4. ASSUME CCSteps
        PROVE  HeldWith(midi', held', silenced')
    <3>1. PICK c, x, v, scoped, k, all, m : CCEffect(c, x, v, scoped, k, all, m)
      BY <2>4 DEF CCSteps
    <3>2. m \in MidiType /\ Rest(m) /\ x \in AnyControl /\ v \in Level
      BY <3>1 DEF CCEffect, Follows
    <3>3. IsStored(midi', m, c, x, v, scoped)
      BY <3>1, <3>2, StoredTyped DEF CCEffect
    <3>4. midi'.counts = midi.counts /\ midi'.notes = midi.notes /\ midi'.active = midi.active
      BY <3>2, <3>3 DEF IsStored, Rest
    <3>5. held' = held /\ silenced' = silenced
      BY <3>1 DEF CCEffect
    <3> QED BY <3>4, <3>5, HeldSame
  <2>5. ASSUME Programs
        PROVE  HeldWith(midi', held', silenced')
    <3>1. PICK to \in SUBSET Scope, p \in Program : \E c : ProgramChange(to, c, p)
      BY <2>5 DEF Programs
    <3>2. PICK c : ProgramChange(to, c, p)
      BY <3>1
    <3>3. midi'.counts = midi.counts /\ midi'.notes = midi.notes /\ midi'.active = midi.active
      BY <1>1, <3>2 DEF ProgramChange, MidiType
    <3> QED BY <3>2, <3>3, HeldSame DEF ProgramChange
  <2>6. ASSUME Reload
        PROVE  HeldWith(midi', held', silenced')
    <3>1. midi'.counts = NoPress /\ midi'.notes = NoNote /\ midi'.active = 0
      BY <1>1, <2>6 DEF Reload, MidiType
    <3>2. midi'.active <= midi.active
      BY <1>1, <3>1 DEF MidiType
    <3>3. held' = held /\ silenced' = (held # NoPress)
      BY <2>6 DEF Reload
    <3> QED BY <1>1, <3>1, <3>2, <3>3, HeldNone
  <2>7. ASSUME (\E v \in voices : VoiceEnds(v)) \/ UNCHANGED vars
        PROVE  HeldWith(midi', held', silenced')
    <3>1. midi' = midi /\ held' = held /\ silenced' = silenced
      BY <2>7 DEF VoiceEnds, vars
    <3> QED BY <3>1, HeldSame
  <2> QED BY <2>1, <2>2, <2>3, <2>4, <2>5, <2>6, <2>7, Steps
<1>3. L' = L
  <2>1. instrument' = instrument
    BY SplitSteps, OthersKeep DEF NoteOn, NoteOff, Reload
  <2> QED BY <2>1, SameLayers
<1>4. /\ Notes' = Notes /\ (\A c : Of(c)' = Of(c))
      /\ \A c, k : IsSwitch(c, k)' = IsSwitch(c, k)
  BY <1>3 DEF Notes, Of, IsSwitch, IsLast
<1> QED BY <1>2, <1>4 DEF HeldInv, HeldWith, PressAt

(* Only a note starts what FirstOrLegato is about, and it is counted then. *)
LEMMA StartedKept ==
  ASSUME TypeOK, StartedInv, [Next]_vars
  PROVE  StartedInv'
<1>1. /\ instrument \in Instruments /\ midi \in MidiType /\ L' = L
  <2>1. instrument' = instrument
    BY SplitSteps, OthersKeep DEF NoteOn, NoteOff, Reload
  <2> QED BY <2>1, SameLayers DEF TypeOK
<1>2. \A c, k : IsSwitch(c, k)' = IsSwitch(c, k)
  BY <1>1 DEF IsSwitch
<1>3. ASSUME NEW c \in Channel, NEW k \in Key, NoteOn(c, k), NEW t \in started'
      PROVE  StartedAt(t, midi')
  <2>1. t \in MayStart(c, k, midi')
    BY <1>3, NoteOnDoes
  <2>2. CountsOn(midi', c, k)
    BY <1>3, CountsAre DEF NoteOn
  <2>3. IsSwitch(c, k) \/ midi'.counts[<<c, k>>] # 0
    BY <1>1, <2>2 DEF CountsOn, MidiType
  <2> QED BY <2>1, <2>3 DEF MayStart, StartedAt
<1>4. ASSUME NEW t \in started'
      PROVE  StartedAt(t, midi')
  <2>1. ASSUME NEW c \in Channel, NEW k \in Key, NoteOff(c, k)
        PROVE  started' = {}
    BY <2>1 DEF NoteOff, Dispatched
  <2>2. ASSUME NEW c \in Channel, AllNotesOff(c) \/ ResetAllControllers(c)
        PROVE  started' = {}
    BY <2>2 DEF AllNotesOff, ResetAllControllers, Dispatched
  <2>3. CCSteps => started' = {}
    BY DEF CCSteps, CCEffect, CCDone
  <2>4. Programs => started' = {}
    BY DEF Programs, ProgramChange, Dispatched
  <2>5. Reload \/ (\E v \in voices : VoiceEnds(v)) => started' = {}
    BY DEF Reload, Dispatched, VoiceEnds
  <2>6. UNCHANGED vars => started' = started /\ midi' = midi
    BY DEF vars
  <2>7. (started' = started /\ midi' = midi) => StartedAt(t, midi')
    BY <1>4 DEF StartedInv
  <2> QED BY <1>3, <1>4, <2>1, <2>2, <2>3, <2>4, <2>5, <2>6, <2>7, Steps
<1> QED BY <1>1, <1>2, <1>4 DEF StartedInv, StartedAt, Hears, Triggers, Active

LEMMA InitPresses ==
  ASSUME Init
  PROVE  HeldInv /\ StartedInv
<1>1. /\ midi.counts = NoPress /\ midi.notes = NoNote /\ midi.active = 0 /\ held = NoPress
      /\ started = {}
  BY DEF Init
<1>2. \A p \in Channel \X Key : NoPress[p] = 0
  BY DEF NoPress
<1>3. \A p \in Channel \X Key : PressAt(p, midi.counts, held, silenced)
  BY <1>1, <1>2 DEF PressAt
<1>4. ASSUME NEW c \in Channel PROVE CountedTo(Of(c), midi.counts, midi.notes[c])
  <2>1. midi.notes[c] = 0 /\ Of(c) \in SUBSET (Channel \X Key)
    BY <1>1 DEF NoNote, Of
  <2> QED BY <1>1, <1>2, <2>1, CountNone
<1>5. CountedTo(Notes, held, 0) /\ midi.active <= 0
  <2>1. Notes \in SUBSET (Channel \X Key)
    BY DEF Notes
  <2>2. CountedTo(Notes, NoPress, 0)
    BY <1>2, <2>1, CountNone
  <2> QED BY <1>1, <2>2
<1> QED BY <1>1, <1>3, <1>4, <1>5 DEF HeldInv, HeldWith, StartedInv

(* A layer with trigger=legato starts only where another note is held, and *)
(* one with trigger=first of a source only where none is, but for notes    *)
(* that were silenced and for key switches (the counters of                *)
(* MidiState::noteOnEvent and sourceNoteOnEvent against the keys held).    *)
THEOREM FirstsAndLegatos == Spec => []FirstOrLegato
<1>1. Init => HeldInv /\ StartedInv
  BY InitPresses
<1>2. TypeOK /\ HeldInv /\ StartedInv /\ [Next]_vars => HeldInv' /\ StartedInv'
  BY HeldKept, StartedKept
<1>3. TypeOK /\ HeldInv /\ StartedInv => FirstOrLegato
  BY PressesFollow
<1> QED BY <1>1, <1>2, <1>3, TypesInvariant, PTL DEF Spec
=============================================================================
