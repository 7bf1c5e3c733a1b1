---------------------------- MODULE MCActivation ----------------------------
(* Instances of Activation for TLC.                                        *)
EXTENDS Activation

Always == [x \in AnyControl |-> Level]
Never == [x \in AnyControl |-> {}]

Plain == [restricted |-> FALSE, channels |-> Channel, keys |-> {60}, last |-> {},
          down |-> {}, up |-> {}, previous |-> {}, sequence |-> <<1, 1>>,
          positioned |-> FALSE, trigger |-> "attack", onNote |-> TRUE,
          wheel |-> Level, pressure |-> Level, poly |-> Level, programs |-> Program,
          conditions |-> Always, triggers |-> Never, group |-> 0, offBy |-> 0]
Sourced == [Plain EXCEPT !.restricted = TRUE]
Second == [Sourced EXCEPT !.channels = {1}]

(* Key switches of all kinds, with and without a channel range.            *)
Articulations(default) ==
  [default |-> default, sends |-> {"key"},
   layers |-> <<[Plain EXCEPT !.last = {24}], [Plain EXCEPT !.last = {25}],
                [Sourced EXCEPT !.last = {24, 25}], [Second EXCEPT !.last = {25}],
                [Sourced EXCEPT !.previous = {60}, !.trigger = "legato"],
                [Sourced EXCEPT !.keys = {24, 60}, !.trigger = "first"]>>]

(* Monophonic notes under sw_down and sw_up, where one layer is the choke  *)
(* of another, and first and legato.                                       *)
Mono ==
  [default |-> None, sends |-> {"key"},
   layers |-> <<[Plain EXCEPT !.keys = {24, 60}, !.group = 1, !.offBy = 1],
                [Sourced EXCEPT !.down = {24}, !.trigger = "first", !.keys = Key],
                [Plain EXCEPT !.up = {24}, !.trigger = "legato"],
                [Sourced EXCEPT !.up = {24}, !.trigger = "legato", !.group = 1]>>]

(* A note that others of its group, and a controller, cut short, with the  *)
(* key of a sw_down and of a sw_up.                                        *)
CutShort ==
  LET short == [Plain EXCEPT !.keys = {24, 60}, !.group = 1, !.offBy = 1]
  IN [default |-> None, sends |-> {"key", "control"},
      layers |-> <<[short EXCEPT !.conditions = [Always EXCEPT ![1] = {0}]],
                   [Sourced EXCEPT !.down = {24}], [Plain EXCEPT !.up = {24}],
                   [Plain EXCEPT !.keys = {}, !.group = 1, !.onNote = FALSE,
                                 !.triggers = [Never EXCEPT ![1] = {1}]]>>]

(* A round whose layers also count a controller, or one of which has a     *)
(* position that a controller can switch off.                              *)
Round2(l, first, second) ==
  LET ofTwo(p) == [l EXCEPT !.positioned = TRUE, !.sequence = <<2, p>>]
  IN [default |-> None, sends |-> {"key", "control"},
      layers |-> <<[ofTwo(1) EXCEPT !.triggers = first],
                   [ofTwo(2) EXCEPT !.triggers = first, !.conditions = second]>>]
Rounds == Round2(Plain, [Never EXCEPT ![1] = {1}], Always)
SourceRounds == Round2(Sourced, Never, [Always EXCEPT ![1] = {1}])

(* Conditions on the wheel, a controller and programs, then on pressures;  *)
(* the extended controllers start voices.                                  *)
Conditions ==
  LET bent == [Always EXCEPT ![WheelCC] = {0}, ![1] = {0}]
  IN [default |-> None, sends |-> {"wheel", "control", "program", "reset"},
      layers |-> <<[Plain EXCEPT !.wheel = {1}, !.conditions = bent, !.programs = {0}],
                   [Sourced EXCEPT !.wheel = {1}, !.programs = {1}, !.triggers = [Never EXCEPT ![WheelCC] = {1}]],
                   [Second EXCEPT !.conditions = bent]>>]

Pressures ==
  LET pressed == [Always EXCEPT ![PressureCC] = {1}]
  IN [default |-> None, sends |-> {"pressure", "poly", "reset"},
      layers |-> <<[Plain EXCEPT !.pressure = {1}],
                   [Sourced EXCEPT !.pressure = {0},
                                     !.triggers = [Never EXCEPT ![PolyCC] = {1}]],
                   [Second EXCEPT !.conditions = pressed]>>]

All == {Articulations(None), Articulations(24), Mono, CutShort, Rounds, SourceRounds, Conditions, Pressures}
=============================================================================
