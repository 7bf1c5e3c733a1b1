--------------------------- MODULE MCVoiceEnvelope ---------------------------
EXTENDS VoiceEnvelope, Sequences
Plain == [delay |-> 0, attack |-> 2, hold |-> 1, decay |-> 1, sustain |-> 2, start |-> 0,
          release |-> 1]
Static(shape) == [dynamic |-> FALSE, oneShot |-> FALSE, shapes |-> {shape}]
Mixed == {Static([Plain EXCEPT !.delay = x, !.sustain = y]) : x \in 0 .. 2, y \in {0, 2}}
  \cup {Static([Plain EXCEPT !.attack = 8, !.decay = 0, !.release = 0, !.hold = 0]),
        Static([Plain EXCEPT !.start = 3, !.hold = 3])}
  \cup {[dynamic |-> TRUE, oneShot |-> FALSE,
          shapes |-> {Plain, [Plain EXCEPT !.sustain = 4, !.hold = 2]}]}
Points(times, levels) ==
  [i \in 0 .. Len(times) - 1 |-> [time |-> times[i + 1], level |-> levels[i + 1]]]
Flex(dynamic, oneShot, delay, sustain, stages, shapes) ==
  [dynamic |-> dynamic, oneShot |-> oneShot, delay |-> delay, sustain |-> sustain,
   stages |-> stages, shapes |-> shapes]
Pointed ==
  {Flex(FALSE, FALSE, x, 1, 4, {Points(<<0, 2, 3, 0>>, <<0, 4, 2, 0>>)}) : x \in {0, 2}}
  \cup {Flex(FALSE, FALSE, 1, 1, 3, {Points(<<0, 3, 2>>, <<1, 4, 0>>), Points(<<0, -1, 1>>, <<0, 4, 0>>)}),
        Flex(TRUE, FALSE, 1, 1, 3, {Points(<<1, 1, 3>>, <<2, 4, 0>>), Points(<<0, 3, 1>>, <<0, 2, 1>>)}),
        Flex(FALSE, TRUE, 0, 1, 3, {Points(<<1, 3, 2>>, <<2, 4, 0>>)}),
        Flex(FALSE, FALSE, 0, 5, 3, {Points(<<1, 3, 2>>, <<2, 4, 0>>)}),
        Flex(FALSE, FALSE, 0, 0, 0, {<<>>})}
=============================================================================
