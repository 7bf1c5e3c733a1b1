# A TLA+ model of sfizioso

sfizioso is an SFZ sampler library: the host sends MIDI and expression
messages and asks for blocks of audio, and the engine starts, releases, chokes
and mixes voices that play samples streamed from disk. Its own code is
`src/src/sfizz`; `src/src/external` and `src/external` are vendored.

This directory holds TLA+ modules for the parts of the engine whose order of
events is hard to test, the configurations that check them with TLC, and
proofs with TLAPS about what eight of them do for all values of the constants.
Paths below are relative to
`src/src/sfizz`.

Contents

1. Inventory of the system
2. The modules, and how they correspond to the code
3. The runs: what each checks, bounds and fairness
4. Proofs
5. Disagreements between the code and its documents
6. What is not modelled, and the plan

## 1. Inventory of the system

### Components

| component | state | operations |
|---|---|---|
| Sample file pool (`FilePool`) | per file: status, available frames, reader count, buffer; load queue, thread pool, garbage list, two semaphores | preload, getFilePromise, getData, dispatch, load, triggerGarbageCollection, garbage thread, remove unused files, reset |
| Note registry (`NoteRegistry`) | slots with generation, source, pitch, sequence | beginNote, endNote, contains, clear, configure |
| Layers (`Layer`) | per layer or per source channel: pedals, switches, sequence counters, delayed releases | registerNoteOn/Off, updateCCState, the two delayed-release queues, activation |
| Voices and their manager (`Voice`, `VoiceManager`, `VoiceStealing`, `PolyphonyGroup`, `RegionSet`, `SisterVoiceRing`) | voice state, trigger event, ring pointers, registries per engine, group, header | startVoice, registerNoteOff, registerCC, off, reset, checkPolyphony, steal |
| Synth dispatch (`Synth`, `SynthMessaging`) | layers, activation lists per key and CC, key-switch memory | noteOn/Off, cc, pitch wheel, aftertouch, renderBlock, allSoundOff, resetAllControllers, load |
| MIDI state (`MidiState`, `ExpressionContext`) | notes pressed, controllers, contexts of zone, channels and notes with bounded timelines | begin/endNoteExpression, events, flushEvents, resets |
| MPE input (`MidiInputAdapter`) | profile, ranges, RPN parsers, member seeds | resolvePitch/Pressure/Timbre, observeRpnControl, host settings |
| Envelopes (`ADSREnvelope`, `FlexEnvelope`), LFOs, modulation matrix | stage, level, countdowns; buffers and their readiness | reset, getBlock, startRelease, cancelRelease; beginCycle, beginVoice, getModulation, endCycle |
| Beat clock, metronome | host and client position, filled part of the block | tempo, signature, position, playing, fill |
| Buffer pool, power follower, smoothers | free lists, running values | get, release |
| Regions, parser, opcodes, tuning, curves | what an instrument says | load only |
| Filters, wavetables, oversampling, panning, SIMD, effects | signal memories | process a block |
| C and C++ API, OSC messaging, clients, import | none of their own | pass calls on, convert |

### Interactions

- The **audio thread** is the only caller of the note, controller and render
  functions; messages are dispatched one at a time, at sample offsets that do
  not go back within a block. `sfizz.hpp` states the contract: one processing
  task and one control task, with most control functions excluded while the
  processing task runs.
- The **file pool** is shared with a dispatcher thread, a pool of loader threads
  and a garbage thread, through atomics, a lock-free queue, semaphores and two
  locks. It is the only part of the engine with real concurrency.
- A **Note On** goes to the MPE adapter (channel to target), the registry
  (identity), the MIDI state (expression context) and then to every layer of
  the key; each layer that starts first chokes, steals and then takes a voice.
  A choke dispatches a Note Off **from inside that loop**, which may start
  release voices that choke again.
- A **pedal** message goes to the playing voices, then to the layers with a
  condition on that controller, then to the MIDI state: three copies of one
  fact, each read by the next stage at its own time.
- A message reaches a **layer** through lists that `Synth` built at load (by
  key, by controller, key switches, previous key); a layer without a channel
  range has one set of switches, a layer with one has a set per source channel.
- A **block** is rendered voice by voice. The voices share the buffers of the
  modulation matrix, the beat clock and the pool of scratch buffers: who asks
  first has a buffer filled, the others read it. The host moves the clock and
  starts notes between two blocks.
- A **voice** keeps the identity of its note. It reads its note's expression
  context as long as that identity is current, and a copy of its own
  afterwards.

### What is hard here

Interleavings of the pool's threads; wake-ups lost or in excess; a buffer freed
while it is read; identities that outlive their note; slots reused under them;
a counter of 16 bits that wraps; pedal states read between two of their
updates; releases queued twice or never; recursion in the choke; five polyphony
limits that are checked one after the other; full queues, timelines and voice
tables; a release that comes in any stage of an envelope, at any offset;
buffers that are filled for one voice and read by the next; positions of the
clock that are counted when somebody asks for them; loops that close anywhere
in a block; switches that are kept once per channel and changed by all.
`PROJECT.json` lists these with the line where each bites and the property that
covers it.

### What makes each part correct

- Pool: spans only cover frames that are written and stay; one writer per
  buffer; nothing leaks; promises are fulfilled.
- Registry: Note Off ends the oldest Note On of its address and pitch;
  identities do not name another note.
- Pedals: a voice outlives its key exactly while a pedal it heeds is down;
  every release is delayed or started once.
- Voices: every limit holds for the voices not told to stop; registries and
  rings agree with the voices; chokes are complete and end.
- Expression: a voice hears its own note and nothing else; what is lost is
  counted.
- Envelopes, of both kinds: a release takes effect on its frame, falls to
  silence and ends the voice; no block is rendered for ever.
- Activation: the switches of a layer agree with the latest messages of the
  source they belong to, and a source moves no switch of another one.
- Render cycle: what a voice reads was made for it, in this block; the pool has
  a buffer when one is asked for; generators and the clock advance once a block;
  a sample is read on where it was left.

## 2. The modules

| module | models | proofs |
|---|---|---|
| `FilePool` | `FilePool.{h,cpp}`: promises, streaming, collection | `FilePoolProofs` |
| `NoteRegistry` | `NoteRegistry.{h,cpp}` and the clients that keep identities | `NoteRegistryProofs` |
| `NoteMatching` | the abstract promise of the registry: FIFO pairing | |
| `Pedals` | `Layer`, `Voice` and `Synth` under sustain and sostenuto | `PedalsProofs` |
| `Voices` | dispatch, chokes, stealing, registries, rings, reset | `VoicesProofs` |
| `Expression` | `MidiInputAdapter`, `MidiState`, `ExpressionContext`, the snapshots of `Voice` | `ExpressionProofs` |
| `VoiceBlocks` | a voice between messages and blocks, as its envelope sees it | |
| `ADSREnvelope`, `FlexEnvelope` | the two kinds of amplitude envelope; both extend `VoiceBlocks` | |
| `VoiceEnvelope` | the envelope of a voice, of the kind its region has | `EnvelopeProofs` |
| `NoteLife` | what any envelope promises: a note waits, sounds, ends | |
| `Activation` | the switches of `Layer`, the lists of `Synth`, what `MidiState` remembers of messages | `ActivationProofs` |
| `Transport` | the abstract promise of the beat clock | |
| `BeatClock` | `BeatClock.{h,cpp}` | `RenderCycleProofs` |
| `ModMatrix` | `ModMatrix.cpp`, `BufferPool.h`, the generators' requests; extends `BeatClock` | |
| `Playback` | which frames `Voice::Impl::fillWithData` reads | `RenderCycleProofs` |
| `RenderCycle` | `Synth::renderBlock`; composes `ModMatrix`, `BeatClock` and `Playback` | `RenderCycleProofs` |

Each `MC` module only holds values for the constants. `PROJECT.json` maps every
definition to the lines it stands for. Definitions marked as mutants are faulty
variants: putting one in the place of its original makes the named property
fail, which shows that the property depends on that code.

### FilePool

One action is one access to an atomic or one critical section. Per file:
`status`, `availableFrames`, `readerCount`, `fileData` (valid chunks of the
buffer, -1 for none). A voice is a `Holder` that asks (`QueueRequest`,
`PostDispatcher`, `TakeQueuedPromise`, `TakeLoadedPromise`), reads in three
separate loads (`GetDataStatus`, `GetDataFrames`, `GetDataSpan`) and lets go
(`ResetHolder`). Loaders go through status check, claim by compare-and-swap,
preparation, writing and publishing one chunk at a time, Done, and registration
under the lock. The collection pass (`Gc...`) examines a file, claims it, looks
at the readers again, zeroes the frames, moves the buffer to the garbage list
and restores the status. Frames are counted in chunks. With `Serialized` the
host keeps its own calls apart, as the public contract demands; without it the
pool is exposed to voices that read while a collection runs, which is what its
atomics are written for.

### NoteRegistry and NoteMatching

The slots, the rotating sequence and the wrapping generation are the code's;
`kept` holds identities that voices and layers remember, with ghost fields that
say which note each was given for. `NoteMatching` knows only a set of
outstanding notes: the registry implements it under the mapping from active
slots to pending notes (`PairsInOrder`).

### Pedals

A pair of regions with one key range, one `trigger=attack` and one
`trigger=release`. One action per MIDI message, in the order of the code:
voices, layers, MIDI state. `region` ranges over combinations of `sustain_sw`,
`sostenuto_sw`, `rt_dead`, one-shot, release cancelling and channel range.
Both layers keep their own pedal flags, which is where they can go stale.

### Voices

`stack` holds the dispatches under way, because a choke starts a Note Off
inside the loop over the layers. One step handles one voice to choke (`Choke`)
or one layer to consider (`Skip`, `Start`); nothing else happens while a frame
is left; the layers a dispatch has left are a set, as any order of them may come.
`Start` is `Synth::Impl::startVoice` as a whole: the checks of note,
region, group, headers and engine one after the other, each of which may tell a
ring to stop, the choice of a free voice, its reset, its registration and its
place in the ring. A voice of a disabled region, or one for which the file pool
has no promise, gets its region and event but only waits for cleanup, outside the
ring; the disabled one is in no registry either (`Outcomes`, `Joins`). A layer
whose controller conditions fail starts nothing, and its voices are choked by
notes of their own key and group as well (`SwitchedOn`); `Switch` stands for the
controllers that meet or fail a condition, and those start no voices here. The three stealers are there; the powers that
`stealEnvelopeAndAge` compares are high or low. A message starts voices if it is
a note or a controller with `on_loccN`. Registries are sequences in the order
of registration with `swapAndPop` removal, the rings are the two pointer
functions `next` and `prev`. A block is rendered voice by voice
(`BeginBlock`, `RenderVoice`), and `allSoundOff` resets voice by voice
(`SilenceVoice`), so that the rings are seen with some of their voices gone.
Ages count blocks. Two sister events of one key, velocity and age are passed
over together, as the code does (`VoiceStealing.cpp:114-158`). A polyphony of 0
together with the `envelope_and_age` stealer is excluded by `VoicesAssumption`:
the code then looks at the front of an empty set (`VoiceStealing.cpp:110`).

### Expression

Per slot of the registry a context with a timeline for pitch and one for
pressure. Messages resolve through the profile (range, seeds), are broadcast to
the notes of their channel and inserted at their offset. At Note Off a voice
copies the part of the block heard so far (`Frozen`). `own` is a history of
what was sent to the voice's note, and `behind` of the kinds whose latest event
found the timeline full: only in those, and only until an event of the kind
finds room again, may a note differ from what it was sent and from its member;
the context counts what it drops.

### VoiceBlocks, ADSREnvelope, FlexEnvelope, VoiceEnvelope, NoteLife

`VoiceBlocks` has what both kinds share: a note begins, is released or goes on
at an offset of the block that does not go back (`Begins`, `Releases`,
`Resumes`), then the block is rendered. `toGo` and `wait` are histories of the
frames until the delay is over and until the release is due; `asked` says
whether the note was told to end. A step of rendering is one turn of the loop in
`getBlockInternal` or `process`, so a stage may cover any number of frames and
a turn may cover none. Levels are small integers. An exponential ADSR stage
halves the level or, for a time of zero, ends at once; stages of a flex
envelope are linear. Dynamic envelopes take any shape of `patch.shapes` where the
code reads the values again, which stands for what controllers do to them.
`VoiceEnvelope` lets the patch decide the kind, and maps both to `NoteLife`.

### Activation

One action per MIDI message: notes with key switches of all four kinds
(`sw_last`, `sw_down`, `sw_up`, `sw_previous`), wheel, both pressures, programs,
controllers, the resets, automation and a reload. `switches` holds what a
`Layer` keeps, once for all or once per source channel; which layers learn of a
message follows from the lists `finalizeSfzLoad` builds (`Hears`, `Registered`,
`Triggers`). Of notes `MidiState` counts three things: all that are no key switch
(`active`), and per source all of them and those of each key (`notes`, `counts`),
for the keys that are no key switch of that source. The properties compare
switches and counts with histories of the messages. A key switch is not counted,
so `FirstOrLegato` does not take it for a note that is held. `SwitchesFollowKeys`
follows a `sw_down` or `sw_up` switch both ways: on with the press of a key and
only so; off with any Note Off of one, with a load, or with a note that chokes
one of its notes (`Cut`). In the last case the code may leave the switch off with
the key still down, as section 5 tells; in all others it stays on. The header of the
module lists what is left out.

### BeatClock and Transport

Positions are whole ticks, bar and beat together. They are filled in when
somebody asks in a block (`GetRunning`), at the latest when the block ends. A
message of the host comes between two blocks; its delay counts from the start of
the latest one (`Between`). `Transport` moves the
position by one frame at a time, with the tempo and signature of that frame;
`Promised` is the mapping. `Ahead` allows
delays beyond the latest block, of which section 5 tells.

### ModMatrix

A function of the matrix or of a generator is a sequence of instructions: take
a buffer of the pool, give it back, use some in between, ask for the modulation
of a target, run a generator, discard, advance the clock, play. The call stack
`work` is a sequence of frames with the instructions each has left; a step takes
one instruction. So `getModulation` is there with its recursion, and the buffers
are taken in the order in which the code's scopes take them. `made`, `filled` and
`runs` are histories: for whom a source was made, for whom a target was filled,
how often a generator ran. What opcodes can connect is an assumption on the
patch, `WellConnected`: the frequency, the beats and the phase of an LFO, and the
depth of a connection, are moved by controllers, aftertouch and envelopes, which
ask the matrix for nothing (`Region.cpp:1004-1034`, 1286-1331, 1508-1524,
1694-1710); the detune and the modulation depth of oscillators by controllers only
(`Region.cpp:167-177`).

### Playback

The place of a voice in its sample, in ticks of which `Grain` make a frame, so
that the fraction the code carries from block to block is a whole number.
`LoopPass` and `StraightPass` are the two passes of `fillWithData`, a frame at a
time by `LoopStep` and `StraightStep`: with the loop, and from where it ends.
`Plausible` is what the code ensures of a sample: a voice moves forward, and no
loop ends before it starts (`Voice.cpp:1936`). A sample keeps its frames while a
voice plays it: that a promise's span may grow meanwhile is the matter of
`FilePool`. An empty one is read by nobody. `travel` is a history of the ticks the voice has
moved, `played` of the frames it has rendered.

### RenderCycle

The stages of `Voice::renderBlock` (sources, amplitude, filters, equalizers,
pan) are the instructions they ask of the matrix, for regions with a sample, an
oscillator, a unison or modulated one, or noise. A block takes the buffers of the
callback, begins the cycles of matrix and clock, gives each busy voice its turn
and ends the cycles. Between blocks voices start and are released and the host
sends messages; `patch.blocks`, `notes` and `messages` bound how many.

## 3. The runs

| run | distinct states | what it shows |
|---|---|---|
| `pool_threads` | 2.0 M | two voices, two loaders and the collection interleaved freely: `SpanBacked`, `ExclusiveStream`, `NoBufferLeak`, `GarbageWithinCapacity` |
| `pool_host` | 0.3 M | serialised host calls: `SpanNeverShrinks`; with fairness `PromiseFulfilled`, `GarbageFreed` |
| `registry_notes` | 0.2 M | `GenerationGuards` and the refinement of `NoteMatching`, `PairsInOrder` |
| `pedals` | 1.6 M | `HeldByPedal`, `SustainHoldsOmni`, `SostenutoQueueGuarded`, `QueuesDrainOnce`, for omni and restricted regions, with both pedal switches on or both off |
| `pedals_restricted` | finding | `SustainHolds` fails for a region with a channel range |
| `voices` | 1.6 M | chokes, nested limits, controllers, conditions and failing starts under the three stealers: `RecursionBounded`, `ChokesComplete`, `LouderSurvives`, `PolyphonyHeld`, `RegistriesAgree`, `RingsClosed`, `CutOnlyAtLimit` |
| `expression_own` | 1.0 M | `VoiceKeepsOwn`, `NoteFollowsMember`, `TimelinesOrdered` |
| `envelopes` | 0.3 M | both kinds: `OnTime`, `NotEarly`, `ReleaseFalls`, `FlexContinuous`; with fairness `BlockEnds` and the refinement of `NoteLife`, `KeepsPromise` |
| `activation` | 0.5 M | `KeySwitchIsLatest`, `FirstOrLegato`, `RoundsAgree`, `ConditionsCurrent`, `SourcesIsolatedOtherwise`, `SwitchesFollowKeys` |
| `render_cycle` | 0.5 M | `BuffersCurrent`, `PoolSuffices`, `FramesFollow`, `AdvanceOnce`, and the refinement of `Transport`, `CountsEveryFrame` |
| `controllers_shared` | finding | `OwnExpression` fails: a controller's buffer is made for one voice and read by all |
| `frames_repeated` | finding | `FramesInOrder` fails: a voice without delay reads one frame twice |

### Bounds and why they are enough

- Pool: files of one preloaded and up to two further chunks (a span can be seen
  at two lengths), two voices on one file, two jobs, a garbage list of one entry
  (full at once). `f3` is loaded entirely, `f2` in `pool_host` cannot be opened
  again. `MaxJobs` bounds the thread pool's queue and `MaxPosts` the pending
  posts of the garbage semaphore.
- Registry: capacities 1 and 2, two valid addresses and one outside the range,
  one pitch; a counter of four values, which comes round within the six notes.
- Pedals: two notes of one pitch and queues of two entries; three voices on one
  channel, or one voice on two channels. Two notes are what it takes to mix a
  note up with another one.
- Voices: four setups, each with three messages that start voices and up to
  four voices under limits of one to three; the fourth has a region with
  conditions, one whose sample may be missing and a disabled one. One block ages some voices and not
  others and releases the delayed region early; two blocks make two ages, which
  the `oldest` and `envelope_and_age` stealers tell apart.
- Expression: two notes in two slots over two members, three messages, timelines
  of two events in a block of three frames: full after one change.
- Envelopes: nine ADSR and seven flex shapes, blocks of three and four frames,
  chunks of two, delays from zero to two, two notes and three releases or
  cancellations. `CancelInDelay = FALSE` leaves out one case, described in
  section 5. `Longest` bounds the times of the stages, and where the time spent
  in an endless stage stops being counted.
- Activation: eight instruments of two to six layers, two channels, three keys
  of which two switch; controllers, wheel and pressures are at rest or not.
  `MaxHeld` bounds the presses counted at a time. In two of the instruments notes
  choke each other, in one of these (`CutShort`) a controller chokes them too.
- Render cycle: the pool has the buffers of `Config.h` (6, 4 and 4), the
  playhead tolerance is the code's. Twelve patches: a unison oscillator with a
  modulated filter, which asks for the most buffers at a time; two regions in
  turn; an LFO in beats under three messages of the host; eight samples over six
  blocks, one of them empty, the others long enough for a loop to close several times, within and between
  blocks; and a mono region with an LFO on its width, which nobody asks for, and
  an envelope that moves the LFO's frequency and comes before it (`Unheard`).
  Half a frame (`Grain = 2`) is the smallest fraction that carries over.

Every counter bound is a constant or a field of the instance named in the guards.
Where behaviours stop at such a bound the configuration switches the deadlock
check off (voices, expression, envelopes); it is on for all others. In
`RenderCycle` the end of the last block stutters (`Over`), so that a block that is
stuck would be found.

### Fairness

- `FilePool`: weak fairness for the background threads and for a host call that
  has been entered; none for new host calls, so voices may stop asking at any
  time. Strong fairness for the two steps that compete for the spin lock with
  the collection (`LoaderRegister`, `GarbageClear`): the collection runs at most
  once per `config::fileClearingPeriod` seconds and cannot win for ever.
- `VoiceEnvelope`: weak fairness of `Render`, the host asking for one block after
  the other. No fairness for messages.
- The other specifications have no liveness property and no fairness: what they
  describe is one call of the host after the other, and none has to come.

## 4. Proofs

The proof modules are checked by TLAPS to the last leaf, for every value of the
constants that meets the assumptions named in the modules.

**File pool.** `SpanBacked`, `ExclusiveStream`, `NoBufferLeak` and
`GarbageWithinCapacity` are not inductive. The invariant `IInv` adds:

- `CountInv`: `readerCount` is the number of voices that hold the file;
- `FramesInv`: what frames and buffer a file may have in each status;
- `StreamInv`: a streaming loader owns the file and is at most one chunk ahead;
- `PassInv`: the collector owns what it claimed; past the second look at the
  readers, no voice is between its status load and its span;
- `SpanInv`: what a voice saw of the frames is still there;
- `RegisterInv`: a buffer is registered or its loader has yet to do so.

The argument for `SpanBacked` is the second look: a voice that loads the status
after the claim sees `GarbageCollecting` and falls back on the preloaded frames;
one that loaded it before is counted, and the claim is given back. `Invariance` proves `Spec => []IInv`
with one lemma per action; the theorems `TypeCorrect`, `SpansAreBacked`,
`StreamsAreExclusive`, `BuffersAreTracked` and `GarbageIsBounded` follow. The
proof needs `Holder` to be finite (`HolderAssumption`) and covers
`Serialized = FALSE`, the weaker contract.

`SpansNeverShrink` is proved under `Serialized`, which the code needs and its
caller grants: the host neither plays nor moves events while it collects. Then
`HostInv` holds besides `IInv`: no voice is inside a call while a pass runs
(`Calm`), the file the pass looks at has no viewer (`Unviewed`), and what a voice
has seen is more than the preloaded part and still there (`SeenFrames`).

**Note registry.** `IInv` is `TypeOK` with `Numbered` (slots hold sequence
numbers already given out), `Distinct` (no two active notes share one),
`CountsActiveNotes` and `Ages` (the generation of a slot tells, modulo the
counter, how often it was reused since an identity was taken). From it
`CountIsExact`, `GenerationsGuard` (the bound holds for any width of the counter;
2^16 values in the code) and `Refinement`: `Spec => PairsInOrder`, where each step
of the registry is a step of `NoteMatching` or leaves it alone.

`TypeCorrect` and `CountIsExact` have no run: they are lemmas on the way.

**Pedals.** `Inv` is `TypeOK` with

- `IdentitiesOK`: no two attack voices are of one note;
- `ReleasesOK`: a release voice has seen neither a Note Off nor a pedal;
- `Heeded`: a layer notes the sostenuto pedal only if its region heeds it;
- `SostenutoQueueGuarded` itself.

`PedalTypes` and `SostenutoQueueIsGuarded` follow for every set of regions,
channels and keys and every length of the queues. `OmniInv` adds `PedalsSeen`:
every attack voice of a region without a channel range knows the pedals as the
MIDI state has them, and one whose key is up sounds on only while a pedal holds
it. From it follow `NoNoteHangs` (`HeldByPedal`) and `PedalHoldsAll`
(`SustainHoldsOmni`). Both assume `SwitchesAlike`, the heeding of both pedals or
of none: `Voice.cpp:771` guards each pedal by the switch of the other, so without
it the theorem is false. `OnceInv` adds `Once`: an identity is in one queue, at
one place, or held by a key, or answered, and never two of these. Storing,
draining and answering each move it once, hence `ReleasesHaveOnePlace`
(`QueuesDrainOnce`). What an entry that stays in a queue was before the queue was
drained is found with `NthExists` and `KeptEntries`, by the least index of
sufficient rank.

**Expression.** `Types` keeps the order of a timeline in the type: a `Line` starts
at frame 0 and rises strictly, a `Short` one stays within the capacity.
`EarlierFirst` says that the events before an offset are the first ones, whence
an insertion keeps a line a line (`InsertedLine`) and what a voice cuts out of
one is a line (`PrefixLine`). `TimelinesAreOrdered` follows for any order of
messages, resets and calls, `CallsBetween` or not. `OwnInv` adds

- `Behind`: no event of a note's context is later than the block's latest offset;
- `Aged`, `InPlace`: the context of a slot has the slot's generation, a held
  voice is the one its slot is for, and the slot of a released one is inactive or
  has a later generation;
- `KeepsOwn`: a voice hears what it was sent in every kind it is not behind in,
  and a held note that is behind has a drop counted in its context;
- `FollowsSeed`: a held voice was sent what its member's seed holds.

`Behind` is what makes the inserted event the last one, and the prefix cut at a
Note Off the whole line. It is false when the host sets the range inside a
block, which inserts at offset 0 (`Synth.cpp:2100`); so `VoicesKeepTheirOwn` and
`NotesFollowMembers` assume `CallsBetween`, as the run does.

**Beat clock.** `ClockOK` says that a block under way has none or all of its
positions filled in. With it each action is a
step of `Transport`, or of as many frames as it fills in, or leaves it alone
(`PromisedStep`). `ClockCounts`: `~Ahead => (ClockSpec => CountsEveryFrame)`.

**Render cycle.** `BuffersCurrent` depends on who is being rendered. `IInv` is

- `VoicesOK`, and `TurnOK`: only the voice whose turn it is has work, and the
  call stack is a sequence of frames;
- `BuffersOK`: a source that is ready was made for this voice
  (`SourceCurrent`), a target that is ready is filled for it or its frame is on
  the stack (`TargetCurrent`), a controller was made in this block
  (`CycleCurrent`).

`beginVoice` makes everything of the region unready; a source becomes ready
only when its generator returns to the voice that asked; nothing but the stack
fills a target. `BuffersAreCurrent` follows for every instrument, number of
voices and order of blocks. `EngineCountsFrames` carries the beat clock's theorem
over: each step of the engine is a step of the clock or leaves it alone
(`ClockDriven`).

`FramesFollow` needs more, and `PInv` adds `PlacesOK` to `IInv`:

- every voice with a sample is `WellPlaced`: its place, in ticks, is the way it
  has travelled less the loops it closed and the repeats it made (`Exact`), or
  it has run into the end of its sample and stays there (`AtEnd`); and while it
  loops and has closed a loop, it is inside it (`InLoop`);
- a voice whose sample begins behind this block has nothing left to do that
  plays (`Silent`): without this, `fillWithData` would move a voice that has not
  begun. `Silent` is a fact about the call stack, so it needs `StagesSilent` and
  `StaysSilent`: what the stages, the generators and the discards of the matrix
  ask for plays only in `FillWithData`.

`LoopPassed` and `StraightPassed` carry the place through the two passes. Their
steps are linear in ticks but for the size of the loop: `Wrapped` says that
rounding up (index - end) / size closes as many loops as the inner `while` does,
and `QuotientRises` and `TicksRise` that frames come in order. `FramesFollowed`
holds for every sample that is `Plausible`, all loops, counts and sizes of
blocks.

`AdvanceOnce` is about how the generators of a voice call each other, so it
rests on the shape of the call stack. `AInv` is `IInv` with `StackOK` and
`CountOK`:

- each frame is `Good`: a stage, a target or a generator, with instructions of
  its own kind left; while a voice ends, the bottom frame (`Bottom`) holds the
  discards still to come, in order of registration (`InOrder`);
- `Nested`: above a generator there are only targets that it asks for and
  sources that ask nobody, by `WellConnected`; so no generator is on the stack
  twice, and (`Making`) none on the stack is ready;
- `Counted`: a generator whose discard is still to come has run once if it is
  ready and not at all otherwise; one whose turn has passed has run once, or
  twice if it is `AskedLate`. `CountedCycle`: a controller has run once if it is
  ready, and not at all otherwise.

`Advanced` concludes: when `endVoice` returns no discard is left. `AskedLate` is
no escape clause: it names the one way in which the code moves a generator on
twice (section 5), and `AdvancesOnce` says that there is no other. A proof
without it failed at the step that runs a source for a generator that is itself
discarded, and a patch made from that step showed TLC the case.

`PoolSuffices` relates what is taken from the pool to all that is under way, so
it needs to know what each frame holds and may still take. `PoolOK`:

- `Taken`: the buffers in use are those of the callback, of the stage under way
  and of at most one oscillator; the stages still to come, targets and the other
  generators hold nothing. One oscillator only, since by `Nested` there are only
  sources that ask nobody above it;
- `Fits`: what a stage has left can be done with five single buffers and four
  index buffers in hand, and where it asks for what an oscillator may move, or
  discards, with three single ones, which leaves the oscillator two.
  That is a property of the lists of instructions, shown for each kind of stage
  and any number of unison voices, filters and equalizers (`DataRoom`,
  `GeneratorRoom`, `AmpRoom`, `FiltersRoom`, `PanRoom`, `DiscardRoom`); `GoesBoth`
  says that lists can be joined, `GoesFirst` what is left after one instruction;
- `HasRoom`: an oscillator takes its own buffer before all else and later no
  more than one at a time.

From these, `TakeFits` and `GiveFits` are arithmetic. `PoolNeverShort` assumes
`EnoughRoom`: six single, two stereo and four index buffers or more, of which
`Config.h` (26-28) gives six, four and four. The bound is tight: with five
single or with three index buffers TLC finds the pool of `render_cycle` empty.

`RenderAssumption` and `PlaybackAssumption` ask for well formed patches: samples
that are `Plausible`, connections that are `WellConnected`.

**Voices.** `IInv` (`VoicesProofs`) is

- `VoicesOK`, `TurnsOK`: no dispatch is under way while voices take turns;
- the frames of the stack, whose ring heads are voices that are not idle;
- `RingsOK`: `next` and `prev` are each other's inverse, and an idle voice is
  alone;
- `ListsOK`: each registry lists, without repetition, the voices that are not
  idle, belong to its owner and have an enabled region.

The heads matter: `Start` links the new voice between the head of the dispatch's
ring and the voice before it, and an idle head would be pulled into a ring. It
cannot become idle before the dispatch is over, as voices are only reset in a
block, by `allSoundOff` or when they are reused, and a reused voice is busy again
at once. `UnlinkedMirror` and `LinkedMirror` say that taking a voice out of a
ring and putting a lone one in keep the mirror; `WithoutOne` and `AppendOne` say
what `swapAndPop` and registration do to a list. From `IInv` follow
`RingsAreClosed` and `RegistriesAreRight`.

`ChokeInv` adds: in each frame, no voice behind `from` can be choked
any more (`FramesLooked`); every frame but the outermost is a Note Off
(`InnerOffs`); and the stack's depth and the voices a choke can still stop make
up no more than the number of voices and one (`StackBound`). A nested dispatch
only starts release voices, which cannot be choked, so it neither undoes what
the outer loop has done nor feeds the recursion; each nested dispatch is paid
for by the voice that was stopped. `ChokesAreComplete` and `RecursionIsBounded`
follow, for every instrument, stealer, limit and number of voices.

*Polyphony.* `Held` bounds the voices of each owner and region that are not told
to stop by the limit, or by one where the limit is 0. It is inductive beside
`IInv`, `ChokeInv` and the types, by three facts:

- a stealer picks a voice whenever one is left to pick: the first in an order
  that is total on the candidates (`LowerTotal`, `FirstOfChosen`), and the walk
  through the rings, a recursive function over numbers, ends (`Recursion`,
  `WalkReturns`);
- a check leaves one place fewer than the limit exposed (`StealBound`), though
  it stops one ring only: the list had no more than the limit to begin with;
- later checks only stop more voices (`ChecksGrow`), so the place the first one
  made is still free when the voice starts (`RoomToStart`, `StartHeld`).

Hence `PolyphonyIsHeld`. For `CutsAreForced`, `WhyStopped` says which check has
stopped a voice, and the symmetry of rings (`RingSymmetric`) carries the reason
from a sister to the voice that is reused; `LouderVoicesSurvive` is the case in
which only `checkNotePolyphony` can be that check.

**Envelopes.** The invariant has a part for each kind:

- `BlocksOK`: the spans of the block under way, for both;
- `DelayCounts`, `ReleaseCounts`: the countdowns of an ADSR envelope and the
  histories `toGo` and `wait` bound each other;
- `FlexCounts`: the same for points, less the frames skipped for the trigger
  offset (`late`);
- `FlexLevel`: the level is that of the time spent in the stage;
- `Holds`: nothing has told the envelope of a held note to end.

`ReleasesOnTime`, `ReleasesNotEarly` and `NotesLive` assume `SteadyDelay` and
`~CancelInDelay`. Both name cases in which the code does not keep time, told in
section 5: a dynamic envelope sets its delay anew in each chunk
(`ADSREnvelope.cpp:61` and 77), and a release cancelled in the delay leaves a
delay nobody counts down. The shapes of the run meet both. `LevelsContinuous`
needs neither: a level moves by the slope of its stage, and `SlopeRounded` bounds
what integer division adds to it, whatever cuts the stage in pieces. `NotesLive`
is the safety half of `KeepsPromise`: every step of either kind of envelope is a
step of `NoteLife` or leaves its note alone.

**Activation.** A dispatch folds over the layers. `SoFar` is the invariant of that
loop: which switches the layers looked at so far may have changed, what a choke
has released on the way, and which layers have started. `Recursion` and
`Passing` carry it through the recursive function, `NoteOnDoes`, `CCEffect` and
their like say what a message as a whole does, and `Steps` sorts the steps by
message. On these rest

- `TypesInvariant`, `KeySwitches` and `SwitchesNeedKeys` (`sw_down` is on only
  while a key of it is held, which the runs check as part of
  `SwitchesFollowKeys`), which are inductive beside the types: a choke lifts keys
  and presses none (`Lighter`);
- `Conditions`: what moves the MIDI state has told the layers (`Noticed`);
- `SourcesIsolated`: a message reaches one scope of a restricted layer, and
  only a choke of another source's voice lifts a key there (`ChokedElsewhere`);
- `SwitchesFollow`: each key a dispatch lifts is that of a note it chokes
  (`Causes`, part of `SoFar`), which plays or has begun in this dispatch, and is
  cut (`ChokesCut`); as a controller chokes without a Note Off, all other
  messages leave the keys alone (`OthersKeep`);
- `Rounds`, by `RoundInv`: all layers of a round have one counter, and a layer
  is on exactly if the counter stands at its position. That two layers of a
  complete round have different positions is counted (`PositionsDiffer`);
- `FirstsAndLegatos`, by `HeldInv`: what is counted of a key is no more than
  its presses, and as many where none was silenced; the count of a source is
  the sum over its keys; the count of all is no more than the presses of keys
  that do not switch. Sums are sizes of sets with one token for each press
  (`CountUp`, `CountDown`). More than one note in a sum is another note held
  (`CountMore`), and one is none other (`CountSingle`). `StartedInv` says that
  what a Note On started had its trigger and is counted.

Only model-checked: all liveness (`PromiseFulfilled`, `GarbageFreed`, `BlockEnds`,
the fair half of `KeepsPromise`), which is out of the prover's reach; and
`ReleaseFalls`, whose measure has powers of two, for which induction over the
exponent would be needed.

## 5. Disagreements between the code and its documents

Shown by runs:

- A region with a channel range starts a note under a pedal that is down as if
  it were up (`pedals_restricted`): its attack layer is not in the lists of
  layers that controllers are sent to.
- A controller's buffer is made once a block, from the expression of the voice
  that is rendered first, and read by all voices (`controllers_shared`).
- A voice whose trigger has no delay has age 0 again after its first block and
  reads one frame twice (`frames_repeated`).

Met while modelling. Those that are hazards have an entry in `PROJECT.json` with
their line; the passing runs avoid them where the text says so.

*Notes, layers and pedals*

- A region with `sostenuto_sw=off` never hears of the sustain pedal going up for
  a note started while it was down (`Voice.cpp:771`, against
  `tests/SynthT.cpp:1042-1044`). The runs have both switches on or both off.
- Wheel and pressures are passed on as the extended controllers 128 to 130
  without their source (`Synth.cpp:1863`), though per-source conditions are
  announced (`src/README.md:26`, `src/CHANGELOG.md:56`). Hence
  `SourcesIsolatedOtherwise` excepts those three.
- A choke of a voice of an omni layer lifts `sw_down` and `sw_up` switches of
  restricted layers, with the key still down (the exception `Cut` of
  `SwitchesFollowKeys`); a restricted key switch that another channel plays turns
  omni articulations off.
- The count of active notes falls short after All Notes Off.
- The tempo condition of a layer is never updated after load (`Synth.cpp:909`).
- Reset All Controllers lifts the sustain pedal without draining the queue of
  delayed releases, and leaves the wheel condition of a layer as it was.
- Identities queued by a layer survive a reconfiguration of the voices, which
  restarts the generations, and may then name a later note (`Synth.cpp:2518`).
- Sostenuto notes of an omni region are queued without the identity of their
  note (`Layer.cpp:458`); two Note Ons of one pitch before the sostenuto pedal
  share one queue entry.
- Removing a region that fails to load leaves pointers to its layer
  (`Synth.cpp:721`).

*Voices*

- A nested release may reclaim the voice the ring builder keeps as its head: a
  ring then joins voices of two events (`SisterVoiceRing.h:141`, against
  `Voice.h:257`).
- `checkOffGroup` and `checkNotePolyphony` compare a controller's number with
  note numbers (`Voice.cpp:1875`).
- A polyphony of 0 with the `envelope_and_age` stealer looks at the front of an
  empty set (`VoiceStealing.cpp:110`; `Defaults.cpp:46` allows 0).
- A choked note triggers its release region, and its key may do so again; a
  choked voice may be resumed by the pedal (`hint_sustain_cancels_release`).

*Envelopes*

- Delay and hold of a dynamic amplitude envelope start again with every chunk of
  16 frames and, if longer, never end (`ADSREnvelope.cpp:61`, against
  `ADSREnvelope.h:74`).
- A release cancelled before the delay is over leaves the envelope in its
  sustain with a delay nobody counts down (`ADSREnvelope.cpp:214`): the next
  release never takes effect. The run has `CancelInDelay = FALSE`. The proofs met
  the same fault in a dynamic envelope whose delay grows while it waits; hence
  `SteadyDelay`.
- `off` of a voice with a flex envelope only releases it, whatever `off_mode`
  says; a second release that is pending replaces the first.
- Frames skipped for the trigger offset are not taken off a flex envelope's
  release countdown (`FlexEnvelope.cpp:179`).

*Render cycle*

- `endVoice` runs the generators that nobody asked for, in order of
  registration, and does not mark them as ready (`ModMatrix.cpp:372-377`). If one
  of them moves an LFO that nobody asked for either and that comes after it, as
  with `eg01_freq_lfo01` and `lfo01_width` in a mono region, the LFO asks for it
  and it runs again: discarded and generated, a block twice, against
  `ModGenerator.h:72` ("called instead of `generate` in case the output is
  discarded"). `AdvanceOnce` names the case by `AskedLate`; the patch `Unheard`
  of `render_cycle` meets it.
- A message of the host with a delay counts from frame 0 of the next block, or
  counts frames twice if the delay lies beyond the previous block
  (`BeatClock.cpp:172`, against `Synth.h:495-530`). The run has `Ahead = FALSE`.
- A loop with a count that closes on the first frame of a block is counted late
  (`Voice.cpp:1365`).
- A region delayed by two blocks or more skips its first frame; ages are clamped
  with `min` where `max` seems meant (`Voice.cpp:928`).
- The delay of an LFO is not aligned within a block (`LFO.cpp:243-250`, 372).
- `BeatClock::clear` leaves a position the host gave pending.

*Expression*

- Reset All Controllers clears overflow counts of note slots that were not yet
  added to the retired total (`MidiState.cpp:305`).
- RPN 0 received with the profile off rescales no seeds.

## 6. What is not modelled, and the plan

`PROJECT.json` lists every component with its reason, and for a component that is
modelled in part what is missing. Signal processing, file formats, parsing, the
API layer, generated and vendored code stay out: no state of theirs interacts in
a way TLC could show. They make up most of the lines of the repository, which is
why the map covers a small share of it. Within the modelled parts the following
is left, in order of importance:

1. Reload of the sample pool: clear, reset and `setRamLoading` while requests
   wait in the queue (`FilePool.cpp:645`), as a second specification over the
   variables of `FilePool`.
2. Composition: the registry's identities inside `Voices`, `Pedals` and
   `Expression`, as an instance of `NoteRegistry` instead of fresh numbers.
3. LFO delay and fade; timer, velocity and random ranges of `Activation`;
   `trigger=release_key` and the Manager's pedals in `Pedals`; controllers and
   polyphonic pressure in `Expression`.
