# Phosphor emulator: a verification project

Phosphor emulates some ninety arcade boards (Rust). This directory holds TLA+
modules of the parts of it whose correctness is about *order*: threads, the
main loop, queues, recordings, interrupts, clocks, resets. Each module is
translated from the source; `PROJECT.json` maps every definition to its lines.

## 1. Inventory

### Parts, their state and how they meet

| part | source | state | operations |
|---|---|---|---|
| Audio transport | `frontend/src/audio.rs` | ring slots, two wrapping cursors, dropped and starved counters; the callback's fade and start-up state | `push_slice` (emulator thread), `pop_slice` and `callback` (SDL thread), `frame_pace_trim` |
| Frontend loop | `frontend/src/emulator.rs` | loop flags (`hard_reset_requested`, `arm_requested`, `pending_resync`, `needs_resync`), audio and pacing state | one iteration: rebuild, poll, drain, resync, deliver, frame, account, draw; the fade-out on quitting |
| Session commands | `frontend/src/session.rs` | FIFO of commands, `auto_paused` | `submit`, `enable`, `drain`, `note_debug_panel` |
| Debugger execution | `frontend/src/debug_ui.rs` | run mode, watchpoint list with dirty and suspended flags, breakpoints, staged edits | `execute_frame`, panels |
| Input movies | `harness/src/movie.rs`, `frontend/src/movie.rs` | recorder, player cursor, `--record` path | record, finish, encode, decode, validate, bind, deliver |
| Input dispatch | `frontend/src/input.rs` | bindings, latches, pads, captures | `dispatch`, `resync`, captures |
| Input conditioning | `core/src/core/input.rs` | wrapping counter, pending motion, held keys; axis position | `add_delta`, `set_held`, `set_velocity`, `update`, `release_all` |
| Watchpoint store | `core/src/core/watchpoint.rs` | entries with a history each, bounded hit queue | `set_cond`, `clear`, `check`, `take_hit` |
| Hang detector | `core/src/core/debug_hang.rs` | a window of program counters per CPU | `observe`, `reset` |
| Event trace | `core/src/core/debug_trace.rs` | a buffer that overwrites its oldest event, filter, pause | record, filter, pause, clear |
| Clocks | `core/src/core/clock_tree.rs`, `clock.rs` | per domain a ratio to its crystal, a ratio to the stepping domain, a phase | declare, nominate, `advance`, `tick`, retune, reset, save, load |
| Sample buffering | `core/src/audio/mod.rs`, `ring.rs` | a window being averaged and its phase; a growing ring | `tick`, `tick_repeat`, retune; `push`, `pop_front_into` |
| CPU cores | `core/src/cpu/*` | registers, cycle state machines, interrupt flip-flops | one cycle, reset, save |
| Devices | `core/src/device/*` | chip registers, counters and handshakes | register access, tick, trigger, acknowledge |
| Machines | `machines/src/*` | a board's devices, ports, latches, DIP, NVRAM | frame, input, reset, save |
| Buses | `core/src/core/address_space*.rs` | page table, regions and their bytes, a watch flag per page and kind | map, mirror, bank, read, write, poke, watch, save, load |
| Save states | `core/src/core/save_state.rs`, `macros` | chunks, cursors | write, read, skip, check |
| Harness, scripting | `harness`, `frontend/src/headless.rs` | session borrow, ROM resolution | script verbs, headless runs |
| Rendering | `core/src/gfx`, `frontend/src/video.rs` | frame buffers | draw |

The loop is the hub. It owns the machine and calls every other part
synchronously; only the audio callback runs on a thread of its own, and the
ring is all the two threads share. Keys, menu panels and the debugger do not
touch the machine: they *stage* edits or *submit* commands, the drain applies
them at one point of the iteration, and each is checked against the state as
the commands before it left it. Input, in contrast, goes straight from the
poll to the machine, through a tee while a movie is recorded. Below the loop a
machine runs a frame cycle by cycle: the clock tree says which chips are due,
the CPU polls the lines its board computes from the devices, the sound chips
fill resamplers, and these the sample ring the loop drains into the transport.

### What is hard here

* **Two threads, no lock.** Each thread decides from a cursor that may be old;
  the cursors wrap; the release ordering that makes the slots visible never
  shows on the developers' machines when it is missing.
* **One recording, many doors.** A movie replays exactly only if everything
  that changes the machine is in it: dispatch, focus loss, unplugged pads, the
  mouse ungrab, the resync, DIP edits; and only if nothing else happened
  (loads, pokes, ticked frames). The kind of take is derived once per
  iteration but a command in the drain can end the take before the frame.
* **Pause is a product of automata.** Run mode, an automatic pause on opening
  the debugger, steps that re-hold, panels that stage, hotkeys that submit. An
  instruction step ticks until its CPU comes to a boundary, with the rest of the
  frontend waiting, and a CPU held in reset comes to none.
* **Rebuilds.** A hard reset replaces the machine under watchpoints, held keys
  and half a queue of commands.
* **Interrupts by the cycle.** The Z80 opens and closes its mask around EI, a
  prefix, HALT and three responses; the board latches a vector at one poll,
  reads it twelve cycles later and acknowledges by yet another rule.
* **State held twice.** A domain's two ratios, the chip's rate and its domain's,
  the watchpoint list, the machine's copy and the page flags in front of it: a
  save or a clear touches one of them.
* **Saves follow declarations.** What an address space saves is what its board
  declared writable, not what its bus lets the program write.
* **Between frames is not between instructions.** Resets and saves come when the
  queue drains.
* **Files read by another build.** Records name controls by position in the
  file's table; the replaying build has its own table.
* Bounded rings and queues, counters that wrap or divide, state loads that fail
  half way.

`PROJECT.json` lists each hazard at its line with the properties that guard it.

### What makes each part correct

* Transport: first in, first out, no unread slot overwritten, losses counted,
  stereo alignment kept, fades without a jump *(proved)*; the callback never
  waits *(checked)*.
* Movies: a finished recording decodes, also where it stopped inside a frame; its
  replay gives each frame what it got, once, on the same controls, in any other
  order of the table; nothing stays undelivered *(proved)*.
* Loop: a recording is exactly what the machine received; a replay receives
  the movie only; takes run without watchpoints; watchpoints survive takes and
  rebuilds; held inputs agree with the devices; automatic pauses undo only
  themselves *(proved)*; steps end and commands are not stranded, but for an
  instruction step whose CPU comes to no boundary *(checked)*.
* Watchpoints fire on their own condition, and lost hits are counted where they
  are missing; hangs are reported, and only hangs *(proved)*.
* Memory: no access to a watched address misses the page filter; a load that is
  accepted brings back every window and every byte the program can write; no page
  ever leads past the end of its region *(proved, the second for boards that declare
  what they write, the third for configurations that agree on their regions)*.
* Clocks: no firing gained or lost, every rate exact through retunes, saves and
  loads, the chip in step with its domain *(proved)*.
* Trackballs: the game follows the ball and no motion is lost *(proved)*.
* CTC: no counter decremented past zero, exact division *(proved)*.
* Z80 and MCR board: one NMI for an edge, masks restored, handlers not nested, no
  vector of a channel that did not ask *(proved)*; a halted CPU woken *(checked)*.
* Resampler and sample ring: a batch equals its ticks, outputs counted exactly,
  a queue that loses its oldest *(proved)*.

## 2. Modules

| module | models | notes |
|---|---|---|
| `AudioFifo` | the promise: an atomic bounded queue that drops newest and counts | abstract specification |
| `SpscRing` | `SpscRing::push_slice` / `pop_slice`, one step per shared access | refines `AudioFifo` (`FifoSpec`) |
| `AudioPlayback` | the callback's fades and start-up, the shutdown | sample by sample |
| `InputMovie` | recorder, `finish`, `validate`, binding, `take_frame` | operators |
| `MovieRoundTrip` | record on one build, replay on another | over `InputMovie` |
| `SessionCommands` | command set, `movie_mode`, `enable` | operators |
| `FrontendLoop` | an iteration of the loop with everything above in it | over `InputMovie` and `SessionCommands` |
| `Watchpoints` | a `WatchpointSet` under a machine's accesses and a debugger | |
| `HangDetector` | the detector for one CPU | |
| `AddressSpace` | a board's memory map under its program, a debugger and save states | |
| `ClockTree` | the tree, the Gottlieb board's speech clock and chip, a save | |
| `RelativeCounter` | a trackball axis and the game that samples it | |
| `Z80Interrupts` | the interrupt side of the Z80, a cycle at a time | operators |
| `Z80Lines` | a Z80 whose NMI and IRQ lines change at any cycle | over `Z80Interrupts` |
| `Z80Ctc` | the counter/timer chip | operators |
| `CtcChannel` | one channel under anything board and program do | over `Z80Ctc` |
| `McrBoard` | CPU, CTC, beam, vector latch and acknowledge of the MCR boards | over `Z80Interrupts` and `Z80Ctc` |
| `SampleQueue`, `SampleRing` | a queue that drops its oldest; the buffer that grows | the ring refines the queue (`ImplementsQueue`) |
| `Resampler` | windows, phase, retune, batch | |
| `ArithmeticLemmas` | facts about `%`, and induction and recursion over the naturals | lemmas only |
| `SpscRingProofs`, `FrontendLoopProofs` | theorems of the module named first | TLAPS |
| `MovieProofs` | theorems of `MovieRoundTrip` | TLAPS |
| `CountingProofs` | theorems of `ClockTree`, `RelativeCounter` | TLAPS |
| `Z80Proofs` | theorems of `CtcChannel`, `Z80Lines`, `McrBoard` | TLAPS |
| `DebuggerProofs` | theorems of `AddressSpace`, `Watchpoints`, `HangDetector` | TLAPS |
| `SoundProofs` | theorems of `AudioPlayback`, `SampleRing`, `Resampler` | TLAPS |
| `MCSpscRing`, `MCFrontendLoop`, `MCAddressSpace`, `MCFrontend`, `MCMcrBoard`, `MCComponents` | small instances | for TLC |

A definition named for a defect (`FreeOffByOne`, `ReceiveUnteed`,
`LatchedAfterAck`...) is a faulty variant of the operator that follows it. No
specification uses it; it exists so that each property can be shown to fail
when the code is wrong in that way.

### SpscRing and AudioPlayback

`PushBegin` loads the cursors and computes `n`; `StoreSlot` is one relaxed slot
store; `PublishWrite` the release store; `CountDropped` the accounting and the
return. The pop mirrors it. The memory model is Rust's as far as the ring can
tell: a thread may see any value of the other's cursor since the last it saw
(`readVisible`, `writeVisible`), and a slot is certain only if its store was
released by the cursor value that was acquired (`acquired`); otherwise the load
may return `Unsynced`. Cursors are totals, wrapped modulo `Wraps * Capacity`
wherever the code computes with them, so a four-slot ring with `Wraps = 2` wraps
its index type within a run, as `usize` would after 2^64 samples.

`AudioPlayback` takes the ring for a level and follows the gain: playback starts
at half full, fades in, holds the last sample on starvation, and fades out when
the emulator thread sets the flag, between any two samples of a buffer.

### MovieRoundTrip and FrontendLoop

`MovieRoundTrip` is the two ends of a file. `InputCall` is the tee of a session
that records, `RunRecordedFrame` its `advance_frame`, `StopRecorder` its stop, at any
moment. The file is bound on a build with a table of its own (`BindFile`) and handed
out by `DeliverFrame`, whose iteration of the loop runs its frame or, paused, does not
and delivers the same frame again. `heard` and `replayed` are history: what each
machine was told, call by call, with the frame and the control's *name*, since ids
are each machine's own. `Tee` drops a relative motion of zero, as the recorder does.

In `FrontendLoop` an input call is `[op, id, value]`; a machine is what it believes held, its DIP
byte, its watchpoints and its queued hits. `phase` names the place in the
iteration, so that only the poll and the drawing are open to the user and
everything else follows in the source's order:

    rebuild -> poll -> drain -> resync -> deliver -> frame -> after -> finish -> draw

`log` and `ran` are history: what reached the machine during a take and the
frames it ran since. A change from outside (load, poke, soft reset, a ticked
part of a frame) enters the log as a call no recorder can hold, which is how
`TakeFaithful` and `ReplayIsolated` notice it.

An instruction step is the one loop inside a frame: `TickShortOfBoundary` is a tick
after which it goes on, `TickToBoundary` the last, and nothing else happens between.
Which tick is the last is for the machine (`at_instruction_boundary` of the selected
CPU), so the model leaves it open and does not promise that there is one.

The panels are the edits they stage; a breakpoint is the freedom of a running
frame to stop; how a machine's reset treats its port bits is left open, as
boards differ. The console is closed and no text field has the keyboard.

### Z80, CTC and the MCR board

`execute_cycle(cpu, lines, opcodes)` is the set of CPUs one clock cycle later:
`Fetch` samples the NMI edge and polls, `FetchRead` reads an opcode, `Execute`
and `Respond` count the cycles of an instruction or a response. Instructions are
kinds; the ones that matter (EI, DI, HALT, a prefix, RETN and RETI, IM 2, an OUT)
are apart, and `plain` stands for the rest. `Z80Lines` lets the two lines change
between any two cycles. `McrBoard` computes them from the CTC as
`check_interrupts` does, at the place `begin_cycle_inner` has in the cycle, with
the beam's triggers of channels 2 and 3 and the cascade of channel 0 into 1, the
latch, the acknowledge of `end_cycle`, a reset and a save between two frames. A
`torn` machine, reset or loaded inside an instruction, is not followed further.
The program in the ROM is external; it keeps the shape of an interrupt handler.

### AddressSpace

`Built` folds a board's declarations into a map, in the order its `build_map` makes
them, as `region`, `backing_region`, `mirror` and `remap_pages` do: pages, region
descriptors and bytes. A page holds one byte and an offset counts pages; the code
keeps 256 bytes each, which no operation tells apart. From then on the program
writes (`write_backing`, to the regions its `Bus::write` stores to: `CpuWrites`) and
switches banks, a debugger pokes and sets or clears watchpoints, and saves are
taken and loaded. A load goes entry by entry: it skips regions this map lacks,
stops at the first whose length differs (`Misfits`), then at the first page of a
region it lacks (`Strangers`), and what was read before stays. `RebuildSpace` is
another start of the machine, in any of its configurations, with the save on disk.
`atSave` is history: the mapping and all the program could write when it was saved.
The values of a watchpoint and its hits are in `Watchpoints`.

### ClockTree

`add_domain` and `set_step_domain` in any order; `recompute_step_ratios`
composes the ratios; `Cycle` is one cycle of the board's loop, with `tick` for
the domains polled in it and `advance` for the others; `set_domain_hz` retunes
the speech clock with the chip behind it; `Save` and `Load` hold the fields that
are not `save_skip`, and a load ends with `reapply_speech_clock`. `Rebuild` is
the frontend's: the save outlives the machine. `counted` and `target` are
history: firings since the phase was last set, and the rate last given.

## 3. Runs

| run | question | instance |
|---|---|---|
| `ring` | safety, stereo and refinement of the ring; does a callback finish on its own? | 4 slots, indices wrap at 8, slices of 2 and 4, up to 12 samples offered |
| `loop_take` | is a recording everything and only what happened? are takes free of watchpoints, and do these come back? does an automatic pause hold? | a control, a watchpoint, every command that would interfere with a recording and some that would not, focus, unplugged pads, ungrab, panel, loads that fail; two commands |
| `frontend` | does anything but the movie reach a replay? are held inputs right after everything that strands them? do steps and commands end? and is each part the loop calls right on its own? | seven parts, below |
| `components` | is each part of a machine right on its own? | seven parts, below |
| `loop_arm_input`, `loop_partial_load`, `loop_output`, `loop_stale_hits`, `mcr_lost_interrupt`, `mcr_reset`, `mcr_save`, `irobot_save` | statements of the sources the code does not keep | expected violations |

**Runs of several parts.** What does not interact needs no product of its states:
in `MCFrontend` and `MCComponents` the initial state picks one `part`, that part
moves by the `Next` of its own module, and the others stay as they begin. Such a
run is the union of small ones, and each property is decided by the behaviours of
its own part. `frontend` has the loop twice, with the constants of two kinds of user,
and the parts that loop and debugger call on; `components` has the parts of a machine.
Modules whose theorems have their run here are extended where their names allow it.

| run | part | instance |
|---|---|---|
| `frontend` | plays | the loop with two controls, three movies or none, resets, loads, frame advance, focus, pads; two commands |
| `frontend` | steps | the loop with a control, every size of step, pause, hard reset, panel; three commands |
| `frontend` | watch | reads and writes of an address, three conditions, two watchpoints at once, a queue of two, gap counter that saturates at 2 |
| `frontend` | memory | four pages, three configurations, three addresses to watch, up to two watches |
| `frontend` | hang | five addresses, window 2, threshold 3 |
| `frontend` | player | fades of 3 samples, buffers of 4, frames of 0, 3 or 5 samples |
| `frontend` | movie | three calls of seven kinds over two frames, stopped anywhere; the replaying build has the controls in another order, under other ids and behind a new one; paused iterations |
| `components` | clock | two crystals of 4 and 5 Hz, two domains declared in either order, either stepping, rates 1 and 3, five cycles between two settings |
| `components` | ctc | divisors 2 and 3, time constants to 3 (zero stands for the whole range), control words with every choice of reset, load, start and mode |
| `components` | board | frames of 8 cycles, beam channels made to interrupt and silenced by the program, resets and reloads |
| `components` | lines | all instruction kinds but IM 2, handlers nested three deep |
| `components` | chip | input rates below and above the intermediate rate, runs of up to 4 |
| `components` | samples | capacities 1 to 4, three overruns |
| `components` | ball | a counter of 3 bits, steps of 1 and 2, every policy and wiring, motion of up to 5 units |

**Bounds.** Every bound is a named constant. `MaxOffered` and `MaxStarved` (the
ring) are enough to fill it, to be refused and to wrap both slots and index;
`MaxCalls` and `MaxFrames` put a record before, between and after frame ends;
`MaxPolled` (two events in one poll) gives both orders; `MaxSubmits` (two or
three commands in one batch or spread out) stop and re-arm, or a rebuild with a
command behind it; `MaxTakeFrames` and `MaxTakeCalls` are the length of a take.
`MaxPolled` restarts with each poll, so iterations themselves are unbounded.
`MaxWatches` (two) is what it takes to share a page's flag; the three configurations
of the memory part differ in the length of a region and in having one. The components'
bounds each exceed the limit they are about by one or more: a queue of two and six
hits, a threshold of three and seven frames, a ring of four and three overruns,
periods of at most six clocks and a window per run. The divisors of the CTC, the
widths and the capacities of the code are parameters; where it matters most the
proofs below hold for every value of them. `MaxU32` bounds the ratios of the clock
tree as `u32` does; past it the code panics, and no step is taken.

**Deadlock.** Only `irobot_save` checks it. The others say `CHECK_DEADLOCK FALSE`:
quitting ends the loop, and the other parts stop when their bounds are used up, or
at a torn machine.

**Fairness.** `CallbackSpec` asks only that a callback the driver has begun keeps
running; nothing is asked of the emulator thread, which is the claim. `FairSpec`
asks that the loop, a thread that waits for nobody's lock or message, goes on: an
event poll ends because the queue of the window system is finite, so `EndPoll` and
what follows are eventually taken. It asks nothing of one step: the tick that ends an
instruction step (`TickToBoundary`) is the machine's to make, and the code does not
bound the ticks before it (`debug_ui.rs:647`). A CPU held in reset reports no boundary
(`atari_system1_sound.rs:484`, and the sub CPUs of `namco_galaga.rs:452`), nor does
a 6809 in CWAI or SYNC. So `ArmedStepsResolve` and `CommandsDrain` say two things
each: under `FairSpec` every armed step is consumed, and every command leaves the
queue, unless the loop stands in an instruction step; and without exception on the
behaviours in which a CPU that goes on being ticked does come to its boundary, the
`WF_vars(TickToBoundary)` of their second parts. Users owe nothing. In
`frontend` it is asked of the steps alone: in the plays the bound on the calls of a
movie may stop a loop that in the code goes on.
`Z80Lines` asks that the CPU is clocked, which the machine does every cycle of
every frame; `InterruptsWakeHalt` asks nothing of the lines but that they stay up.

## 4. Proofs

Eight modules, 49 theorems listed in `PROJECT.json`; the rest are lemmas. Every
theorem is for all values of the constants under the named assumptions of its
module, which the runs evaluate. Of the properties the passing runs check, all but
the six at the end of this section are theorems.

**Assumptions.** Each says what the code makes so:

* `CapacityAssumption` (`SpscRing`), `RingAssumption` (`SampleRing`): capacities as
  `SpscRing::new` and the ring's `next_power_of_two` make them; `PowersOfTwo` is
  the set of numbers whose divisors above one are all even.
* `LoopAssumption`: a control table of names and ids, and movies that are
  `PlayableMovie`s, which `--movie` refuses others for (`validate`, `bind`).
* `CpuAssumption`: an instruction takes at most 17 cycles behind its two of fetch,
  which the longest, 23 cycles with a prefix of 4, just does.
* `LinesAssumption`: the program of a line-wired board stays out of mode 2.
  `BoardAssumption`: port writes are bytes to one of four channels.
* `HangAssumption`: a threshold of two or more (the defaults are 8 and 120).
* `WatchAssumption`: a bounded queue of at least one hit (`MAX_PENDING_HITS`).
* `SamplingAssumption`: `2 * UpdatesPerRead * Reach < Width`, true of the games.
* `MovieAssumption`: the recording machine's calls are on its own controls, the
  replaying build kept each of them by name, and an id belongs to one control
  (`InputControl`). Tables of other builds that lack a control are refused by `bind`.
* `BoardsAssumption`: every configuration's new map has the regions it maps, numbered
  from one, no window longer than its region, and memory cleared to a byte. It is
  about the fold `Built`, so TLC evaluates it for the boards of the runs.
  `BanksAssumption`: banks start at natural numbers.
* The others (`PlayerAssumption`, `StageAssumption`, `CtcAssumption`, the clock
  tree's, the address space's) say that rates, divisors and addresses are positive
  or natural numbers.

Four theorems have a hypothesis beside these, because without it the code does not
keep the property: `FramesOnly(c)` (a capacity, slices and buffers counted in whole
frames, as `audio::init` and the machines' drains count them), `DeclaresItsWrites`
(I, Robot does not: `irobot_save`), `ConfigurationsAgree` (a region two configurations
share has bytes in both or in neither, and as many unless both save it: `load_pages`
compares a page's region by id alone) and `DevicesTracked` (no mouse ungrab, no
recording armed by hand, no load that fails half way: `loop_arm_input`,
`loop_partial_load` and the hazard of the ungrab). The instances on which
passing runs check these properties satisfy them.

**The ring** (`SpscRingProofs`). `NothingOverrun` (`UnreadIntact` and
`LenWithinCapacity`), `PlayedInOrder` and `DropsAccounted` are not inductive alone. `IInv` adds

* `CursorInv`: under *every* value of `read` the producer could still be seeing,
  the room it has claimed is room, and under every value of `write` the consumer
  could still be seeing, what it claimed was released;
* `HistoryInv`: where in `sent` and `played` each thread is.

From `CursorInv` the live slots are distinct: `write + pn - read <= Capacity`, and
two totals less than a capacity apart have different slots (`ModDistinct`), also
after the index type has wrapped, because the capacity divides the modulus
(`ModMod`). One lemma per action shows that it keeps `IInv`.

`ImplementsFifo` is the refinement `Spec => FifoSpec`: the store of `write` is the
abstract push, the store of `read` the abstract pop, every other step a stutter. A
push is the abstract one only if the slots behind the cursor it stores hold the
batch in order, which `BatchInv` adds. `ChannelsStayAligned` is about any number of
channels: cursors, and all values of them a thread may still see, are whole frames,
so whatever a full ring cuts off is too (`AlignInv`). `StereoStaysAligned`, the
property of the run, is the case of two.

**The loop** (`FrontendLoopProofs`). Five invariants, each on top of those before.

1. `SuspensionInv`: the sync of watchpoints is suspended exactly while `take` is not
   `Live`, and a suspended sync leaves the machine bare. Ending a take marks the
   list dirty in the step that lifts the suspension, and a rebuild in the step that
   loses the machine's copy. From it `WatchpointsInSync`,
   `WatchpointsClearDuringTake` and `AutoPauseHeld`.
2. `TypeInv`: what `TypeOK` checks and what it takes for granted: that the commands
   still staged and queued fit their bound together, that a player stands inside its
   movie, that its frame passes the last only between `finish` and the stop.
3. `TakeKind`, for `TakeFaithful`: the kind of take is derived at the top of an
   iteration and used below the drain, which can end the take. So a recording goes
   on only under `take = "Recording"`, no take is armed while a replay goes on, and
   input is bound to a movie exactly while one replays. Calls the recorder cannot
   hold (pokes, loads) are then refused, and every other path is teed
   (`FaithfulUser`, `FaithfulLoop`; `Taped` over a list of calls is `Tee` each).
4. `ReplayInv`, for `ReplayIsolated`: the cursor has passed exactly the records due
   (`CursorOrder`, an ordering that follows from `validate`), and `log` is the
   records before it (`HandedOut`). Delivering takes the longest run that is due,
   and binding by name finds an id for each record.
5. `ResyncAsked` and `HeldInv`, for `HeldMatchesDevices`: with no resync pending, what
   the machine believes held is what is pressed; whatever parts the two asks for a
   resync in the same step, and no frame is reached before it is made.

**Movies** (`MovieProofs`). `MovieInv` has three parts, one for each end of the file
and one for the file.

* `TapeInv`: the tape *means* what the machine was told. `Means` gives a record the
  control its position names in the file's table, and `heard` is the meaning of the
  records, in order. Frames do not decrease along the tape and none is past the frame
  in progress.
* `FileInv`: what `finish` writes is the tape under a span that covers a record of the
  frame in progress (`SpanOf`, `FinishedMovie`), so that `validate` accepts it however
  the recording stopped, and each name of its table is found in the other build's.
* `PlayInv`: the cursor has passed every record of an earlier frame and none of a later
  one (`CursorAt`), and what was told is the meaning of the records before it.

A delivery then takes exactly the run of records of its frame (`TakesTheFrame`,
`FirstOutside`); translated to the other build's ids they tell the same
(`ToldAgain`), because an id there is one control's alone; and delivering a frame
twice delivers nothing the second time. The span ends the playback only when no record
is left, which is `NothingUndelivered`.

**The Z80 and the MCR board** (`Z80Proofs`). `LinesInv` for `OneNmiPerEdge` and
`NmiRestoresMask`: `Calm` ties the flip-flops to the place in an instruction (an EI
not yet in force, a RETN past its restore), `Nested` the stack of handlers to the
place in the program, and `Masked` says where the mask to restore is: in IFF2 when
all handlers are NMIs, and set when an NMI came first and an IRQ on top of it, since
the IRQ shows that the mask was open. `BoardInv` for `NoPhantomService` and
`HandlersDoNotNest`: while a response in mode 2 still has to read its vector, the
latch is that of a channel which asked (`LatchPart`: the latch changes only at a
poll, and no poll comes between); inside a handler interrupts are masked but where
`Leaving` it. Both are of machines not torn by a reset or a load.

The CTC's `CountersLoaded` and `DividesExactly` hold for every pair of divisors,
range and time constant. The pulse at the end of a period follows only from where in
the period the two counters are: `elapsed + prescaler + (down - 1) * P =
timeConstant * P` while a timer runs, and the same without a prescaler in counter
mode (`Divides`).

**The debugger's parts** (`DebuggerProofs`). `FilterExact` is inductive with the types
of the flags: the count changes by at most the one page touched. `LoadRestores`, of
every board that keeps `DeclaresItsWrites`: no region the program writes is missing
from what a load demands (`Covered`), and what a save holds of them is right
(`SaveHolds`). `PagesInRange` needs to say of the table of a *save* what it says of the
map's: it leads into the regions of the configuration that made it, which hold as many
bytes there as in the save (`SavedInv`). A load of it is safe here because the table is
read only when no region misfits, and by then a region of both is as long in both
(`SameLength`): compared when both save it, agreed on otherwise. `SpaceTyped` rests on
the same care with a load that fails: a region too long for its buffer is copied before
the refusal, one too short is not (`LoadedBytes`). `WatchInv` for `FiresOnItsCondition` and `LossesAccounted`: a
`changed` watchpoint's last value is that of the last access since it was set
(`Tracking`, which needs that no two watchpoints are the same, or clearing one would
leave the other's), and each queued hit tells the gap behind it (`GapsTold`), also
the newest, whose gap is still growing. `HangInv` for `ReportsAreHangs`:
`WindowInv` ties the bounds of the window to the samples that set them, and
`DelayInv` is the argument that a loop is found in time: samples of one loop that are
older than the window can only be those the window refused before it moved, at most
`Threshold - 2` of them, since one more would have been reported.

**Sound** (`SoundProofs`). `GainFollows` for `NoPop`: which ramp the gain belongs to,
at most a step from it. `RingIsAQueue`, the refinement of `SampleQueue`: the index
wraps with a mask because every size divides the largest (`Fits`), and growing
copies the samples in order to the front (`StartsWith`, `Twice`). `StageInv` for
`OutputCountExact`; `BatchEqualsTicks` then compares a batch with its ticks: a window
that stays open adds up, one that closes leaves the phase each tick would, and a
batch is cut into windows, each shorter than what is left.

**Clocks and trackballs** (`CountingProofs`). `ClockInv`: a step ratio is exact against the
*declared* rate of the stepping domain (`ExactOf`, `Base`), not against its ratio to
the crystal, because a load brings back the first and not the second; only until a
load may the step ratios be computed anew (`RatesOf`). Equal rates round to the same
whole Hz, which is what the chip is given (`RoundedSame`); a retune folds the phase
into the new period, which keeps the phase below it. `BallInv`: the
counter is `turned % Width`, and `turned` is within the updates since the last sample
of `seen` (`Ahead`), half a width at most, so the signed difference is the motion.

**Recursion.** The library's induction theorems take operators, which the provers
cannot instantiate. `ArithmeticLemmas` states induction with the *set* of numbers that
have the property (`Induction`), from the least element of a set (`LeastNatural`,
by `WellFoundedInduction`), and recursion with functions for operators
(`BoundedRecursion`). So what the model computes over sequences is written as
recursive functions in LET (`Ports`, `Taped`, `Without`, `tick_repeat`), and each has
a lemma that gives its steps; the proofs then count along the steps.

**Only model-checked.**

* Liveness: `CallbackNeverBlocks`, `ArmedStepsResolve`, `CommandsDrain`,
  `InterruptsWakeHalt`. Out of the prover's reach.
* `PartsTypeOK` and `ComponentsTypeOK`, which hold together the types of the parts for
  the instances of a run. The type invariant of each part is a theorem of its module
  (`LoopStateTyped`, `WatchTyped`, `HangTyped`, `PlayerTyped`, `MovieTyped`,
  `SpaceTyped`; `BoardTyped`, `LinesTyped`, `ClockTyped`, `ChannelTyped`, `StageTyped`,
  `RingTyped`, `BallTyped`).
* That `Built`, a fold over a board's declarations, keeps `BoardsAssumption`: induction
  over data, which TLC does for the boards of the runs.
* The expected violations.

## 5. Where the code and its own statements differ

1. *Arming drops held inputs* (`loop_arm_input`). A hard reset sets
   `pending_resync` because "a key held across the rebuild raises no fresh
   KeyDown" (`emulator.rs:593`); arming a recording rebuilds too and does not.
2. *A load that fails half way* (`loop_partial_load`). Components are restored in
   order and the first refusal returns; the error arm asks for no resync.
3. *The `--record` path outlives its take* (`loop_output`). It is said to be `None`
   for a take armed by hotkey and to name the *next* recording (`movie.rs:80,98`);
   `stop` clones it and a second take overwrites the first.
4. *Hits queued behind a closed panel* (`loop_stale_hits`). "The machine's queue is
   drained every frame/step" (`debug_ui.rs:1360`) holds only with the panel open.
5. *A poll is taken for an acknowledge* (`mcr_lost_interrupt`). The CTC is
   acknowledged after each poll that showed a request, also one the CPU masks;
   the comment says "after CPU has read the vector" (`mcr2.rs:566`).
6. *A reset is not a power-on* (`mcr_reset`). `Cpu::reset` leaves the instruction
   under way, HALT and the flip-flops; `machine.rs:799` says "Reset the machine to
   its initial power-on state".
7. *Saves are not at instruction boundaries* (`mcr_save`), as `i8035/mod.rs:87`
   says they are "as on the other CPUs".
8. *I, Robot's banked RAM is not saved* (`irobot_save`). Declared with
   `backing_region` (`irobot.rs:826`) it is `ReadOnly` by declaration, so it is left
   out of a save, although `Bus::write` stores to it: "An address space saves the
   bytes the CPU can change" (`address_space16.rs:1085`).

`HeldMatchesDevices` is checked without the mouse ungrab, which releases everything
by design, and without cases 1 and 2. `NoPhantomService` and `HandlersDoNotNest`
are about machines that are not torn by cases 6 and 7.

Met on the way, with no run that rests on them:

* Quitting sleeps for the length of a fade (10 ms), less than the period of the
  callback (about 23 ms), so the ramp may not be heard: `RampCompleted` of
  `AudioPlayback` does not hold for those numbers. The comment at
  `emulator.rs:1797` speaks of real time, which the model's steps only order.
* *An instruction step that does not return.* The next `execute_frame` is said to run
  "to the selected CPU's next instruction boundary" and to re-hold (`session.rs:544`).
  Its loop has no other end and polls nothing: with a CPU held in reset, or one that
  waits for a masked interrupt, the frontend hangs, the quit key with it. This is the
  exception in `ArmedStepsResolve`, which without it TLC refutes.
* *Boundaries counted, not listed.* `debug_tick` "Returns bitmask of CPUs at
  instruction boundaries" (`machine.rs:501`); `docastle.rs:1490` returns how many there
  are. On Mr. Do's Castle a step of the main CPU ends when exactly one of the two is
  at a boundary, whichever it is, and one of the sub CPU when both are. The model,
  which leaves the last tick open, allows this and does not judge it.
* Steps drained in one batch overwrite each other's run mode: two accepted frame
  advances run one frame. The interleaving is in `frontend`; no line says what two
  are to do.
* `clock_tree.rs` calls a domain's declared ratio unaffected by a retune, while
  `set_domain_hz` overwrites it. No board nominates a retuned domain as its
  stepping domain, where it would matter; `set_step_domain` is guarded so.
* `add_delta` truncates: a motion scaled below one unit is lost, although "motion
  is never lost, only rate-limited" (`input.rs:28`). The model's deltas are whole.

## 6. Not modelled

The repository is a quarter of a million lines, most of them data for one machine
each: memory maps, ROM tables, instruction tables, palettes, sprite layouts and
sound synthesis. They are pure functions of their inputs with golden tests and
single-step vectors of their own, and a model of them would be a second copy. What
is modelled is the control that all machines share and one board's wiring.

* *Event trace*: a buffer with a filter, written by one thread and read by the panel
  in the same one; none of its hazards is beyond a unit test.
* *`AnalogAxis`*: each call assigns and clamps the position.
* *Input dispatch* of several bindings per control, axis latches and captures.
* *Other CPUs* and *other devices* (6820, 6522, 6532, i8257, Namco): see the plan.
* *The 32-bit address space*, which has no pages and no banks; the write trace; the
  decode in each board's `Bus`, of which `CpuWrites` is all the model keeps.
* *Save-state framing*: bytes, versions and the derive of TLV fields. The chunk of an
  address space is in `AddressSpace`, entry by entry; other loads that fail are an
  outcome in the loop's model.
* *Graphics, harness, scripting, validation tools*: pixels, files and process
  plumbing. SDL and egui are external: their effect is the events and edits the
  loop may receive.

## 7. Plan

What is left, by what matters most to a user of the emulator.

1. Input dispatch with several bindings, latches, deadzones and captures, under
   the loop's resync.
2. Save states: writer against bounded reader, unknown and short chunks.
3. Interrupt entry of the 6809 (SYNC, CWAI) and 68000; sound latches between two
   CPUs under a machine's scheduler; PIA, VIA, RIOT and DMA handshakes.
4. Proofs: that a step of the sound chain loses no weight of a window; the Z80's
   masks for an interrupt in mode 2.
