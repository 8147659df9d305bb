---------------------------- MODULE FrontendLoop ----------------------------
(* The frontend's main loop (frontend/src/emulator.rs): one thread that, on  *)
(* every iteration, services a requested rebuild of the machine, polls the   *)
(* window's events, drains the session command queue (session.rs), re-reads  *)
(* the input devices, delivers a replayed movie's input (movie.rs), runs a   *)
(* frame or part of one under the debugger (debug_ui.rs), and draws.  Users  *)
(* press and release keys, lose and regain focus, open and close the         *)
(* debugger, and submit commands at any point of the poll.                   *)
(*                                                                           *)
(* Kept of the machine: the controls it believes held, its DIP byte, the     *)
(* watchpoints set in it and the hits it has queued.  The audio device,      *)
(* drawing, throttling, the profiler, the settings panel's captures and the  *)
(* script console are not modelled; the console is taken to be closed and no *)
(* text field to have the keyboard.                                          *)
EXTENDS SessionCommands, InputMovie

CONSTANTS ControlTable,   \* the machine's controls, [name, id] each
          Watchpoints,    \* watchpoints the user may set
          UserCommands,   \* commands the user submits in this instance
          Movies,         \* movies --movie may name; {} for none
          StartRecording, \* the values of --record: a set of booleans
          StartPaused,    \* the values of --debug: a set of booleans
          WindowEvents,   \* subset of {"focus", "ungrab", "pad", "panel"}
          PartialLoads,   \* whether a load may fail with the machine half replaced
          MaxPolled,      \* bound: events of one poll
          MaxSubmits,     \* bound: commands submitted in all
          MaxTakeFrames,  \* bound: frames of a recording
          MaxTakeCalls    \* bound: input calls made during a take

(* The controls are buttons, so what a movie holds are presses and releases  *)
(* of them, releases of everything and bytes of the one DIP bank; --movie    *)
(* refuses a file that does not pass its checks or bind on this machine.     *)
PlayableMovie(movie) ==
  /\ movie \in [controls : Seq(STRING), dip : Seq({0, 1}), frames : Nat,
                records : Seq([frame : Nat, op : {"button", "releaseAll", "dip"},
                               ctl : Nat, value : {0, 1}])]
  /\ movie.dip # <<>>
  /\ Valid(movie) /\ Binds(movie, ControlTable)

ASSUME LoopAssumption ==
  /\ ControlTable \in Seq([name : STRING, id : Nat])
  /\ \A movie \in Movies : PlayableMovie(movie)
  /\ UserCommands \subseteq Commands
  /\ StartRecording \subseteq BOOLEAN /\ StartPaused \subseteq BOOLEAN
  /\ PartialLoads \in BOOLEAN
  /\ MaxSubmits \in Nat

Keys == {ControlTable[i].id : i \in DOMAIN ControlTable}
NoMovie == [controls |-> <<>>, dip |-> <<0>>, frames |-> 0, records |-> <<>>]

VARIABLES
  phase,       \* where the loop is: "rebuild", "poll", "drain", "resync",
               \* "deliver", "frame", "after", "finish", "draw", "exit"
  machine,     \* [held, dip, watch, hits]
  debug,       \* DebugState: [active, mode, watch, dirty, suspended]
  autoPaused,  \* SessionState::auto_paused
  queue,       \* SessionState::queue: commands [name, arg]
  staged,      \* edits the panels staged while drawing, one vector per kind
  recording, recorder,   \* MovieCapture::recorder
  replaying, playback,   \* movie_playback: [player, frame, total]
  request,     \* loop flags: [hardReset, arm, pendingResync, needsResync]
  take,        \* take_mode, derived at the top of the iteration
  bound,       \* `replaying`, read before the poll
  executed,    \* frame_executed
  devices,     \* [pressed, focused]: what SDL reports of the devices
  disk,        \* [output, saveFile, armedBy, writtenBy]: whether --record gave
               \* a path, whether a save state exists; history: who armed the
               \* recording, and who armed the take now at that path
  polled, submits,   \* counters of the bounds
  log, ran     \* history: what reached the machine, frames it ran, in a take

debugger == <<debug, autoPaused>>
commands == <<queue, staged>>
movies == <<recording, recorder, replaying, playback>>
iteration == <<request, take, bound, executed>>
outside == <<devices, disk>>
bounds == <<polled, submits>>
history == <<log, ran>>
vars == <<phase, machine, debugger, commands, movies, iteration, outside, bounds, history>>

NoStaged == [commands |-> <<>>, memory |-> <<>>, dip |-> <<>>]
FreshMachine(dip) == [held |-> {}, dip |-> dip, watch |-> {}, hits |-> {}]
Finished == playback.frame >= playback.total
Taking == recording \/ (replaying /\ ~ Finished)

Init ==
  /\ phase = "rebuild"
  /\ \E paused \in StartPaused :
       debug = [active |-> paused, mode |-> IF paused THEN "Paused" ELSE "Running",
                watch |-> {}, dirty |-> FALSE, suspended |-> FALSE]
  /\ autoPaused = FALSE
  /\ queue = <<>> /\ staged = NoStaged
  /\ recording = FALSE /\ recorder = NewRecorder(ControlTable, <<0>>)
  /\ \E movie \in Movies \cup {NoMovie}, record \in StartRecording :
       /\ ~ (record /\ movie # NoMovie)
       /\ replaying = (movie # NoMovie)
       /\ playback = [player |-> BindPlayer(movie, ControlTable),
                      frame |-> 0, total |-> movie.frames]
       /\ machine = FreshMachine(movie.dip[1])
       /\ request = [hardReset |-> FALSE, arm |-> IF record THEN "cli" ELSE "none",
                     pendingResync |-> FALSE, needsResync |-> FALSE]
       /\ disk \in [output : {record}, saveFile : BOOLEAN, armedBy : {"none"},
                    writtenBy : {"none"}]
  /\ take = "Live" /\ bound = FALSE /\ executed = FALSE
  /\ devices = [pressed |-> {}, focused |-> TRUE]
  /\ polled = 0 /\ submits = 0
  /\ log = <<>> /\ ran = 0

-----------------------------------------------------------------------------
(* Input reaching the machine.                                               *)

Handle(ports, call) ==
  CASE call.op = "button" /\ call.value = 1 -> [ports EXCEPT !.held = @ \cup {call.id}]
    [] call.op = "button" /\ call.value = 0 -> [ports EXCEPT !.held = @ \ {call.id}]
    [] call.op = "releaseAll" -> [ports EXCEPT !.held = {}]
    [] call.op = "dip" -> [ports EXCEPT !.dip = call.value]
Ports(m, calls) ==
  LET ports[i \in 0..Len(calls)] ==
        IF i = 0 THEN [held |-> m.held, dip |-> m.dip] ELSE Handle(ports[i - 1], calls[i])
  IN  ports[Len(calls)]
HandleAll(m, calls) ==
  [m EXCEPT !.held = Ports(m, calls).held, !.dip = Ports(m, calls).dip]

Taped(rec, calls) ==
  LET taped[i \in 0..Len(calls)] == IF i = 0 THEN rec ELSE Tee(taped[i - 1], calls[i])
  IN  taped[Len(calls)]

Log(calls) ==
  log' = IF Taking
         THEN log \o [i \in DOMAIN calls |-> [frame |-> ran, call |-> calls[i]]]
         ELSE log

(* What changes the machine other than through an input call.                *)
LogOutside == Log(<<Call("outside", 0, 0)>>)

(* Through movie::Recording while a recorder runs, directly otherwise.       *)
ReceiveUnteed(calls) ==
  /\ machine' = HandleAll(machine, calls)
  /\ recorder' = recorder
  /\ Log(calls)
Receive(calls) ==
  /\ machine' = HandleAll(machine, calls)
  /\ recorder' = IF recording THEN Taped(recorder, calls) ELSE recorder
  /\ Log(calls)

RoomInTake == Taking => Len(log) < MaxTakeCalls

-----------------------------------------------------------------------------
(* The top of the iteration: a requested rebuild, then the kind of take.     *)

ServiceHardResetUnmarked ==
  /\ phase = "rebuild" /\ request.hardReset
  /\ machine' = FreshMachine(machine.dip)
  /\ request' = [request EXCEPT !.hardReset = FALSE, !.pendingResync = TRUE]
  /\ UNCHANGED <<phase, debugger, commands, movies, take, bound, executed,
                 outside, bounds, history>>
ServiceHardReset ==
  /\ phase = "rebuild" /\ request.hardReset
  /\ machine' = FreshMachine(machine.dip)
  /\ debug' = [debug EXCEPT !.dirty = TRUE]
  /\ request' = [request EXCEPT !.hardReset = FALSE, !.pendingResync = TRUE]
  /\ UNCHANGED <<phase, autoPaused, commands, movies, take, bound, executed,
                 outside, bounds, history>>

ServiceArm ==
  /\ phase = "rebuild" /\ ~ request.hardReset /\ request.arm # "none"
  /\ machine' = FreshMachine(machine.dip)
  /\ debug' = [debug EXCEPT !.dirty = TRUE]
  /\ recording' = TRUE /\ recorder' = NewRecorder(ControlTable, <<machine.dip>>)
  /\ disk' = [disk EXCEPT !.armedBy = request.arm]
  /\ request' = [request EXCEPT !.arm = "none"]
  /\ log' = <<>> /\ ran' = 0
  /\ UNCHANGED <<phase, autoPaused, commands, replaying, playback, take, bound,
                 executed, devices, bounds>>

(* Entering a take clears the machine's watchpoints and hits and suspends    *)
(* the sync; leaving it marks the list dirty.                                *)
SuspendFor(mode) ==
  IF mode # "Live" /\ ~ debug.suspended
  THEN /\ machine' = [machine EXCEPT !.watch = {}, !.hits = {}]
       /\ debug' = [debug EXCEPT !.suspended = TRUE]
  ELSE /\ machine' = machine
       /\ debug' = [debug EXCEPT !.suspended = mode # "Live",
                                 !.dirty = @ \/ (mode = "Live" /\ debug.suspended)]

BeginIteration ==
  /\ phase = "rebuild" /\ ~ request.hardReset /\ request.arm = "none"
  /\ take' = MovieMode(recording, replaying /\ ~ Finished)
  /\ SuspendFor(take')
  /\ request' = [request EXCEPT !.needsResync = request.pendingResync,
                                !.pendingResync = FALSE]
  /\ bound' = replaying /\ polled' = 0
  /\ phase' = "poll"
  /\ UNCHANGED <<autoPaused, commands, movies, executed, outside, submits, history>>

-----------------------------------------------------------------------------
(* The event poll: any events, in any order, up to MaxPolled of them.        *)

Polling ==
  /\ phase = "poll" /\ polled < MaxPolled
  /\ polled' = polled + 1
  /\ UNCHANGED <<phase, autoPaused, staged, recording, replaying, playback, take,
                 bound, executed, disk, ran>>

(* A control changes hands.  Only a focused window hears of it, and during a *)
(* replay dispatch is bypassed.                                              *)
ControlMoves(k, value) ==
  /\ Polling /\ RoomInTake
  /\ value = 1 <=> k \notin devices.pressed
  /\ devices' = [devices EXCEPT !.pressed =
                   IF value = 1 THEN @ \cup {k} ELSE @ \ {k}]
  /\ IF devices.focused /\ ~ bound
     THEN Receive(<<Call("button", k, value)>>)
     ELSE UNCHANGED <<machine, recorder, log>>
  /\ UNCHANGED <<debug, queue, request, submits>>

(* Every path that lets go of all the inputs, guarded by `!replaying`.       *)
ReleaseAllInputs ==
  IF bound THEN UNCHANGED <<machine, recorder, log>> ELSE Receive(<<ReleaseAllCall>>)

FocusLost ==
  /\ "focus" \in WindowEvents /\ Polling /\ RoomInTake
  /\ devices.focused
  /\ devices' = [devices EXCEPT !.focused = FALSE]
  /\ ReleaseAllInputs
  /\ UNCHANGED <<debug, queue, request, submits>>

FocusGained ==
  /\ Polling /\ ~ devices.focused
  /\ devices' = [devices EXCEPT !.focused = TRUE]
  /\ request' = [request EXCEPT !.needsResync = ~ bound]
  /\ UNCHANGED <<machine, recorder, log, debug, queue, submits>>

(* A pad is unplugged with some of the held controls on it.                  *)
PadRemoved ==
  /\ "pad" \in WindowEvents /\ Polling /\ RoomInTake
  /\ \E gone \in SUBSET devices.pressed :
       devices' = [devices EXCEPT !.pressed = @ \ gone]
  /\ ReleaseAllInputs
  /\ request' = [request EXCEPT !.needsResync = @ \/ ~ bound]
  /\ UNCHANGED <<debug, queue, submits>>

(* ToggleMouseGrab letting go of the mouse: no resync follows.               *)
MouseUngrabbed ==
  /\ "ungrab" \in WindowEvents /\ Polling /\ RoomInTake
  /\ ReleaseAllInputs
  /\ UNCHANGED <<devices, debug, queue, request, submits>>

(* note_debug_panel                                                          *)
TogglePanel ==
  /\ "panel" \in WindowEvents
  /\ phase = "poll" /\ polled < MaxPolled /\ polled' = polled + 1
  /\ LET open == ~ debug.active IN
       /\ debug' = [debug EXCEPT !.active = open,
                      !.mode = IF open THEN "Paused"
                               ELSE IF autoPaused THEN "Running" ELSE @]
       /\ autoPaused' = (open /\ debug.mode = "Running")
  /\ UNCHANGED <<phase, machine, commands, movies, iteration, outside, submits, history>>

Command(name, arg) == [name |-> name, arg |-> arg]

(* A hotkey.  The stepping keys are read only with the debugger open and     *)
(* held, the others at any time.                                             *)
Hotkeys == {"ResetSoft", "ResetHard", "TogglePause", "AdvanceFrame",
            "StepInstruction", "StepCycle", "StepFrame", "SaveState",
            "LoadState", "MovieRecordToggle"}
Hotkey(name) ==
  /\ Polling /\ submits < MaxSubmits /\ devices.focused
  /\ name \in SubFrameSteps \cup {"StepFrame"} =>
       debug.active /\ debug.mode = "Paused"
  /\ queue' = Append(queue, Command(name, "none"))
  /\ submits' = submits + 1
  /\ UNCHANGED <<machine, recorder, log, devices, debug, request>>

(* The staged edits queue behind the hotkeys, in one fixed order.            *)
EndPoll ==
  /\ phase = "poll"
  /\ queue' = queue \o staged.commands \o staged.memory \o staged.dip
  /\ staged' = NoStaged
  /\ phase' = "drain"
  /\ UNCHANGED <<machine, debugger, movies, iteration, outside, bounds, history>>

(* Quitting writes a recording that is still running.                        *)
WrittenTo(ok) ==
  IF ok /\ disk.output THEN [disk EXCEPT !.writtenBy = disk.armedBy] ELSE disk

Quit ==
  /\ phase = "poll" /\ phase' = "exit"
  /\ IF recording
     THEN \E ok \in BOOLEAN : /\ recording' = FALSE
                              /\ disk' = WrittenTo(ok)
                              /\ log' = <<>> /\ ran' = 0
     ELSE UNCHANGED <<recording, disk, history>>
  /\ UNCHANGED <<machine, debugger, commands, recorder, replaying, playback,
                 iteration, devices, bounds>>

-----------------------------------------------------------------------------
(* The drain: the front command is checked against the state as it is now,   *)
(* and runs or is refused.                                                   *)

EnabledNow(name) ==
  Enabled(name, MovieMode(recording, bound), debug.mode # "Running",
          debug.active, disk.saveFile)

Draining(name) ==
  /\ phase = "drain" /\ queue # <<>> /\ Head(queue).name = name
  /\ EnabledNow(name)
  /\ queue' = Tail(queue)
  /\ UNCHANGED <<staged, replaying, playback, take, bound, executed, devices, bounds>>

(* A refused command is dropped with a notice.                               *)
RefuseAndStop ==
  /\ phase = "drain" /\ queue # <<>> /\ ~ EnabledNow(Head(queue).name)
  /\ phase' = "resync"
  /\ UNCHANGED <<machine, debugger, commands, movies, iteration, outside, bounds, history>>
Refuse ==
  /\ phase = "drain" /\ queue # <<>> /\ ~ EnabledNow(Head(queue).name)
  /\ queue' = Tail(queue)
  /\ UNCHANGED <<phase, machine, debugger, staged, movies, iteration, outside,
                 bounds, history>>

(* The reset button: the machine may or may not clear its port bits.         *)
ResetSoft ==
  /\ Draining("ResetSoft") /\ RoomInTake
  /\ machine' \in {machine, [machine EXCEPT !.held = {}]}
  /\ request' = [request EXCEPT !.needsResync = TRUE]
  /\ LogOutside
  /\ UNCHANGED <<phase, debugger, recording, recorder, disk, ran>>

(* A rebuild ends the drain; the rest stays queued for the new machine.      *)
ResetHard ==
  /\ Draining("ResetHard")
  /\ request' = [request EXCEPT !.hardReset = TRUE]
  /\ phase' = "resync"
  /\ UNCHANGED <<machine, debugger, recording, recorder, disk, history>>

MovieArm ==
  /\ Draining("MovieRecordToggle") /\ ~ recording
  /\ request' = [request EXCEPT !.arm = "hotkey"]
  /\ phase' = "resync"
  /\ UNCHANGED <<machine, debugger, recording, recorder, disk, history>>

(* MovieCapture::stop takes the recorder before it writes: a failed write    *)
(* loses the recording.  The path of --record stays in force.                *)
MovieStop ==
  /\ Draining("MovieRecordToggle") /\ recording
  /\ recording' = FALSE
  /\ \E ok \in BOOLEAN : disk' = WrittenTo(ok)
  /\ log' = <<>> /\ ran' = 0
  /\ UNCHANGED <<phase, machine, debugger, recorder, request>>

TogglePause ==
  /\ Draining("TogglePause")
  /\ autoPaused' = FALSE
  /\ debug' = [debug EXCEPT !.mode = IF @ = "Running" THEN "Paused" ELSE "Running"]
  /\ UNCHANGED <<phase, machine, recording, recorder, request, disk, history>>

(* AdvanceFrame and the three steps arm a mode for the next frame.           *)
StepModeByName(name) == name
StepMode(name) == IF name = "AdvanceFrame" THEN "StepFrame" ELSE name
ArmStepKeepingFlag(name) ==
  /\ Draining(name)
  /\ autoPaused' = autoPaused
  /\ debug' = [debug EXCEPT !.mode = StepMode(name)]
  /\ UNCHANGED <<phase, machine, recording, recorder, request, disk, history>>
ArmStep(name) ==
  /\ Draining(name)
  /\ autoPaused' = FALSE
  /\ debug' = [debug EXCEPT !.mode = StepMode(name)]
  /\ UNCHANGED <<phase, machine, recording, recorder, request, disk, history>>

SaveState ==
  /\ Draining("SaveState")
  /\ \E written \in BOOLEAN : disk' = [disk EXCEPT !.saveFile = @ \/ written]
  /\ UNCHANGED <<phase, machine, debugger, recording, recorder, request, history>>

(* The state brings its own port bits.  A file that cannot be read, or fails *)
(* its checksum or header, changes nothing; a component that refuses its     *)
(* chunk fails with the components before it already replaced, and only a    *)
(* load that succeeds asks for a resync.                                     *)
LoadStateNoResync ==
  /\ Draining("LoadState") /\ RoomInTake
  /\ \E held \in SUBSET Keys : machine' = [machine EXCEPT !.held = held]
  /\ LogOutside
  /\ UNCHANGED <<phase, debugger, recording, recorder, request, disk, ran>>
LoadState ==
  /\ Draining("LoadState") /\ RoomInTake
  /\ \/ /\ \E held \in SUBSET Keys : machine' = [machine EXCEPT !.held = held]
        /\ request' = [request EXCEPT !.needsResync = TRUE]
        /\ LogOutside
     \/ /\ PartialLoads
        /\ \E held \in SUBSET Keys : machine' = [machine EXCEPT !.held = held]
        /\ LogOutside
        /\ UNCHANGED request
     \/ UNCHANGED <<machine, request, log>>
  /\ UNCHANGED <<phase, debugger, recording, recorder, disk, ran>>

SetWatchpoint ==
  /\ Draining("SetWatchpoint")
  /\ debug' = [debug EXCEPT !.watch = @ \cup {Head(queue).arg},
                 !.dirty = @ \/ Head(queue).arg \notin debug.watch]
  /\ UNCHANGED <<phase, machine, autoPaused, recording, recorder, request, disk, history>>

ClearWatchpoint ==
  /\ Draining("ClearWatchpoint")
  /\ debug' = [debug EXCEPT !.watch = @ \ {Head(queue).arg}, !.dirty = TRUE]
  /\ UNCHANGED <<phase, machine, autoPaused, recording, recorder, request, disk, history>>

(* PokeMemory and DeviceControl.                                             *)
PokeMemory ==
  /\ Draining("PokeMemory") /\ RoomInTake
  /\ LogOutside
  /\ UNCHANGED <<phase, machine, debugger, recording, recorder, request, disk, ran>>

(* set_dip_option on the machine, then push_dip: a recorded input call.      *)
SetDipOption ==
  /\ Draining("SetDipOption") /\ RoomInTake
  /\ Receive(<<Call("dip", 1, Head(queue).arg)>>)
  /\ UNCHANGED <<phase, debugger, recording, request, disk, ran>>

EndDrain ==
  /\ phase = "drain" /\ queue = <<>>
  /\ phase' = "resync"
  /\ UNCHANGED <<machine, debugger, commands, movies, iteration, outside, bounds, history>>

-----------------------------------------------------------------------------
(* Reconciling with the devices, and the replayed movie's input.             *)

ResyncCalls ==
  [i \in DOMAIN ControlTable |->
     Call("button", ControlTable[i].id,
          IF ControlTable[i].id \in devices.pressed THEN 1 ELSE 0)]

Resync ==
  /\ phase = "resync" /\ RoomInTake
  /\ IF request.needsResync /\ ~ bound
     THEN Receive(ResyncCalls)
     ELSE UNCHANGED <<machine, recorder, log>>
  /\ request' = [request EXCEPT !.needsResync = FALSE]
  /\ phase' = "deliver"
  /\ UNCHANGED <<debugger, commands, recording, replaying, playback, take, bound,
                 executed, outside, bounds, ran>>

Deliver ==
  /\ phase = "deliver"
  /\ IF replaying
     THEN LET calls == Delivered(playback.player, playback.frame) IN
          /\ machine' = HandleAll(machine, calls)
          /\ Log(calls)
          /\ playback' = [playback EXCEPT !.player = TakeFrame(@, playback.frame)]
     ELSE UNCHANGED <<machine, log, playback>>
  /\ phase' = "frame"
  /\ UNCHANGED <<debugger, commands, recording, recorder, replaying, iteration, outside,
                 bounds, ran>>

-----------------------------------------------------------------------------
(* execute_frame                                                             *)

MovieTake == take # "Live"
RoomForFrame == recording => ran < MaxTakeFrames

(* m and d are the machine and the debug state after the step; whole says    *)
(* whether a whole frame ran.                                                *)
FrameEnds(m, d, whole) ==
  /\ phase = "frame"
  /\ machine' = m /\ debug' = d /\ executed' = whole
  /\ phase' = "after"
  /\ UNCHANGED <<autoPaused, commands, movies, request, take, bound, outside,
                 bounds, ran>>

(* The hits a run of the machine may add to the ones already queued.         *)
HitsAdded(m) == {[m EXCEPT !.hits = @ \cup new] : new \in SUBSET m.watch}
Holding(d) == [d EXCEPT !.mode = "Paused"]

(* Debugger closed.  A sub-frame step armed while it was open re-holds.      *)
HoldClosed ==
  /\ ~ debug.active /\ debug.mode \in {"Paused"} \cup SubFrameSteps
  /\ FrameEnds(machine, Holding(debug), FALSE) /\ log' = log

(* run_frame, freely or as one stepped frame; nothing drains its hits.       *)
RunClosedNoHold ==
  /\ ~ debug.active /\ debug.mode \in {"Running", "StepFrame"} /\ RoomForFrame
  /\ \E m \in HitsAdded(machine) : FrameEnds(m, debug, TRUE)
  /\ log' = log
RunClosed ==
  /\ ~ debug.active /\ debug.mode \in {"Running", "StepFrame"} /\ RoomForFrame
  /\ \E m \in HitsAdded(machine) :
       FrameEnds(m, IF debug.mode = "StepFrame" THEN Holding(debug) ELSE debug, TRUE)
  /\ log' = log

(* Debugger open: the watchpoint list is first synced into the machine,      *)
(* which drops the hits, unless a take suspends it.                          *)
ToSyncInTake == debug.dirty
ToSync == debug.dirty /\ ~ debug.suspended
SyncedMachine == IF ToSync THEN [machine EXCEPT !.watch = debug.watch, !.hits = {}]
                 ELSE machine
SyncedDebug == [debug EXCEPT !.dirty = @ /\ debug.suspended]

HoldOpen ==
  /\ debug.active /\ debug.mode = "Paused"
  /\ FrameEnds(SyncedMachine, SyncedDebug, FALSE) /\ log' = log

(* The backstop: no sub-frame step runs in a take.                           *)
RefuseStepInTake ==
  /\ debug.active /\ MovieTake /\ debug.mode \in SubFrameSteps
  /\ FrameEnds(SyncedMachine, Holding(SyncedDebug), FALSE) /\ log' = log

(* StepCycle: one tick, its hits drained.                                    *)
StepCycleTick ==
  /\ debug.active /\ ~ MovieTake /\ debug.mode = "StepCycle" /\ RoomInTake
  /\ FrameEnds([SyncedMachine EXCEPT !.hits = {}], Holding(SyncedDebug), FALSE)
  /\ LogOutside

(* StepInstruction: tick after tick, each with its hits drained, until one   *)
(* sets the boundary bit of the selected CPU.  The loop polls nothing on the *)
(* way and gives up at nothing: which tick is the last is for the machine.   *)
AwaitsBoundary ==
  /\ phase = "frame" /\ debug.active /\ ~ MovieTake
  /\ debug.mode = "StepInstruction" /\ RoomInTake

TickShortOfBoundary ==
  /\ AwaitsBoundary
  /\ machine' = [SyncedMachine EXCEPT !.hits = {}] /\ debug' = SyncedDebug
  /\ LogOutside
  /\ UNCHANGED <<phase, autoPaused, commands, movies, iteration, outside, bounds, ran>>

TickToBoundary ==
  /\ AwaitsBoundary
  /\ FrameEnds([SyncedMachine EXCEPT !.hits = {}], Holding(SyncedDebug), FALSE)
  /\ LogOutside

(* The frame breakpoint, in a take or not, holds before the frame.           *)
BreakAtFrame ==
  /\ debug.active /\ debug.mode = "Running"
  /\ FrameEnds(SyncedMachine, Holding(SyncedDebug), FALSE) /\ log' = log

(* In a take a whole frame goes through run_frame.                           *)
RunInTake ==
  /\ debug.active /\ MovieTake /\ debug.mode \in {"Running", "StepFrame"} /\ RoomForFrame
  /\ \E m \in HitsAdded(SyncedMachine) :
       FrameEnds(m, IF debug.mode = "StepFrame" THEN Holding(SyncedDebug)
                    ELSE SyncedDebug, TRUE)
  /\ log' = log

(* Live, the frame is ticked and may stop part way: at a watchpoint hit,     *)
(* which is drained, or at a PC or cycle breakpoint, whose tick's hits stay. *)
BreakAtHit ==
  /\ debug.active /\ ~ MovieTake /\ debug.mode = "Running" /\ RoomInTake
  /\ debug.watch # {} /\ SyncedMachine.hits \cup SyncedMachine.watch # {}
  /\ FrameEnds([SyncedMachine EXCEPT !.hits = {}], Holding(SyncedDebug), FALSE)
  /\ LogOutside

BreakAtPc ==
  /\ debug.active /\ ~ MovieTake /\ debug.mode = "Running" /\ RoomInTake
  /\ \E m \in HitsAdded(SyncedMachine) : FrameEnds(m, Holding(SyncedDebug), FALSE)
  /\ LogOutside

(* A ticked frame that completes met no hit; a stepped one drains them.      *)
RunTicked ==
  /\ debug.active /\ ~ MovieTake /\ debug.mode = "Running" /\ RoomInTake
  /\ debug.watch # {} => SyncedMachine.hits = {}
  /\ FrameEnds(SyncedMachine, SyncedDebug, TRUE)
  /\ LogOutside

StepFrameTicked ==
  /\ debug.active /\ ~ MovieTake /\ debug.mode = "StepFrame" /\ RoomInTake
  /\ FrameEnds([SyncedMachine EXCEPT !.hits = {}], Holding(SyncedDebug), TRUE)
  /\ LogOutside

(* Counting the frame: only a whole one advances a take.                     *)
AfterFrameCountsHolds ==
  /\ phase = "after"
  /\ recorder' = IF recording THEN AdvanceFrame(recorder) ELSE recorder
  /\ playback' = IF replaying THEN [playback EXCEPT !.frame = @ + 1] ELSE playback
  /\ ran' = IF executed /\ Taking THEN ran + 1 ELSE ran
  /\ phase' = "finish"
  /\ UNCHANGED <<machine, debugger, commands, recording, replaying, iteration, outside,
                 bounds, log>>
AfterFrame ==
  /\ phase = "after"
  /\ recorder' = IF executed /\ recording THEN AdvanceFrame(recorder) ELSE recorder
  /\ playback' = IF executed /\ replaying THEN [playback EXCEPT !.frame = @ + 1]
                 ELSE playback
  /\ ran' = IF executed /\ Taking THEN ran + 1 ELSE ran
  /\ phase' = "finish"
  /\ UNCHANGED <<machine, debugger, commands, recording, replaying, iteration, outside,
                 bounds, log>>

(* A finished playback unbinds: what it held is released, and the devices    *)
(* are read again in the next iteration.                                     *)
FinishPlayback ==
  /\ phase = "finish"
  /\ IF replaying /\ Finished
     THEN /\ replaying' = FALSE
          /\ Receive(<<ReleaseAllCall>>)
          /\ request' = [request EXCEPT !.pendingResync = TRUE]
     ELSE UNCHANGED <<replaying, machine, recorder, log, request>>
  /\ phase' = "draw"
  /\ UNCHANGED <<debugger, commands, recording, playback, take, bound, executed,
                 outside, bounds, ran>>

-----------------------------------------------------------------------------
(* Drawing: a panel stages an edit for the next drain.                       *)

Stage(kind, name, arg) ==
  /\ phase = "draw" /\ submits < MaxSubmits /\ name \in UserCommands
  /\ staged' = [staged EXCEPT ![kind] = Append(@, Command(name, arg))]
  /\ submits' = submits + 1
  /\ UNCHANGED <<phase, machine, debugger, queue, movies, iteration, outside, polled,
                 history>>

StagePause == debug.active /\ Stage("commands", "TogglePause", "none")
StageStep(name) ==
  debug.active /\ debug.mode = "Paused" /\ Stage("commands", name, "none")
StageWatchpoint(w) == debug.active /\ Stage("commands", "SetWatchpoint", w)
StageRemoval(w) ==
  debug.active /\ w \in debug.watch /\ Stage("commands", "ClearWatchpoint", w)
StagePoke == debug.active /\ Stage("memory", "PokeMemory", "none")
StageDip(value) == Stage("dip", "SetDipOption", value)

EndDraw ==
  /\ phase = "draw" /\ phase' = "rebuild"
  /\ UNCHANGED <<machine, debugger, commands, movies, iteration, outside, bounds, history>>

-----------------------------------------------------------------------------
(* What the user and the window do, and what the loop does next.             *)
UserStep ==
  \/ \E k \in Keys, value \in {0, 1} : ControlMoves(k, value)
  \/ FocusLost \/ FocusGained \/ PadRemoved \/ MouseUngrabbed \/ TogglePanel
  \/ \E name \in Hotkeys \cap UserCommands : Hotkey(name)
  \/ Quit
  \/ StagePause \/ StagePoke
  \/ \E name \in SubFrameSteps \cup {"StepFrame"} : StageStep(name)
  \/ \E w \in Watchpoints : StageWatchpoint(w) \/ StageRemoval(w)
  \/ \E value \in {0, 1} : StageDip(value)

LoopStep ==
  \/ ServiceHardReset \/ ServiceArm \/ BeginIteration \/ EndPoll
  \/ Refuse \/ ResetSoft \/ ResetHard \/ MovieArm \/ MovieStop \/ TogglePause
  \/ \E name \in SubFrameSteps \cup {"StepFrame", "AdvanceFrame"} : ArmStep(name)
  \/ SaveState \/ LoadState \/ SetWatchpoint \/ ClearWatchpoint \/ PokeMemory
  \/ SetDipOption \/ EndDrain
  \/ Resync \/ Deliver
  \/ HoldClosed \/ RunClosed
  \/ HoldOpen \/ RefuseStepInTake \/ StepCycleTick \/ TickShortOfBoundary
  \/ BreakAtFrame \/ RunInTake
  \/ BreakAtHit \/ BreakAtPc \/ RunTicked \/ StepFrameTicked
  \/ AfterFrame \/ FinishPlayback \/ EndDraw

Next == UserStep \/ LoopStep \/ TickToBoundary

Spec == Init /\ [][Next]_vars

(* The loop is one thread, and its event polls are finite, so the iteration  *)
(* goes on.  Users owe nothing; nor does the machine owe a step of the       *)
(* debugger an instruction boundary: a CPU held in reset, or waiting for an  *)
(* interrupt that does not come, reaches none.                               *)
FairSpec == Spec /\ WF_vars(LoopStep)

-----------------------------------------------------------------------------
(* Properties.                                                               *)

Phases == {"rebuild", "poll", "drain", "resync", "deliver", "frame", "after",
           "finish", "draw", "exit"}

(* The state keeps its shape: modes, control and watchpoint sets, flags.     *)
TypeOK ==
  /\ phase \in Phases
  /\ machine \in [held : SUBSET Keys, dip : {0, 1}, watch : SUBSET Watchpoints,
                  hits : SUBSET Watchpoints]
  /\ debug \in [active : BOOLEAN, mode : RunModes, watch : SUBSET Watchpoints,
                dirty : BOOLEAN, suspended : BOOLEAN]
  /\ autoPaused \in BOOLEAN /\ recording \in BOOLEAN /\ replaying \in BOOLEAN
  /\ Len(queue) <= MaxSubmits
  /\ \A i \in DOMAIN queue : queue[i].name \in Commands
  /\ take \in {"Live", "Recording", "Replaying"}
  /\ request \in [hardReset : BOOLEAN, arm : {"none", "cli", "hotkey"},
                  pendingResync : BOOLEAN, needsResync : BOOLEAN]
  /\ devices.pressed \subseteq Keys
  /\ replaying => playback.frame <= playback.total + 1

RecordOf(entry) ==
  [frame |-> entry.frame, op |-> entry.call.op,
   ctl |-> IF entry.call.op \in ControlOps
           THEN Min(IndicesOf(ControlTable, entry.call.id)) ELSE entry.call.id,
   value |-> entry.call.value]

(* A recording is faithful at every moment: it has counted the frames the    *)
(* machine ran since the rebuild and holds exactly what reached the machine, *)
(* each call under its frame, through every path input takes (dispatch,      *)
(* focus, unplugged pads, resync, DIP edits); nothing reached the machine    *)
(* outside it, and no frame was ticked by the debugger instead of run.       *)
TakeFaithful ==
  recording => /\ recorder.frame = ran
               /\ recorder.records = [i \in DOMAIN log |-> RecordOf(log[i])]

(* During a replay the machine receives the movie's input and nothing else:  *)
(* what reached it is what the player handed out, under the movie's own      *)
(* frames, and when a frame is about to run all of its records have arrived, *)
(* however often the loop went round while the machine was held.             *)
ReplayIsolated ==
  replaying /\ ~ Finished =>
    LET records == playback.player.movie.records IN
    /\ ran = playback.frame
    /\ log = [i \in 1..playback.player.cursor |->
                [frame |-> records[i].frame, call |-> ToCall(playback.player, records[i])]]
    /\ phase = "frame" => \A i \in DOMAIN records :
         records[i].frame <= playback.frame => i <= playback.player.cursor

(* No watchpoint is set in the machine while a frame of a take runs, and no  *)
(* hit of an earlier one is left in it.                                      *)
WatchpointsClearDuringTake ==
  phase = "frame" /\ MovieTake => machine.watch = {} /\ machine.hits = {}

(* Watchpoints stay re-appliable across takes, rebuilds and edits: outside a *)
(* suspension, whenever the list is not marked dirty the machine has exactly *)
(* the watchpoints the panel lists.                                          *)
WatchpointsInSync ==
  ~ debug.suspended /\ ~ debug.dirty => machine.watch = debug.watch

(* With the window focused and no replay bound, when a frame is about to run *)
(* the machine believes held exactly the controls that are: after a reset, a *)
(* rebuild, a state load, focus changes, an unplugged pad, a replay's end.   *)
HeldMatchesDevices ==
  phase = "frame" /\ ~ replaying /\ devices.focused => machine.held = devices.pressed

(* The automatic pause is remembered only while it is in force: the debugger *)
(* is open and the machine held, so the close that undoes it undoes nothing  *)
(* the user chose.                                                           *)
AutoPauseHeld == autoPaused => debug.active /\ debug.mode = "Paused"

(* Every step that was armed is consumed, or waits for the selected CPU to   *)
(* end its instruction and for nothing else: the loop returns to running or  *)
(* held, whatever the user submits and wherever the panel goes; always, if a *)
(* CPU that keeps being ticked does come to its boundary.                    *)
Armed == debug.mode \notin {"Running", "Paused"}
StepsResolve ==
  /\ Armed ~> (~ Armed \/ AwaitsBoundary)
  /\ WF_vars(TickToBoundary) => (Armed ~> ~ Armed)

(* No command is queued for ever, although a rebuild ends the drain early,   *)
(* unless the loop is lost in an instruction that does not end.              *)
QueueDrains ==
  /\ queue # <<>> ~> (queue = <<>> \/ phase = "exit" \/ AwaitsBoundary)
  /\ WF_vars(TickToBoundary) => (queue # <<>> ~> (queue = <<>> \/ phase = "exit"))

(* frontend/src/movie.rs:80: the path of --record is for the take armed   *)
(* from the command line; one armed from the hotkey has none.                *)
OutputIsCommandLineTake == disk.writtenBy # "hotkey"

(* debug_ui.rs:1360: when the hits panel is drawn, the machine's own queue   *)
(* of hits has been drained.                                                 *)
HitsDrainedWhenDrawn == phase = "draw" /\ debug.active => machine.hits = {}
=============================================================================
