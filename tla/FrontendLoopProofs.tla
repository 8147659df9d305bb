------------------------- MODULE FrontendLoopProofs -------------------------
(* Proofs about FrontendLoop: what suspending the watchpoints for a take     *)
(* promises, and what the remembered automatic pause means, for every        *)
(* control table, set of watchpoints, movie, command and bound.              *)
(*                                                                           *)
(* Both watchpoint properties rest on SuspensionInv, which neither states:   *)
(* the sync is suspended exactly during a take, and a suspended sync leaves  *)
(* the machine bare.                                                         *)
EXTENDS FrontendLoop, ArithmeticLemmas, SequenceTheorems

(* The records have the fields the actions update.  Nothing is said of what  *)
(* the fields hold: the proofs need no typing of the constants.              *)
MachineRecord(m) ==
  m \in [held : {m.held}, dip : {m.dip}, watch : {m.watch}, hits : {m.hits}]
DebugRecord(d) ==
  d \in [active : {d.active}, mode : {d.mode}, watch : {d.watch},
         dirty : {d.dirty}, suspended : BOOLEAN]

(* suspend_watchpoints runs at the top of every iteration, so its flag       *)
(* follows the kind of take, and nothing sets a watchpoint or queues a hit   *)
(* in the machine while it is up.                                            *)
SuspensionInv ==
  /\ debug.suspended <=> take # "Live"
  /\ debug.suspended => machine.watch = {} /\ machine.hits = {}

(* The tick that ends a step smaller than a frame, of either kind, and the   *)
(* steps of the loop with those the machine may withhold.                    *)
StepTicks ==
  /\ debug.active /\ ~ MovieTake /\ debug.mode \in SubFrameSteps /\ RoomInTake
  /\ FrameEnds([SyncedMachine EXCEPT !.hits = {}], Holding(SyncedDebug), FALSE)
  /\ LogOutside
LoopTurn == LoopStep \/ TickToBoundary

(* The inductive invariant.                                                  *)
LoopInv ==
  /\ MachineRecord(machine) /\ DebugRecord(debug)
  /\ SuspensionInv
  /\ WatchpointsInSync
  /\ AutoPauseHeld

(* Both ticks are such a tick.                                               *)
LEMMA LastTicks == StepCycleTick \/ TickToBoundary => StepTicks
BY DEF StepCycleTick, TickToBoundary, AwaitsBoundary, StepTicks, SubFrameSteps

-----------------------------------------------------------------------------
(* Updates of the two records.                                               *)

(* Input calls reach the controls and the DIP byte only.                     *)
LEMMA HandleAllKeepsWatch ==
  ASSUME NEW m, MachineRecord(m), NEW calls
  PROVE  /\ MachineRecord(HandleAll(m, calls))
         /\ HandleAll(m, calls).watch = m.watch
         /\ HandleAll(m, calls).hits = m.hits
<1> DEFINE h == Ports(m, calls).held
           d == Ports(m, calls).dip
<1>1. HandleAll(m, calls) = [m EXCEPT !.held = h, !.dip = d]
  BY DEF HandleAll
<1> HIDE DEF h, d
<1> QED BY <1>1 DEF MachineRecord

(* A state load replaces the controls.                                       *)
LEMMA LoadKeepsWatch ==
  ASSUME NEW m, MachineRecord(m), NEW h
  PROVE  /\ MachineRecord([m EXCEPT !.held = h])
         /\ [m EXCEPT !.held = h].watch = m.watch
         /\ [m EXCEPT !.held = h].hits = m.hits
BY DEF MachineRecord

(* A sync replaces the watchpoints and drops the hits; a drain the hits.     *)
LEMMA WatchUpdate ==
  ASSUME NEW m, MachineRecord(m), NEW w, NEW x
  PROVE  /\ MachineRecord([m EXCEPT !.watch = w, !.hits = x])
         /\ [m EXCEPT !.watch = w, !.hits = x].watch = w
         /\ [m EXCEPT !.watch = w, !.hits = x].hits = x
BY DEF MachineRecord

(* A drain, or a run that hits, replaces the queued hits only.               *)
LEMMA HitsUpdate ==
  ASSUME NEW m, MachineRecord(m), NEW x
  PROVE  /\ MachineRecord([m EXCEPT !.hits = x])
         /\ [m EXCEPT !.hits = x].watch = m.watch
         /\ [m EXCEPT !.hits = x].hits = x
BY DEF MachineRecord

(* A rebuilt machine has no watchpoint and no hit.                           *)
LEMMA FreshIsBare ==
  ASSUME NEW dip
  PROVE  /\ MachineRecord(FreshMachine(dip))
         /\ FreshMachine(dip).watch = {} /\ FreshMachine(dip).hits = {}
BY DEF MachineRecord, FreshMachine

(* The loop starts live, with nothing set and nothing remembered.            *)
LEMMA InitLoopInv == Init => LoopInv
<1> SUFFICES ASSUME Init PROVE LoopInv
  OBVIOUS
<1>1. MachineRecord(machine) /\ machine.watch = {} /\ machine.hits = {}
  BY FreshIsBare DEF Init
<1>2. DebugRecord(debug) /\ debug.watch = {} /\ debug.suspended = FALSE
  BY DEF Init, DebugRecord
<1>3. SuspensionInv /\ WatchpointsInSync
  BY <1>1, <1>2 DEF Init, SuspensionInv, WatchpointsInSync
<1>4. AutoPauseHeld
  BY DEF Init, AutoPauseHeld
<1> QED BY <1>1, <1>2, <1>3, <1>4 DEF LoopInv

-----------------------------------------------------------------------------
(* Three shapes of step.                                                     *)

(* Most steps touch neither the debug state nor the machine's watchpoints.   *)
LEMMA QuietStep ==
  ASSUME LoopInv, UNCHANGED <<debugger, take>>,
         MachineRecord(machine'),
         machine'.watch = machine.watch, machine'.hits = machine.hits
  PROVE  LoopInv'
<1>1. debug' = debug /\ autoPaused' = autoPaused /\ take' = take
  BY DEF debugger
<1> QED BY <1>1 DEF LoopInv, MachineRecord, DebugRecord, SuspensionInv,
                    WatchpointsInSync, AutoPauseHeld

(* Many quiet steps leave the machine alone altogether.                      *)
LEMMA StillStep ==
  ASSUME LoopInv, UNCHANGED <<debugger, take, machine>>
  PROVE  LoopInv'
BY QuietStep DEF LoopInv, MachineRecord

(* Input calls are quiet, whoever makes them.                                *)
LEMMA ReceiveStep ==
  ASSUME LoopInv, UNCHANGED <<debugger, take>>, NEW calls,
         machine' = HandleAll(machine, calls)
  PROVE  LoopInv'
<1>1. MachineRecord(machine)
  BY DEF LoopInv
<1>2. /\ MachineRecord(machine')
      /\ machine'.watch = machine.watch /\ machine'.hits = machine.hits
  BY <1>1, HandleAllKeepsWatch
<1> QED BY <1>2, QuietStep

(* The frame phase leaves a machine m and a debug state d behind.            *)
LEMMA FrameStep ==
  ASSUME LoopInv, NEW m, NEW d, NEW whole, FrameEnds(m, d, whole),
         MachineRecord(m), DebugRecord(d),
         d.active = debug.active, d.suspended = debug.suspended,
         debug.suspended => m.watch = {} /\ m.hits = {},
         ~ debug.suspended /\ ~ d.dirty => m.watch = d.watch,
         debug.mode = "Paused" => d.mode = "Paused"
  PROVE  LoopInv'
<1>1. /\ machine' = m /\ debug' = d
      /\ autoPaused' = autoPaused /\ take' = take
  BY DEF FrameEnds
<1>2. MachineRecord(machine)' /\ DebugRecord(debug)'
  BY <1>1 DEF MachineRecord, DebugRecord
<1>3. SuspensionInv' /\ WatchpointsInSync'
  BY <1>1 DEF LoopInv, SuspensionInv, WatchpointsInSync
<1>4. AutoPauseHeld'
  BY <1>1 DEF LoopInv, AutoPauseHeld
<1> QED BY <1>2, <1>3, <1>4 DEF LoopInv

-----------------------------------------------------------------------------
(* The steps of the user and of the window.                                  *)

(* Letting go of all inputs is a call, or nothing during a replay.           *)
LEMMA ReleaseAllInputsStep ==
  ASSUME LoopInv, UNCHANGED <<debugger, take>>, ReleaseAllInputs
  PROVE  LoopInv'
<1>1. CASE bound
  BY <1>1, StillStep DEF ReleaseAllInputs
<1>2. CASE ~ bound
  <2>1. machine' = HandleAll(machine, <<ReleaseAllCall>>)
    BY <1>2 DEF ReleaseAllInputs, Receive
  <2> QED BY <2>1, ReceiveStep
<1> QED BY <1>1, <1>2

(* An event that is not about the panel leaves the debugger and take alone.  *)
LEMMA PollStep ==
  ASSUME LoopInv, Polling, debug' = debug
  PROVE  UNCHANGED <<debugger, take>>
BY DEF Polling, debugger

(* A key reaches the machine as one call, or not at all.                     *)
LEMMA ControlMovesStep ==
  ASSUME LoopInv, NEW k, NEW value, ControlMoves(k, value)
  PROVE  LoopInv'
<1>1. UNCHANGED <<debugger, take>>
  BY PollStep DEF ControlMoves
<1>2. CASE devices.focused /\ ~ bound
  <2>1. machine' = HandleAll(machine, <<Call("button", k, value)>>)
    BY <1>2 DEF ControlMoves, Receive
  <2> QED BY <1>1, <2>1, ReceiveStep
<1>3. CASE ~ (devices.focused /\ ~ bound)
  BY <1>1, <1>3, StillStep DEF ControlMoves
<1> QED BY <1>2, <1>3

(* The debugger opens or closes: opening a running machine holds it and      *)
(* remembers that it did; closing forgets it.                                *)
LEMMA TogglePanelStep ==
  ASSUME LoopInv, TogglePanel
  PROVE  LoopInv'
<1> DEFINE mode == IF ~ debug.active THEN "Paused"
                   ELSE IF autoPaused THEN "Running" ELSE debug.mode
<1>1. /\ debug' = [debug EXCEPT !.active = ~ debug.active, !.mode = mode]
      /\ autoPaused' = (~ debug.active /\ debug.mode = "Running")
      /\ machine' = machine /\ take' = take
  BY DEF TogglePanel, iteration
<1>2. /\ DebugRecord(debug') /\ debug'.active = ~ debug.active /\ debug'.mode = mode
      /\ debug'.watch = debug.watch /\ debug'.dirty = debug.dirty
      /\ debug'.suspended = debug.suspended
  <2> HIDE DEF mode
  <2> QED BY <1>1 DEF LoopInv, DebugRecord
<1>3. MachineRecord(machine)' /\ DebugRecord(debug)'
  BY <1>1, <1>2 DEF LoopInv, MachineRecord, DebugRecord
<1>4. SuspensionInv' /\ WatchpointsInSync'
  BY <1>1, <1>2 DEF LoopInv, SuspensionInv, WatchpointsInSync
<1>5. AutoPauseHeld'
  BY <1>1, <1>2 DEF AutoPauseHeld
<1> QED BY <1>3, <1>4, <1>5 DEF LoopInv

(* A panel stages an edit: the drain applies it later.                       *)
LEMMA StageStepQuiet ==
  ASSUME LoopInv, NEW kind, NEW name, NEW arg, Stage(kind, name, arg)
  PROVE  LoopInv'
BY StillStep DEF Stage, iteration

(* Nothing the user or the window does breaks the invariant.                 *)
LEMMA UserStepKeeps == LoopInv /\ UserStep => LoopInv'
<1> SUFFICES ASSUME LoopInv, UserStep PROVE LoopInv'
  OBVIOUS
<1>1. ASSUME NEW k \in Keys, NEW value \in {0, 1}, ControlMoves(k, value)
      PROVE  LoopInv'
  BY <1>1, ControlMovesStep
<1>2. ASSUME FocusLost \/ PadRemoved \/ MouseUngrabbed PROVE LoopInv'
  <2>1. Polling /\ debug' = debug /\ ReleaseAllInputs
    BY <1>2 DEF FocusLost, PadRemoved, MouseUngrabbed
  <2> QED BY <2>1, PollStep, ReleaseAllInputsStep
<1>3. CASE FocusGained
  BY <1>3, PollStep, StillStep DEF FocusGained
<1>4. CASE TogglePanel
  BY <1>4, TogglePanelStep
<1>5. ASSUME NEW name \in Hotkeys \cap UserCommands, Hotkey(name) PROVE LoopInv'
  BY <1>5, PollStep, StillStep DEF Hotkey
<1>6. CASE Quit
  BY <1>6, StillStep DEF Quit, iteration
<1>7. CASE StagePause \/ StagePoke
  BY <1>7, StageStepQuiet DEF StagePause, StagePoke
<1>8. ASSUME NEW name \in SubFrameSteps \cup {"StepFrame"}, StageStep(name)
      PROVE  LoopInv'
  BY <1>8, StageStepQuiet DEF StageStep
<1>9. ASSUME NEW w \in Watchpoints, StageWatchpoint(w) \/ StageRemoval(w)
      PROVE  LoopInv'
  BY <1>9, StageStepQuiet DEF StageWatchpoint, StageRemoval
<1>10. ASSUME NEW value \in {0, 1}, StageDip(value) PROVE LoopInv'
  BY <1>10, StageStepQuiet DEF StageDip
<1> QED
  BY <1>1, <1>2, <1>3, <1>4, <1>5, <1>6, <1>7, <1>8, <1>9, <1>10 DEF UserStep

-----------------------------------------------------------------------------
(* The top of the iteration.                                                 *)

(* A rebuild loses the watchpoints and marks the list in the same step.      *)
LEMMA Rebuilt ==
  ASSUME LoopInv, machine' = FreshMachine(machine.dip),
         debug' = [debug EXCEPT !.dirty = TRUE],
         autoPaused' = autoPaused, take' = take
  PROVE  LoopInv'
<1>1. MachineRecord(machine)' /\ machine'.watch = {} /\ machine'.hits = {}
  <2>1. /\ MachineRecord(FreshMachine(machine.dip))
        /\ FreshMachine(machine.dip).watch = {} /\ FreshMachine(machine.dip).hits = {}
    BY FreshIsBare
  <2> QED BY <2>1 DEF MachineRecord
<1>2. /\ DebugRecord(debug') /\ debug'.dirty = TRUE
      /\ debug'.active = debug.active /\ debug'.mode = debug.mode
      /\ debug'.suspended = debug.suspended
  BY DEF LoopInv, DebugRecord
<1>3. DebugRecord(debug)' /\ SuspensionInv' /\ WatchpointsInSync'
  BY <1>1, <1>2 DEF LoopInv, DebugRecord, SuspensionInv, WatchpointsInSync
<1>4. AutoPauseHeld'
  BY <1>2 DEF LoopInv, AutoPauseHeld
<1> QED BY <1>1, <1>3, <1>4 DEF LoopInv

(* A take that begins clears the machine, once; one that ends leaves the     *)
(* list dirty, so that the next sync applies it again.                       *)
LEMMA SuspendStep ==
  ASSUME LoopInv, SuspendFor(take'), autoPaused' = autoPaused
  PROVE  LoopInv'
<1>1. CASE take' # "Live" /\ ~ debug.suspended
  <2>1. /\ machine' = [machine EXCEPT !.watch = {}, !.hits = {}]
        /\ debug' = [debug EXCEPT !.suspended = TRUE]
    BY <1>1 DEF SuspendFor
  <2>2. /\ MachineRecord(machine') /\ machine'.watch = {} /\ machine'.hits = {}
    BY <2>1 DEF LoopInv, MachineRecord
  <2>3. /\ DebugRecord(debug') /\ debug'.suspended = TRUE
        /\ debug'.active = debug.active /\ debug'.mode = debug.mode
    BY <2>1 DEF LoopInv, DebugRecord
  <2>4. AutoPauseHeld'
    BY <2>3 DEF LoopInv, AutoPauseHeld
  <2>5. SuspensionInv' /\ WatchpointsInSync'
    BY <1>1, <2>2, <2>3 DEF SuspensionInv, WatchpointsInSync
  <2>6. MachineRecord(machine)' /\ DebugRecord(debug)'
    BY <2>2, <2>3 DEF MachineRecord, DebugRecord
  <2> QED BY <2>4, <2>5, <2>6 DEF LoopInv
<1>2. CASE ~ (take' # "Live" /\ ~ debug.suspended)
  <2> DEFINE dirty == debug.dirty \/ (take' = "Live" /\ debug.suspended)
             suspended == take' # "Live"
  <2>1. /\ machine' = machine
        /\ debug' = [debug EXCEPT !.suspended = suspended, !.dirty = dirty]
    BY <1>2 DEF SuspendFor
  <2>2. /\ DebugRecord(debug')
        /\ debug'.suspended = suspended /\ debug'.dirty = dirty
        /\ debug'.watch = debug.watch
        /\ debug'.active = debug.active /\ debug'.mode = debug.mode
    <3>1. suspended \in BOOLEAN
      OBVIOUS
    <3> HIDE DEF dirty, suspended
    <3> QED BY <2>1, <3>1 DEF LoopInv, DebugRecord
  <2>3. MachineRecord(machine)' /\ DebugRecord(debug)'
    BY <2>1, <2>2 DEF LoopInv, MachineRecord, DebugRecord
  <2>4. AutoPauseHeld'
    BY <2>2 DEF LoopInv, AutoPauseHeld
  <2>5. SuspensionInv'
    BY <1>2, <2>1, <2>2 DEF LoopInv, SuspensionInv
  <2>6. WatchpointsInSync'
    BY <1>2, <2>1, <2>2 DEF LoopInv, WatchpointsInSync
  <2> QED BY <2>3, <2>4, <2>5, <2>6 DEF LoopInv
<1> QED BY <1>1, <1>2

-----------------------------------------------------------------------------
(* The drain.                                                                *)

(* The kind of take is derived at the top of the iteration only.             *)
LEMMA DrainingKeepsTake == ASSUME NEW name, Draining(name) PROVE take' = take
BY DEF Draining

(* A command that changes only the mode of the debugger, and forgets the     *)
(* automatic pause.                                                          *)
LEMMA ModeStep ==
  ASSUME LoopInv, NEW mode, debug' = [debug EXCEPT !.mode = mode],
         autoPaused' = FALSE, machine' = machine, take' = take
  PROVE  LoopInv'
<1>1. /\ DebugRecord(debug') /\ debug'.watch = debug.watch
      /\ debug'.dirty = debug.dirty /\ debug'.suspended = debug.suspended
  BY DEF LoopInv, DebugRecord
<1>2. MachineRecord(machine)' /\ DebugRecord(debug)'
  BY <1>1 DEF LoopInv, MachineRecord, DebugRecord
<1>3. SuspensionInv' /\ WatchpointsInSync'
  BY <1>1 DEF LoopInv, SuspensionInv, WatchpointsInSync
<1>4. AutoPauseHeld'
  BY DEF AutoPauseHeld
<1> QED BY <1>2, <1>3, <1>4 DEF LoopInv

(* A command that changes the panel's list and marks it, unless the list     *)
(* stays what it was.                                                        *)
LEMMA ListStep ==
  ASSUME LoopInv, NEW watch, NEW dirty, ~ dirty => watch = debug.watch /\ ~ debug.dirty,
         debug' = [debug EXCEPT !.watch = watch, !.dirty = dirty],
         autoPaused' = autoPaused, machine' = machine, take' = take
  PROVE  LoopInv'
<1>1. /\ DebugRecord(debug') /\ debug'.watch = watch /\ debug'.dirty = dirty
      /\ debug'.active = debug.active /\ debug'.mode = debug.mode
      /\ debug'.suspended = debug.suspended
  BY DEF LoopInv, DebugRecord
<1>2. MachineRecord(machine)' /\ DebugRecord(debug)'
  BY <1>1 DEF LoopInv, MachineRecord, DebugRecord
<1>3. SuspensionInv' /\ WatchpointsInSync'
  BY <1>1 DEF LoopInv, SuspensionInv, WatchpointsInSync
<1>4. AutoPauseHeld'
  BY <1>1 DEF LoopInv, AutoPauseHeld
<1> QED BY <1>2, <1>3, <1>4 DEF LoopInv

(* A reset or a state load replaces the controls the machine believes held.  *)
LEMMA HeldStep ==
  ASSUME LoopInv, UNCHANGED <<debugger, take>>, NEW held,
         machine' = [machine EXCEPT !.held = held]
  PROVE  LoopInv'
<1>1. MachineRecord(machine)
  BY DEF LoopInv
<1>2. /\ MachineRecord(machine')
      /\ machine'.watch = machine.watch /\ machine'.hits = machine.hits
  BY <1>1, LoadKeepsWatch
<1> QED BY <1>2, QuietStep

(* Setting a watchpoint marks the list unless it was listed already.         *)
LEMMA SetWatchpointStep ==
  ASSUME LoopInv, SetWatchpoint
  PROVE  LoopInv'
<1> DEFINE watch == debug.watch \cup {Head(queue).arg}
           dirty == debug.dirty \/ Head(queue).arg \notin debug.watch
<1>1. /\ debug' = [debug EXCEPT !.watch = watch, !.dirty = dirty]
      /\ autoPaused' = autoPaused /\ machine' = machine
  BY DEF SetWatchpoint
<1>2. take' = take
  BY DrainingKeepsTake DEF SetWatchpoint
<1>3. ~ dirty => watch = debug.watch /\ ~ debug.dirty
  OBVIOUS
<1> HIDE DEF watch, dirty
<1> QED BY <1>1, <1>2, <1>3, ListStep

(* Clearing a watchpoint marks the list.                                     *)
LEMMA ClearWatchpointStep ==
  ASSUME LoopInv, ClearWatchpoint
  PROVE  LoopInv'
<1> DEFINE watch == debug.watch \ {Head(queue).arg}
<1>1. /\ debug' = [debug EXCEPT !.watch = watch, !.dirty = TRUE]
      /\ autoPaused' = autoPaused /\ machine' = machine
  BY DEF ClearWatchpoint
<1>2. take' = take
  BY DrainingKeepsTake DEF ClearWatchpoint
<1> HIDE DEF watch
<1> QED BY <1>1, <1>2, ListStep

(* A state load, whole, partial or refused, keeps the watchpoints.           *)
LEMMA LoadStateStep ==
  ASSUME LoopInv, LoadState
  PROVE  LoopInv'
<1>1. UNCHANGED <<debugger, take>>
  BY DrainingKeepsTake DEF LoadState
<1>2. CASE machine' = machine
  BY <1>1, <1>2, StillStep
<1>3. ASSUME NEW held, machine' = [machine EXCEPT !.held = held] PROVE LoopInv'
  BY <1>1, <1>3, HeldStep
<1> QED BY <1>2, <1>3 DEF LoadState

(* A soft reset keeps the watchpoints.                                       *)
LEMMA ResetSoftStep ==
  ASSUME LoopInv, ResetSoft
  PROVE  LoopInv'
<1>1. UNCHANGED <<debugger, take>>
  BY DrainingKeepsTake DEF ResetSoft
<1>2. machine' = machine \/ machine' = [machine EXCEPT !.held = {}]
  BY DEF ResetSoft
<1> QED BY <1>1, <1>2, StillStep, HeldStep

(* No command the drain applies or refuses breaks the invariant.             *)
LEMMA DrainKeeps ==
  ASSUME LoopInv,
         \/ Refuse \/ ResetSoft \/ ResetHard \/ MovieArm \/ MovieStop \/ TogglePause
         \/ \E name \in SubFrameSteps \cup {"StepFrame", "AdvanceFrame"} : ArmStep(name)
         \/ SaveState \/ LoadState \/ SetWatchpoint \/ ClearWatchpoint \/ PokeMemory
         \/ SetDipOption \/ EndDrain
  PROVE  LoopInv'
<1>1. CASE Refuse \/ EndDrain
  BY <1>1, StillStep DEF Refuse, EndDrain, iteration
<1>2. CASE ResetHard \/ MovieArm \/ MovieStop \/ SaveState \/ PokeMemory
  BY <1>2, DrainingKeepsTake, StillStep
     DEF ResetHard, MovieArm, MovieStop, SaveState, PokeMemory, debugger
<1>3. CASE ResetSoft
  BY <1>3, ResetSoftStep
<1>4. CASE LoadState
  BY <1>4, LoadStateStep
<1>5. CASE SetWatchpoint \/ ClearWatchpoint
  BY <1>5, SetWatchpointStep, ClearWatchpointStep
<1>6. CASE SetDipOption
  <2>1. machine' = HandleAll(machine, <<Call("dip", 1, Head(queue).arg)>>)
    BY <1>6 DEF SetDipOption, Receive
  <2>2. UNCHANGED <<debugger, take>>
    BY <1>6, DrainingKeepsTake DEF SetDipOption
  <2> QED BY <2>1, <2>2, ReceiveStep
<1>7. CASE TogglePause
  <2> DEFINE mode == IF debug.mode = "Running" THEN "Paused" ELSE "Running"
  <2>1. debug' = [debug EXCEPT !.mode = mode] /\ autoPaused' = FALSE /\ machine' = machine
    BY <1>7 DEF TogglePause
  <2>2. take' = take
    BY <1>7, DrainingKeepsTake DEF TogglePause
  <2> HIDE DEF mode
  <2> QED BY <2>1, <2>2, ModeStep
<1>8. ASSUME NEW name, ArmStep(name) PROVE LoopInv'
  <2>1. /\ debug' = [debug EXCEPT !.mode = StepMode(name)]
        /\ autoPaused' = FALSE /\ machine' = machine
    BY <1>8 DEF ArmStep
  <2>2. take' = take
    BY <1>8, DrainingKeepsTake DEF ArmStep
  <2> QED BY <2>1, <2>2, ModeStep
<1> QED BY <1>1, <1>2, <1>3, <1>4, <1>5, <1>6, <1>7, <1>8

-----------------------------------------------------------------------------
(* The frame.                                                                *)

(* What opening a frame with the debugger open leaves: the list synced, or,  *)
(* in a take, everything as it was.                                          *)
LEMMA Synced ==
  ASSUME LoopInv
  PROVE  /\ MachineRecord(SyncedMachine) /\ DebugRecord(SyncedDebug)
         /\ SyncedDebug.active = debug.active /\ SyncedDebug.mode = debug.mode
         /\ SyncedDebug.watch = debug.watch
         /\ SyncedDebug.suspended = debug.suspended
         /\ debug.suspended => SyncedMachine.watch = {} /\ SyncedMachine.hits = {}
         /\ ~ debug.suspended => SyncedMachine.watch = debug.watch
<1>1. MachineRecord(machine) /\ DebugRecord(debug)
  BY DEF LoopInv
<1>2. /\ DebugRecord(SyncedDebug) /\ SyncedDebug.active = debug.active
      /\ SyncedDebug.mode = debug.mode /\ SyncedDebug.watch = debug.watch
      /\ SyncedDebug.suspended = debug.suspended
  BY <1>1 DEF SyncedDebug, DebugRecord
<1>3. CASE ToSync
  <2> DEFINE watch == debug.watch
  <2>1. SyncedMachine = [machine EXCEPT !.watch = watch, !.hits = {}]
    BY <1>3 DEF SyncedMachine
  <2> HIDE DEF watch
  <2>2. MachineRecord(SyncedMachine) /\ SyncedMachine.watch = watch
    BY <1>1, <2>1 DEF MachineRecord
  <2> QED BY <1>2, <1>3, <2>2 DEF watch, ToSync
<1>4. CASE ~ ToSync
  <2>1. SyncedMachine = machine
    BY <1>4 DEF SyncedMachine
  <2> QED
    BY <1>1, <1>2, <1>4, <2>1 DEF ToSync, LoopInv, SuspensionInv, WatchpointsInSync
<1> QED BY <1>3, <1>4

(* Holding changes the mode and nothing else of the debug state.             *)
LEMMA HoldingDebug ==
  ASSUME NEW d, DebugRecord(d)
  PROVE  /\ DebugRecord(Holding(d)) /\ Holding(d).active = d.active
         /\ Holding(d).mode = "Paused" /\ Holding(d).watch = d.watch
         /\ Holding(d).dirty = d.dirty /\ Holding(d).suspended = d.suspended
BY DEF DebugRecord, Holding

(* A machine that runs queues hits of its own watchpoints only.              *)
LEMMA HitsOfWatchpoints ==
  ASSUME NEW m, MachineRecord(m), NEW n \in HitsAdded(m)
  PROVE  /\ MachineRecord(n) /\ n.watch = m.watch
         /\ m.watch = {} /\ m.hits = {} => n.hits = {}
<1>1. PICK new \in SUBSET m.watch : n = [m EXCEPT !.hits = @ \cup new]
  BY DEF HitsAdded
<1> DEFINE hits == m.hits \cup new
<1>2. n = [m EXCEPT !.hits = hits]
  BY <1>1
<1>3. m.watch = {} /\ m.hits = {} => hits = {}
  BY <1>1
<1> HIDE DEF hits
<1>4. MachineRecord(n) /\ n.watch = m.watch /\ n.hits = hits
  BY <1>2, HitsUpdate
<1> QED BY <1>3, <1>4

(* With the debugger open the frame ends on the synced machine, or on one    *)
(* whose hits a run has added to or a drain has taken.                       *)
LEMMA OpenFrameStep ==
  ASSUME LoopInv, NEW m, NEW d, NEW whole, FrameEnds(m, d, whole),
         MachineRecord(m), m.watch = SyncedMachine.watch,
         debug.suspended => m.hits = {},
         d = SyncedDebug \/ d = Holding(SyncedDebug)
  PROVE  LoopInv'
<1>1. /\ DebugRecord(d) /\ d.active = debug.active /\ d.watch = debug.watch
      /\ d.suspended = debug.suspended
      /\ debug.mode = "Paused" => d.mode = "Paused"
  BY Synced, HoldingDebug
<1>2. /\ debug.suspended => m.watch = {}
      /\ ~ debug.suspended => m.watch = d.watch
  BY <1>1, Synced
<1> QED BY <1>1, <1>2, FrameStep

(* Every way a frame ends with the debugger open.                            *)
LEMMA OpenFrames ==
  ASSUME LoopInv,
         \/ HoldOpen \/ RefuseStepInTake \/ StepTicks \/ BreakAtFrame \/ RunInTake
         \/ BreakAtHit \/ BreakAtPc \/ RunTicked \/ StepFrameTicked
  PROVE  LoopInv'
<1>1. /\ MachineRecord(SyncedMachine)
      /\ debug.suspended => SyncedMachine.watch = {} /\ SyncedMachine.hits = {}
  BY Synced
<1>2. ASSUME NEW d, NEW whole, FrameEnds(SyncedMachine, d, whole),
             d = SyncedDebug \/ d = Holding(SyncedDebug)
      PROVE  LoopInv'
  BY <1>1, <1>2, OpenFrameStep
<1>3. ASSUME NEW d, NEW whole,
             FrameEnds([SyncedMachine EXCEPT !.hits = {}], d, whole),
             d = SyncedDebug \/ d = Holding(SyncedDebug)
      PROVE  LoopInv'
  <2> DEFINE m == [SyncedMachine EXCEPT !.hits = {}]
  <2>1. MachineRecord(m) /\ m.watch = SyncedMachine.watch /\ m.hits = {}
    BY <1>1 DEF MachineRecord
  <2>2. FrameEnds(m, d, whole)
    BY <1>3
  <2> HIDE DEF m
  <2> QED BY <1>3, <2>1, <2>2, OpenFrameStep
<1>4. ASSUME NEW m \in HitsAdded(SyncedMachine), NEW d, NEW whole,
             FrameEnds(m, d, whole), d = SyncedDebug \/ d = Holding(SyncedDebug)
      PROVE  LoopInv'
  <2>1. /\ MachineRecord(m) /\ m.watch = SyncedMachine.watch
        /\ debug.suspended => m.hits = {}
    BY <1>1, HitsOfWatchpoints
  <2> QED BY <1>4, <2>1, OpenFrameStep
<1>5. CASE HoldOpen \/ RefuseStepInTake \/ BreakAtFrame \/ RunTicked
  BY <1>2, <1>5 DEF HoldOpen, RefuseStepInTake, BreakAtFrame, RunTicked
<1>6. CASE StepTicks \/ BreakAtHit \/ StepFrameTicked
  BY <1>3, <1>6 DEF StepTicks, BreakAtHit, StepFrameTicked
<1>7. CASE RunInTake \/ BreakAtPc
  BY <1>4, <1>7 DEF RunInTake, BreakAtPc
<1> QED BY <1>5, <1>6, <1>7

(* A tick on the way to a boundary: the machine synced, its hits drained.    *)
LEMMA TickKeeps ==
  ASSUME LoopInv, TickShortOfBoundary
  PROVE  LoopInv'
<1> DEFINE m == [SyncedMachine EXCEPT !.hits = {}]
<1>1. /\ MachineRecord(SyncedMachine) /\ DebugRecord(SyncedDebug)
      /\ SyncedDebug.active = debug.active /\ SyncedDebug.mode = debug.mode
      /\ SyncedDebug.watch = debug.watch /\ SyncedDebug.suspended = debug.suspended
      /\ debug.suspended => SyncedMachine.watch = {}
      /\ ~ debug.suspended => SyncedMachine.watch = debug.watch
  BY Synced
<1>2. MachineRecord(m) /\ m.watch = SyncedMachine.watch /\ m.hits = {}
  BY <1>1 DEF MachineRecord
<1>3. machine' = m /\ debug' = SyncedDebug /\ UNCHANGED <<autoPaused, take>>
  BY DEF TickShortOfBoundary, iteration
<1> HIDE DEF m
<1>4. MachineRecord(machine)' /\ DebugRecord(debug)'
  BY <1>1, <1>2, <1>3 DEF MachineRecord, DebugRecord
<1>5. SuspensionInv' /\ WatchpointsInSync'
  BY <1>1, <1>2, <1>3 DEF LoopInv, SuspensionInv, WatchpointsInSync
<1>6. AutoPauseHeld'
  BY <1>1, <1>3 DEF LoopInv, AutoPauseHeld
<1> QED BY <1>4, <1>5, <1>6 DEF LoopInv

(* Every way a frame ends with the debugger closed: no sync happens.         *)
LEMMA ClosedFrames ==
  ASSUME LoopInv, HoldClosed \/ RunClosed
  PROVE  LoopInv'
<1>1. MachineRecord(machine) /\ DebugRecord(debug)
  BY DEF LoopInv
<1>2. ASSUME NEW m, NEW d, NEW whole, FrameEnds(m, d, whole),
             MachineRecord(m), m.watch = machine.watch,
             debug.suspended => m.hits = {},
             d = debug \/ d = Holding(debug)
      PROVE  LoopInv'
  <2>1. /\ DebugRecord(d) /\ d.active = debug.active /\ d.watch = debug.watch
        /\ d.dirty = debug.dirty /\ d.suspended = debug.suspended
        /\ debug.mode = "Paused" => d.mode = "Paused"
    BY <1>1, <1>2, HoldingDebug
  <2>2. /\ debug.suspended => m.watch = {}
        /\ ~ debug.suspended /\ ~ d.dirty => m.watch = d.watch
    BY <1>2, <2>1 DEF LoopInv, SuspensionInv, WatchpointsInSync
  <2> QED BY <1>2, <2>1, <2>2, FrameStep
<1>3. CASE HoldClosed
  <2>1. debug.suspended => machine.hits = {}
    BY DEF LoopInv, SuspensionInv
  <2> QED BY <1>1, <1>2, <1>3, <2>1 DEF HoldClosed
<1>4. CASE RunClosed
  <2>1. PICK m \in HitsAdded(machine) :
          FrameEnds(m, IF debug.mode = "StepFrame" THEN Holding(debug) ELSE debug, TRUE)
    BY <1>4 DEF RunClosed
  <2>2. MachineRecord(m) /\ m.watch = machine.watch
    BY <1>1, HitsOfWatchpoints
  <2>3. debug.suspended => m.hits = {}
    BY <1>1, HitsOfWatchpoints DEF LoopInv, SuspensionInv
  <2> QED BY <1>2, <2>1, <2>2, <2>3
<1> QED BY <1>3, <1>4

-----------------------------------------------------------------------------
(* No step of the loop itself breaks the invariant.                          *)
LEMMA LoopTurnKeeps == LoopInv /\ LoopTurn => LoopInv'
<1> SUFFICES ASSUME LoopInv, LoopTurn PROVE LoopInv'
  OBVIOUS
<1>1. CASE ServiceHardReset
  BY <1>1, Rebuilt DEF ServiceHardReset
<1>2. CASE ServiceArm
  BY <1>2, Rebuilt DEF ServiceArm
<1>3. CASE BeginIteration
  BY <1>3, SuspendStep DEF BeginIteration
<1>4. CASE EndPoll \/ AfterFrame \/ EndDraw
  BY <1>4, StillStep DEF EndPoll, AfterFrame, EndDraw, iteration
<1>5. ASSUME \/ Refuse \/ ResetSoft \/ ResetHard \/ MovieArm \/ MovieStop \/ TogglePause
             \/ \E name \in SubFrameSteps \cup {"StepFrame", "AdvanceFrame"} : ArmStep(name)
             \/ SaveState \/ LoadState \/ SetWatchpoint \/ ClearWatchpoint \/ PokeMemory
             \/ SetDipOption \/ EndDrain
      PROVE  LoopInv'
  BY <1>5, DrainKeeps
<1>6. CASE Resync
  <2>1. UNCHANGED <<debugger, take>>
    BY <1>6 DEF Resync
  <2>2. machine' = HandleAll(machine, ResyncCalls) \/ machine' = machine
    BY <1>6 DEF Resync, Receive
  <2> QED BY <2>1, <2>2, ReceiveStep, StillStep
<1>7. CASE Deliver
  <2>1. UNCHANGED <<debugger, take>>
    BY <1>7 DEF Deliver, iteration
  <2> DEFINE calls == Delivered(playback.player, playback.frame)
  <2>2. machine' = HandleAll(machine, calls) \/ machine' = machine
    BY <1>7 DEF Deliver
  <2> HIDE DEF calls
  <2> QED BY <2>1, <2>2, ReceiveStep, StillStep
<1>8. CASE HoldClosed \/ RunClosed
  BY <1>8, ClosedFrames
<1>9. ASSUME \/ HoldOpen \/ RefuseStepInTake \/ StepTicks \/ BreakAtFrame \/ RunInTake
             \/ BreakAtHit \/ BreakAtPc \/ RunTicked \/ StepFrameTicked
      PROVE  LoopInv'
  BY <1>9, OpenFrames
<1>10. CASE FinishPlayback
  <2>1. UNCHANGED <<debugger, take>>
    BY <1>10 DEF FinishPlayback
  <2>2. machine' = HandleAll(machine, <<ReleaseAllCall>>) \/ machine' = machine
    BY <1>10 DEF FinishPlayback, Receive
  <2> QED BY <2>1, <2>2, ReceiveStep, StillStep
<1> QED
  BY <1>1, <1>2, <1>3, <1>4, <1>5, <1>6, <1>7, <1>8, <1>9, <1>10, TickKeeps, LastTicks
     DEF LoopTurn, LoopStep

(* The invariant is inductive.                                               *)
LEMMA LoopInvInductive == LoopInv /\ [Next]_vars => LoopInv'
<1> SUFFICES ASSUME LoopInv, [Next]_vars PROVE LoopInv'
  OBVIOUS
<1>1. CASE Next
  BY <1>1, UserStepKeeps, LoopTurnKeeps DEF Next, LoopTurn
<1>2. CASE UNCHANGED vars
  BY <1>2, StillStep DEF vars, iteration
<1> QED BY <1>1, <1>2

(* The conjunction of the invariants below with what they rest on holds in   *)
(* every state of the loop.                                                  *)
THEOREM LoopInvariant == Spec => []LoopInv
BY InitLoopInv, LoopInvInductive, PTL DEF Spec

(* Outside a suspension a list not marked dirty is the list in the machine,  *)
(* across every take, rebuild, edit and sync: a watchpoint is never silently *)
(* lost (DebugState::suspend_watchpoints, sync_watchpoints).                 *)
THEOREM WatchpointsStayInSync == Spec => []WatchpointsInSync
<1>1. LoopInv => WatchpointsInSync
  BY DEF LoopInv
<1> QED BY <1>1, LoopInvariant, PTL

(* No watchpoint is set in the machine, and no hit queued, while a frame of  *)
(* a take runs, whatever was set before it or edited during it.              *)
THEOREM TakesRunBare == Spec => []WatchpointsClearDuringTake
<1>1. LoopInv => WatchpointsClearDuringTake
  BY DEF LoopInv, SuspensionInv, WatchpointsClearDuringTake, MovieTake
<1> QED BY <1>1, LoopInvariant, PTL

(* The remembered automatic pause is always in force, so closing the panel   *)
(* never resumes a machine the user chose to hold (note_debug_panel).        *)
THEOREM AutoPauseIsInForce == Spec => []AutoPauseHeld
<1>1. LoopInv => AutoPauseHeld
  BY DEF LoopInv
<1> QED BY <1>1, LoopInvariant, PTL

-----------------------------------------------------------------------------
(* Input calls and what they do.                                             *)

(* What an input call, the controls and DIP byte of a machine, and a         *)
(* recorder hold.                                                            *)
InputCalls ==
  {call \in [op : {"button", "releaseAll", "dip"}, id : Nat, value : {0, 1}] :
     call.op = "button" => call.id \in Keys}
(* What the live paths make: a release of everything names no control.       *)
LiveCalls == {call \in InputCalls : call.op = "releaseAll" => call.id = 0 /\ call.value = 0}
PortStates == [held : SUBSET Keys, dip : {0, 1}]
Machines == [held : SUBSET Keys, dip : {0, 1}, watch : SUBSET Watchpoints,
             hits : SUBSET Watchpoints]
Records == [frame : Nat, op : {"button", "releaseAll", "dip"}, ctl : Nat, value : {0, 1}]
Recorders == [table : {ControlTable}, dip : Seq({0, 1}), records : Seq(Records),
              frame : Nat, unmapped : Nat]

(* A key is the id of an entry of the table.                                 *)
LEMMA KeysAreNumbers == /\ Keys \subseteq Nat
                        /\ \A k \in Keys : \E i \in DOMAIN ControlTable : ControlTable[i].id = k
<1>1. ControlTable \in Seq([name : STRING, id : Nat])
  BY LoopAssumption DEF LoopAssumption
<1>2. \A i \in DOMAIN ControlTable : ControlTable[i].id \in Nat
  <2>1. ASSUME NEW i \in DOMAIN ControlTable
        PROVE  ControlTable[i] \in [name : STRING, id : Nat]
    <3>1. i \in 1..Len(ControlTable)
      BY <1>1, LenProperties
    <3> QED BY <1>1, <3>1, ElementOfSeq
  <2> QED BY <2>1
<1> QED BY <1>2 DEF Keys

(* An input call leaves controls and DIP byte typed.                         *)
LEMMA HandleTyped ==
  ASSUME NEW ports \in PortStates, NEW call \in InputCalls
  PROVE  Handle(ports, call) \in PortStates
<1>1. CASE call.op = "button" /\ call.value = 1
  <2>1. Handle(ports, call) = [ports EXCEPT !.held = @ \cup {call.id}]
    BY <1>1 DEF Handle
  <2> QED BY <1>1, <2>1 DEF InputCalls, PortStates
<1>2. CASE call.op = "button" /\ call.value = 0
  <2>1. Handle(ports, call) = [ports EXCEPT !.held = @ \ {call.id}]
    BY <1>2 DEF Handle
  <2> QED BY <1>2, <2>1 DEF InputCalls, PortStates
<1>3. CASE call.op = "releaseAll"
  <2>1. Handle(ports, call) = [ports EXCEPT !.held = {}]
    BY <1>3 DEF Handle
  <2> QED BY <1>3, <2>1 DEF InputCalls, PortStates
<1>4. CASE call.op = "dip"
  <2>1. Handle(ports, call) = [ports EXCEPT !.dip = call.value]
    BY <1>4 DEF Handle
  <2> QED BY <1>4, <2>1 DEF InputCalls, PortStates
<1> QED BY <1>1, <1>2, <1>3, <1>4 DEF InputCalls

(* The controls after a sequence of calls, call by call.                     *)
PortsSteps(m, calls) ==
  {ports \in [0..Len(calls) -> PortStates] :
     /\ ports[0] = [held |-> m.held, dip |-> m.dip]
     /\ \A i \in 1..Len(calls) : ports[i] = Handle(ports[i - 1], calls[i])
     /\ Ports(m, calls) = ports[Len(calls)]}

(* Ports is what its recursion says: its steps exist.                        *)
LEMMA PortsRecursion ==
  ASSUME NEW m, m.held \subseteq Keys, m.dip \in {0, 1}, NEW calls \in Seq(InputCalls)
  PROVE  PortsSteps(m, calls) # {}
<1> DEFINE n == Len(calls)
           first == [held |-> m.held, dip |-> m.dip]
           step == [i \in 1..n |-> [p \in PortStates |-> Handle(p, calls[i])]]
<1>0. n \in Nat /\ first \in PortStates /\ \A i \in 1..n : calls[i] \in InputCalls
  BY DEF PortStates
<1>1. step \in BoundedSteps(n, PortStates)
  BY <1>0, HandleTyped DEF BoundedSteps
<1>2. PICK f \in [0..n -> PortStates] :
        f = [i \in 0..n |-> IF i = 0 THEN first ELSE step[i][f[i - 1]]]
  <2> HIDE DEF step, n, first
  <2>1. BoundedSequels(n, PortStates, first, step) # {}
    BY <1>0, <1>1, BoundedRecursion
  <2> QED BY <2>1 DEF BoundedSequels
<1>3. f = [i \in 0..n |-> IF i = 0 THEN first ELSE Handle(f[i - 1], calls[i])]
  <2> SUFFICES ASSUME NEW i \in 0..n, i # 0
               PROVE  step[i][f[i - 1]] = Handle(f[i - 1], calls[i])
    BY <1>2
  <2>1. i \in 1..n /\ i - 1 \in 0..n /\ f[i - 1] \in PortStates
    BY <1>0
  <2> QED BY <2>1
<1> DEFINE p == CHOOSE p : p = [i \in 0..n |-> IF i = 0 THEN first
                                               ELSE Handle(p[i - 1], calls[i])]
<1>4. p = [i \in 0..n |-> IF i = 0 THEN first ELSE Handle(p[i - 1], calls[i])]
  <2> HIDE DEF n, first
  <2> QED BY <1>3
<1>5. Ports(m, calls) = p[n]
  BY DEF Ports
<1> HIDE DEF p, n, first, step
<1>6. p[0] = first /\ \A i \in 1..n : p[i] = Handle(p[i - 1], calls[i])
  <2>1. \A i \in 1..n : i \in 0..n /\ i # 0
    BY <1>0
  <2>2. 0 \in 0..n
    BY <1>0
  <2>3. \A i \in 0..n : p[i] = IF i = 0 THEN first ELSE Handle(p[i - 1], calls[i])
    BY <1>4
  <2> QED BY <2>1, <2>2, <2>3
<1>7. \A i \in 0..n : i \in {j \in 0..n : p[j] \in PortStates}
  <2> DEFINE S == {j \in 0..n : p[j] \in PortStates}
  <2>1. 0 \in S
    BY <1>0, <1>6
  <2>2. ASSUME NEW i \in 1..n, i - 1 \in S PROVE i \in S
    BY <1>0, <1>6, <2>2, HandleTyped
  <2> HIDE DEF S
  <2>3. \A i \in 0..n : i \in S
    BY <1>0, <2>1, <2>2, BoundedInduction
  <2> QED BY <2>3 DEF S
<1>8. p \in [0..n -> PortStates]
  BY <1>4, <1>7
<1>9. p \in PortsSteps(m, calls)
  BY <1>5, <1>6, <1>8 DEF PortsSteps, n, first
<1> QED BY <1>9

(* Input calls leave the machine typed.                                      *)
LEMMA HandleAllTyped ==
  ASSUME NEW m \in Machines, NEW calls \in Seq(InputCalls)
  PROVE  HandleAll(m, calls) \in Machines
<1>1. m.held \subseteq Keys /\ m.dip \in {0, 1}
  BY DEF Machines
<1>2. PICK p \in PortsSteps(m, calls) : TRUE
  BY <1>1, PortsRecursion
<1>3. Ports(m, calls) \in PortStates
  <2>1. Len(calls) \in 0..Len(calls) /\ p \in [0..Len(calls) -> PortStates]
        /\ Ports(m, calls) = p[Len(calls)]
    BY <1>2 DEF PortsSteps
  <2> QED BY <2>1
<1> DEFINE h == Ports(m, calls).held
           d == Ports(m, calls).dip
<1>4. h \in SUBSET Keys /\ d \in {0, 1}
  BY <1>3 DEF PortStates
<1>5. HandleAll(m, calls) = [m EXCEPT !.held = h, !.dip = d]
  BY DEF HandleAll
<1> HIDE DEF h, d
<1> QED BY <1>4, <1>5 DEF Machines

-----------------------------------------------------------------------------
(* The recorder.                                                             *)

(* The position of a key in the table.                                       *)
LEMMA MinOfIndices ==
  ASSUME NEW k \in Keys
  PROVE  /\ IndicesOf(ControlTable, k) # {}
         /\ Min(IndicesOf(ControlTable, k)) \in Nat
<1>1. IndicesOf(ControlTable, k) # {} /\ IndicesOf(ControlTable, k) \subseteq Nat
  BY LoopAssumption DEF LoopAssumption, Keys, IndicesOf
<1>2. \E x \in IndicesOf(ControlTable, k) : \A y \in IndicesOf(ControlTable, k) : x <= y
  BY <1>1, LeastNatural
<1>3. Min(IndicesOf(ControlTable, k)) \in IndicesOf(ControlTable, k)
  BY <1>2 DEF Min
<1> QED BY <1>1, <1>3

(* A call is appended under the frame in progress.                           *)
LEMMA TeeAppends ==
  ASSUME NEW rec \in Recorders, NEW call \in LiveCalls
  PROVE  /\ Tee(rec, call) =
              [rec EXCEPT !.records =
                 Append(@, RecordOf([frame |-> rec.frame, call |-> call]))]
         /\ RecordOf([frame |-> rec.frame, call |-> call]) \in Records
<1>0. call \in [op : {"button", "releaseAll", "dip"}, id : Nat, value : {0, 1}]
  BY DEF LiveCalls, InputCalls
<1>1. CASE call.op = "button"
  <2>1. call.id \in Keys /\ rec.table = ControlTable
    BY <1>1 DEF LiveCalls, InputCalls, Recorders
  <2>2. IndicesOf(rec.table, call.id) # {} /\ Min(IndicesOf(ControlTable, call.id)) \in Nat
    BY <2>1, MinOfIndices
  <2>3. Tee(rec, call) = PushRecord(rec, call.op, Min(IndicesOf(rec.table, call.id)), call.value)
    BY <1>1, <2>2 DEF Tee, PushEvent
  <2>4. RecordOf([frame |-> rec.frame, call |-> call]) =
          [frame |-> rec.frame, op |-> call.op,
           ctl |-> Min(IndicesOf(ControlTable, call.id)), value |-> call.value]
    BY <1>1 DEF RecordOf, ControlOps
  <2>5. rec.frame \in Nat
    BY DEF Recorders
  <2>6. RecordOf([frame |-> rec.frame, call |-> call]) \in Records
    BY <1>0, <2>2, <2>4, <2>5 DEF Records
  <2> QED BY <2>1, <2>3, <2>4, <2>6 DEF PushRecord
<1>2. CASE call.op # "button"
  <2>1. Tee(rec, call) = PushRecord(rec, call.op, call.id, call.value)
    BY <1>0, <1>2 DEF Tee, PushReleaseAll, PushDip, LiveCalls
  <2>2. RecordOf([frame |-> rec.frame, call |-> call]) =
          [frame |-> rec.frame, op |-> call.op, ctl |-> call.id, value |-> call.value]
    BY <1>0, <1>2 DEF RecordOf, ControlOps
  <2>3. rec.frame \in Nat
    BY DEF Recorders
  <2>4. RecordOf([frame |-> rec.frame, call |-> call]) \in Records
    BY <1>0, <2>2, <2>3 DEF Records
  <2> QED BY <2>1, <2>2, <2>4 DEF PushRecord
<1> QED BY <1>1, <1>2

(* Taping a call leaves the recorder typed.                                  *)
LEMMA TeeTyped ==
  ASSUME NEW rec \in Recorders, NEW call \in LiveCalls
  PROVE  Tee(rec, call) \in Recorders
<1> DEFINE r == RecordOf([frame |-> rec.frame, call |-> call])
<1>1. r \in Records /\ Tee(rec, call) = [rec EXCEPT !.records = Append(@, r)]
  BY TeeAppends
<1> HIDE DEF r
<1>2. Append(rec.records, r) \in Seq(Records)
  BY <1>1 DEF Recorders
<1> QED BY <1>1, <1>2 DEF Recorders

(* The recorder after a sequence of calls, call by call.                     *)
TapedSteps(rec, calls) ==
  {taped \in [0..Len(calls) -> Recorders] :
     /\ taped[0] = rec
     /\ \A i \in 1..Len(calls) : taped[i] = Tee(taped[i - 1], calls[i])
     /\ Taped(rec, calls) = taped[Len(calls)]}

(* Taped is what its recursion says: its steps exist.                        *)
LEMMA TapedRecursion ==
  ASSUME NEW rec \in Recorders, NEW calls \in Seq(LiveCalls)
  PROVE  TapedSteps(rec, calls) # {}
<1> DEFINE n == Len(calls)
           step == [i \in 1..n |-> [r \in Recorders |-> Tee(r, calls[i])]]
<1>0. n \in Nat /\ \A i \in 1..n : calls[i] \in LiveCalls
  OBVIOUS
<1>1. step \in BoundedSteps(n, Recorders)
  BY <1>0, TeeTyped DEF BoundedSteps
<1>2. PICK f \in [0..n -> Recorders] :
        f = [i \in 0..n |-> IF i = 0 THEN rec ELSE step[i][f[i - 1]]]
  <2> HIDE DEF step, n
  <2>1. BoundedSequels(n, Recorders, rec, step) # {}
    BY <1>0, <1>1, BoundedRecursion
  <2> QED BY <2>1 DEF BoundedSequels
<1>3. f = [i \in 0..n |-> IF i = 0 THEN rec ELSE Tee(f[i - 1], calls[i])]
  <2> SUFFICES ASSUME NEW i \in 0..n, i # 0
               PROVE  step[i][f[i - 1]] = Tee(f[i - 1], calls[i])
    BY <1>2
  <2>1. i \in 1..n /\ i - 1 \in 0..n /\ f[i - 1] \in Recorders
    BY <1>0
  <2> QED BY <2>1
<1> DEFINE p == CHOOSE p : p = [i \in 0..n |-> IF i = 0 THEN rec
                                               ELSE Tee(p[i - 1], calls[i])]
<1>4. p = [i \in 0..n |-> IF i = 0 THEN rec ELSE Tee(p[i - 1], calls[i])]
  <2> HIDE DEF n
  <2> QED BY <1>3
<1>5. Taped(rec, calls) = p[n]
  BY DEF Taped
<1> HIDE DEF p, n, step
<1>6. p[0] = rec /\ \A i \in 1..n : p[i] = Tee(p[i - 1], calls[i])
  <2>1. \A i \in 1..n : i \in 0..n /\ i # 0
    BY <1>0
  <2>2. 0 \in 0..n
    BY <1>0
  <2>3. \A i \in 0..n : p[i] = IF i = 0 THEN rec ELSE Tee(p[i - 1], calls[i])
    BY <1>4
  <2> QED BY <2>1, <2>2, <2>3
<1>7. \A i \in 0..n : i \in {j \in 0..n : p[j] \in Recorders}
  <2> DEFINE S == {j \in 0..n : p[j] \in Recorders}
  <2>1. 0 \in S
    BY <1>0, <1>6
  <2>2. ASSUME NEW i \in 1..n, i - 1 \in S PROVE i \in S
    BY <1>0, <1>6, <2>2, TeeTyped
  <2> HIDE DEF S
  <2>3. \A i \in 0..n : i \in S
    BY <1>0, <2>1, <2>2, BoundedInduction
  <2> QED BY <2>3 DEF S
<1>8. p \in [0..n -> Recorders]
  BY <1>4, <1>7
<1>9. p \in TapedSteps(rec, calls)
  BY <1>5, <1>6, <1>8 DEF TapedSteps, n
<1> QED BY <1>9

(* A sequence of calls is appended, in order, under the frame in progress.   *)
LEMMA TapedAppends ==
  ASSUME NEW rec \in Recorders, NEW calls \in Seq(LiveCalls)
  PROVE  /\ Taped(rec, calls) \in Recorders
         /\ Taped(rec, calls).frame = rec.frame
         /\ Taped(rec, calls).records =
              rec.records \o [i \in 1..Len(calls) |->
                                RecordOf([frame |-> rec.frame, call |-> calls[i]])]
<1> DEFINE n == Len(calls)
           R(i) == RecordOf([frame |-> rec.frame, call |-> calls[i]])
<1>0. n \in Nat /\ rec.records \in Seq(Records) /\ rec.frame \in Nat
  BY DEF Recorders
<1>1. PICK p \in TapedSteps(rec, calls) : TRUE
  BY TapedRecursion
<1>2. /\ p \in [0..n -> Recorders]
      /\ p[0] = rec /\ \A i \in 1..n : p[i] = Tee(p[i - 1], calls[i])
      /\ Taped(rec, calls) = p[n]
  BY <1>1 DEF TapedSteps
<1>3. \A i \in 1..n : calls[i] \in LiveCalls
  OBVIOUS
<1> HIDE DEF n
<1> DEFINE S == {i \in 0..n : /\ p[i].frame = rec.frame
                              /\ p[i].records = rec.records \o [j \in 1..i |-> R(j)]}
<1>4. \A i \in 1..n : R(i) \in Records
  BY <1>3, TeeAppends
<1> HIDE DEF R
<1>5. 0 \in S
  <2>1. [j \in 1..0 |-> R(j)] = << >>
    OBVIOUS
  <2> QED BY <1>0, <1>2, <2>1
<1>6. ASSUME NEW i \in 1..n, i - 1 \in S PROVE i \in S
  <2>1. i - 1 \in 0..n /\ i \in 0..n
    BY <1>0
  <2>2. p[i - 1] \in Recorders /\ p[i - 1].frame = rec.frame
        /\ p[i - 1].records = rec.records \o [j \in 1..(i - 1) |-> R(j)]
    BY <1>2, <1>6, <2>1
  <2>3. p[i] = [p[i - 1] EXCEPT !.records = Append(@, R(i))]
    BY <1>2, <1>3, <2>2, TeeAppends DEF R
  <2>4. p[i].frame = rec.frame /\ p[i].records = Append(p[i - 1].records, R(i))
    BY <2>2, <2>3 DEF Recorders
  <2>5. Append(rec.records \o [j \in 1..(i - 1) |-> R(j)], R(i))
          = rec.records \o [j \in 1..i |-> R(j)]
    <3> DEFINE s == [j \in 1..(i - 1) |-> R(j)]
               t == [j \in 1..i |-> R(j)]
    <3>1. s \in Seq(Records) /\ t \in Seq(Records) /\ Len(s) = i - 1 /\ Len(t) = i
      BY <1>0, <1>4
    <3>2. t = Append(s, R(i))
      BY <1>0, <1>4, <3>1
    <3> HIDE DEF s, t
    <3>3. Append(rec.records \o s, R(i)) = rec.records \o Append(s, R(i))
      <4> DEFINE r == rec.records
                 e == R(i)
      <4>1. r \in Seq(Records) /\ s \in Seq(Records) /\ e \in Records /\ r \o s \in Seq(Records)
        BY <1>0, <1>4, <3>1
      <4> HIDE DEF r, e
      <4>2. Append(r \o s, e) = (r \o s) \o <<e>> /\ Append(s, e) = s \o <<e>>
        BY <4>1, AppendIsConcat
      <4>3. <<e>> \in Seq(Records)
        BY <4>1
      <4>4. (r \o s) \o <<e>> = r \o (s \o <<e>>)
        BY <4>1, <4>3, ConcatAssociative
      <4> QED BY <4>2, <4>4 DEF r, e
    <3> QED BY <3>2, <3>3 DEF s, t
  <2> QED BY <2>1, <2>2, <2>4, <2>5
<1> HIDE DEF S
<1>7. n \in S
  <2>1. \A i \in 0..n : i \in S
    BY <1>0, <1>5, <1>6, BoundedInduction
  <2> QED BY <1>0, <2>1
<1>8. p[n] \in Recorders
  BY <1>0, <1>2
<1> QED BY <1>2, <1>7, <1>8 DEF S, R, n

-----------------------------------------------------------------------------
(* Movies and their players.                                                 *)

(* The first index outside a run of T, or the end.                           *)
LEMMA FirstOutside ==
  ASSUME NEW n \in Nat, NEW from \in 0..n, NEW T \in SUBSET (from + 1..n)
  PROVE  LET last == Min(T \cup {n + 1}) - 1 IN
         /\ last \in from..n
         /\ \A i \in T : last < i
         /\ last < n => last + 1 \in T
<1> DEFINE U == T \cup {n + 1}
<1>1. U \subseteq Nat /\ U # {}
  OBVIOUS
<1>2. \E x \in U : \A y \in U : x <= y
  BY <1>1, LeastNatural
<1>3. Min(U) \in U /\ \A y \in U : Min(U) <= y
  <2> HIDE DEF U
  <2> QED BY <1>2 DEF Min
<1> DEFINE x == Min(U)
<1>4. /\ x = n + 1 \/ x \in T
      /\ x \in from + 1..n + 1
      /\ \A y \in T : x <= y
  <2>1. x \in U /\ \A y \in U : x <= y
    BY <1>3
  <2> HIDE DEF x
  <2> QED BY <2>1
<1> HIDE DEF x
<1>5. /\ x - 1 \in from..n
      /\ \A i \in T : x - 1 < i
      /\ x - 1 < n => (x - 1) + 1 \in T
  BY <1>4
<1> QED BY <1>5 DEF x

(* What --movie has checked of a movie.                                      *)
LEMMA MovieFacts ==
  ASSUME NEW movie \in Movies
  PROVE  /\ movie.records \in Seq(Records) /\ movie.frames \in Nat
         /\ movie.dip \in Seq({0, 1}) /\ movie.dip # <<>>
         /\ Valid(movie) /\ Binds(movie, ControlTable)
BY LoopAssumption DEF LoopAssumption, PlayableMovie, Records

(* The players the loop holds.                                               *)
IsPlayer(player) ==
  /\ player \in [movie : Movies \cup {NoMovie}, cursor : Nat,
                 ids : {BindPlayer(player.movie, ControlTable).ids}]
  /\ player.cursor <= Len(player.movie.records)

(* The records a player hands out are those of a movie.                      *)
LEMMA PlayerRecords ==
  ASSUME NEW player, IsPlayer(player)
  PROVE  /\ player.movie.records \in Seq(Records)
         /\ Len(player.movie.records) \in Nat
         /\ player.cursor \in 0..Len(player.movie.records)
<1>1. player.movie.records \in Seq(Records)
  <2>1. CASE player.movie \in Movies
    BY <2>1, MovieFacts
  <2>2. CASE player.movie = NoMovie
    BY <2>2 DEF NoMovie
  <2> QED BY <2>1, <2>2 DEF IsPlayer
<1> QED BY <1>1 DEF IsPlayer

(* take_frame: where the cursor goes, and what it passes.                    *)
LEMMA SkipToBounds ==
  ASSUME NEW player, IsPlayer(player), NEW frame \in Nat
  PROVE  LET records == player.movie.records
             skip == SkipTo(player, frame) IN
         /\ skip \in player.cursor..Len(records)
         /\ \A i \in player.cursor + 1..Len(records) : i <= skip => records[i].frame < frame
         /\ skip < Len(records) => frame <= records[skip + 1].frame
<1> DEFINE records == player.movie.records
           n == Len(records)
           from == player.cursor
           T == {i \in from + 1..n : ~ (records[i].frame < frame)}
<1>1. n \in Nat /\ from \in 0..n /\ records \in Seq(Records)
  BY PlayerRecords
<1>2. \A i \in 1..n : records[i].frame \in Nat
  <2>1. \A i \in 1..n : records[i] \in Records
    BY <1>1
  <2> QED BY <2>1 DEF Records
<1>3. SkipTo(player, frame) = Min(T \cup {n + 1}) - 1
  BY DEF SkipTo, FirstNot
<1> DEFINE last == Min(T \cup {n + 1}) - 1
<1>4. /\ last \in from..n
      /\ \A i \in T : last < i
      /\ last < n => last + 1 \in T
  <2>1. T \in SUBSET (from + 1..n)
    OBVIOUS
  <2> HIDE DEF T, n, from
  <2> QED BY <1>1, <2>1, FirstOutside
<1>5. \A i \in from + 1..n : i <= last => records[i].frame < frame
  <2> SUFFICES ASSUME NEW i \in from + 1..n, i <= last PROVE i \notin T
    OBVIOUS
  <2> HIDE DEF T, last
  <2> QED BY <1>1, <1>4
<1>6. last < n => frame <= records[last + 1].frame
  <2> SUFFICES ASSUME last < n PROVE frame <= records[last + 1].frame
    OBVIOUS
  <2> HIDE DEF last
  <2>1. last + 1 \in 1..n
    BY <1>1, <1>4
  <2> QED BY <1>2, <1>4, <2>1
<1> HIDE DEF last
<1> QED BY <1>3, <1>4, <1>5, <1>6 DEF last

(* Taking a frame moves the cursor on, to the end at most.                   *)
LEMMA TakeToBounds ==
  ASSUME NEW player, IsPlayer(player), NEW frame \in Nat
  PROVE  LET records == player.movie.records
             skip == SkipTo(player, frame)
             end == TakeTo(player, frame) IN
         /\ end \in skip..Len(records)
         /\ \A i \in skip + 1..Len(records) : i <= end => records[i].frame = frame
         /\ end < Len(records) => records[end + 1].frame # frame
<1> DEFINE records == player.movie.records
           n == Len(records)
           from == SkipTo(player, frame)
           T == {i \in from + 1..n : ~ (records[i].frame = frame)}
<1>1. n \in Nat /\ records \in Seq(Records) /\ player.cursor \in 0..n
  BY PlayerRecords
<1>2. from \in 0..n
  BY <1>1, SkipToBounds
<1>3. TakeTo(player, frame) = Min(T \cup {n + 1}) - 1
  BY DEF TakeTo, FirstNot
<1> HIDE DEF from
<1> DEFINE last == Min(T \cup {n + 1}) - 1
<1>4. /\ last \in from..n
      /\ \A i \in T : last < i
      /\ last < n => last + 1 \in T
  <2>1. T \in SUBSET (from + 1..n)
    OBVIOUS
  <2> HIDE DEF T, n
  <2> QED BY <1>1, <1>2, <2>1, FirstOutside
<1>5. \A i \in from + 1..n : i <= last => records[i].frame = frame
  <2> SUFFICES ASSUME NEW i \in from + 1..n, i <= last PROVE i \notin T
    OBVIOUS
  <2> HIDE DEF T, last
  <2> QED BY <1>1, <1>2, <1>4
<1>6. last < n => records[last + 1].frame # frame
  <2> HIDE DEF last
  <2> QED BY <1>4
<1> HIDE DEF last
<1> QED BY <1>3, <1>4, <1>5, <1>6 DEF last, from

(* A control a movie names is one of the machine's.                          *)
LEMMA BoundIdIsKey ==
  ASSUME NEW movie \in Movies, NEW c \in DOMAIN movie.controls
  PROVE  BindPlayer(movie, ControlTable).ids[c] \in Keys
<1> DEFINE J == {j \in DOMAIN ControlTable : ControlTable[j].name = movie.controls[c]}
<1>1. J # {} /\ J \subseteq Nat
  <2>1. J # {}
    BY MovieFacts DEF Binds
  <2>2. DOMAIN ControlTable \subseteq Nat
    BY LoopAssumption DEF LoopAssumption
  <2> QED BY <2>1, <2>2
<1>2. Min(J) \in J
  <2> HIDE DEF J
  <2>1. \E x \in J : \A y \in J : x <= y
    BY <1>1, LeastNatural
  <2> QED BY <2>1 DEF Min
<1>3. BindPlayer(movie, ControlTable).ids[c] = ControlTable[Min(J)].id
  BY DEF BindPlayer
<1> QED BY <1>2, <1>3 DEF Keys

(* What a player hands out is input this machine takes.                      *)
LEMMA DeliveredTyped ==
  ASSUME NEW player, IsPlayer(player), player.movie \in Movies, NEW frame \in Nat
  PROVE  Delivered(player, frame) \in Seq(InputCalls)
<1> DEFINE records == player.movie.records
           skip == SkipTo(player, frame)
           end == TakeTo(player, frame)
           taken == SubSeq(records, skip + 1, end)
<1>1. /\ records \in Seq(Records) /\ Len(records) \in Nat
      /\ skip \in 0..Len(records) /\ end \in skip..Len(records)
  <2>1. records \in Seq(Records) /\ Len(records) \in Nat /\ player.cursor \in 0..Len(records)
    BY PlayerRecords
  <2>2. skip \in player.cursor..Len(records)
    BY SkipToBounds
  <2>3. end \in skip..Len(records)
    BY TakeToBounds
  <2> HIDE DEF skip, end, records
  <2> QED BY <2>1, <2>2, <2>3
<1> HIDE DEF skip, end
<1>2. ASSUME NEW i \in 1..Len(records) PROVE ToCall(player, records[i]) \in InputCalls
  <2> DEFINE r == records[i]
  <2>1. r \in Records
    BY <1>1
  <2>2. r \in ToSet(records)
    BY <1>1 DEF ToSet
  <2>3. r.op = "button" => r.ctl \in DOMAIN player.movie.controls
    BY <2>2, MovieFacts DEF Valid, ControlsInRange, ControlOps
  <2>4. r.op = "button" => player.ids[r.ctl] \in Keys
    BY <2>3, BoundIdIsKey DEF IsPlayer
  <2>5. r.op # "button" => r.op \notin ControlOps
    BY <2>1 DEF ControlOps, Records
  <2> HIDE DEF r
  <2> QED BY <2>1, <2>4, <2>5, KeysAreNumbers DEF ToCall, Call, InputCalls, Records, ControlOps, r
<1>3. /\ taken \in Seq(Records) /\ Len(taken) \in Nat
      /\ \A i \in 1..Len(taken) : taken[i] = records[skip + i] /\ skip + i \in 1..Len(records)
  BY <1>1
<1>4. Delivered(player, frame) = [i \in 1..Len(taken) |-> ToCall(player, taken[i])]
  BY <1>3 DEF Delivered, skip, end
<1>5. ASSUME NEW i \in 1..Len(taken) PROVE ToCall(player, taken[i]) \in InputCalls
  BY <1>2, <1>3
<1> HIDE DEF taken
<1> QED BY <1>3, <1>4, <1>5

-----------------------------------------------------------------------------
(* The typing of the flags.                                                  *)

(* The modes of the loop and what surrounds it.                              *)
ModesTyped ==
  /\ phase \in Phases
  /\ autoPaused \in BOOLEAN /\ recording \in BOOLEAN /\ replaying \in BOOLEAN
  /\ take \in {"Live", "Recording", "Replaying"} /\ bound \in BOOLEAN
  /\ executed \in BOOLEAN
  /\ request \in [hardReset : BOOLEAN, arm : {"none", "cli", "hotkey"},
                  pendingResync : BOOLEAN, needsResync : BOOLEAN]
  /\ devices \in [pressed : SUBSET Keys, focused : BOOLEAN]
  /\ disk \in [output : BOOLEAN, saveFile : BOOLEAN,
               armedBy : {"none", "cli", "hotkey"}, writtenBy : {"none", "cli", "hotkey"}]

(* What the user and the window do leaves the flags typed.                   *)
LEMMA ModesUser == ASSUME ModesTyped, UserStep PROVE ModesTyped'
<1> USE DEF ModesTyped, debugger, commands, movies, iteration, outside, bounds, history, Polling, Phases
<1>1. ASSUME NEW k \in Keys, NEW value \in {0, 1}, ControlMoves(k, value)
      PROVE  ModesTyped'
  BY <1>1 DEF ControlMoves
<1>2. CASE FocusLost
  <2>1. devices' \in [pressed : SUBSET Keys, focused : BOOLEAN]
    BY <1>2 DEF FocusLost
  <2> QED BY <1>2, <2>1 DEF FocusLost
<1>3. CASE FocusGained
  BY <1>3 DEF FocusGained
<1>31. CASE PadRemoved
  <2>1. PICK gone \in SUBSET devices.pressed : devices' = [devices EXCEPT !.pressed = @ \ gone]
    BY <1>31 DEF PadRemoved
  <2>2. devices' \in [pressed : SUBSET Keys, focused : BOOLEAN]
    BY <2>1
  <2>3. request' = [request EXCEPT !.needsResync = @ \/ ~ bound]
    BY <1>31 DEF PadRemoved
  <2>4. request' \in [hardReset : BOOLEAN, arm : {"none", "cli", "hotkey"},
                  pendingResync : BOOLEAN, needsResync : BOOLEAN]
    BY <2>3
  <2> QED BY <1>31, <2>2, <2>4 DEF PadRemoved
<1>32. CASE MouseUngrabbed
  BY <1>32 DEF MouseUngrabbed
<1>4. CASE TogglePanel
  BY <1>4 DEF TogglePanel
<1>5. ASSUME NEW name \in Hotkeys \cap UserCommands, Hotkey(name) PROVE ModesTyped'
  BY <1>5 DEF Hotkey
<1>6. CASE Quit
  <2>1. disk' = disk \/ disk' = [disk EXCEPT !.writtenBy = disk.armedBy]
    BY <1>6 DEF Quit, WrittenTo
  <2>2. disk' \in [output : BOOLEAN, saveFile : BOOLEAN,
               armedBy : {"none", "cli", "hotkey"}, writtenBy : {"none", "cli", "hotkey"}]
    BY <2>1
  <2>3. recording' \in BOOLEAN
    BY <1>6 DEF Quit
  <2> QED BY <1>6, <2>2, <2>3 DEF Quit
<1>7. ASSUME NEW kind, NEW name, NEW arg, Stage(kind, name, arg) PROVE ModesTyped'
  BY <1>7 DEF Stage
<1> QED
  BY <1>1, <1>2, <1>3, <1>31, <1>32, <1>4, <1>5, <1>6, <1>7
      DEF UserStep, StagePause, StagePoke, StageStep, StageWatchpoint, StageRemoval,
          StageDip

(* A step of the loop leaves the flags typed.                                *)
LEMMA ModesLoop == ASSUME ModesTyped, LoopTurn PROVE ModesTyped'
<1> USE DEF ModesTyped, debugger, commands, movies, iteration, outside, bounds, history, Phases, Draining
<1>1. CASE ServiceHardReset \/ ServiceArm \/ BeginIteration \/ EndPoll \/ Refuse \/ EndDrain \/ EndDraw
  <2>1. CASE ServiceHardReset
    <3>1. request' \in [hardReset : BOOLEAN, arm : {"none", "cli", "hotkey"},
                        pendingResync : BOOLEAN, needsResync : BOOLEAN]
      BY <2>1 DEF ServiceHardReset
    <3> QED BY <2>1, <3>1 DEF ServiceHardReset
  <2>2. CASE ServiceArm BY <2>2 DEF ServiceArm
  <2>3. CASE BeginIteration
    <3>1. request' \in [hardReset : BOOLEAN, arm : {"none", "cli", "hotkey"},
                        pendingResync : BOOLEAN, needsResync : BOOLEAN]
      BY <2>3 DEF BeginIteration
    <3>2. take' \in {"Live", "Recording", "Replaying"}
      BY <2>3 DEF BeginIteration, MovieMode
    <3> QED BY <2>3, <3>1, <3>2 DEF BeginIteration
  <2>4. CASE EndPoll \/ Refuse \/ EndDrain \/ EndDraw BY <2>4 DEF EndPoll, Refuse, EndDrain, EndDraw
  <2> QED BY <1>1, <2>1, <2>2, <2>3, <2>4
<1>2. CASE ResetSoft \/ ResetHard \/ MovieArm \/ MovieStop \/ TogglePause
  BY <1>2 DEF ResetSoft, ResetHard, MovieArm, MovieStop, TogglePause, WrittenTo
<1>3. ASSUME NEW name, ArmStep(name) PROVE ModesTyped'
  <2>1. UNCHANGED <<phase, recording, request, disk>> /\ autoPaused' \in BOOLEAN
    BY <1>3 DEF ArmStep
  <2>2. UNCHANGED <<replaying, take, bound, executed, devices>>
    BY <1>3 DEF ArmStep
  <2> QED BY <2>1, <2>2
<1>4. CASE SaveState \/ LoadState \/ SetWatchpoint \/ ClearWatchpoint \/ PokeMemory \/ SetDipOption
  BY <1>4 DEF SaveState, LoadState, SetWatchpoint, ClearWatchpoint, PokeMemory, SetDipOption
<1>5. CASE Resync \/ Deliver \/ AfterFrame \/ FinishPlayback
  BY <1>5 DEF Resync, Deliver, AfterFrame, FinishPlayback
<1>6. ASSUME NEW m, NEW d, NEW whole \in BOOLEAN, FrameEnds(m, d, whole) PROVE ModesTyped'
  BY <1>6 DEF FrameEnds
<1>7. CASE TickShortOfBoundary
  BY <1>7 DEF TickShortOfBoundary
<1> QED
  BY <1>1, <1>2, <1>3, <1>4, <1>5, <1>6, <1>7, LastTicks
     DEF LoopTurn, LoopStep, HoldClosed, RunClosed, HoldOpen, RefuseStepInTake, StepTicks,
          BreakAtFrame, RunInTake, BreakAtHit, BreakAtPc, RunTicked, StepFrameTicked

-----------------------------------------------------------------------------
(* The typing of the queue.                                                  *)

(* A queued command carries the argument its name calls for.                 *)
Queued ==
  {c \in [name : UserCommands, arg : {"none"} \cup {0, 1} \cup Watchpoints] :
     /\ c.name = "SetDipOption" => c.arg \in {0, 1}
     /\ c.name \in {"SetWatchpoint", "ClearWatchpoint"} => c.arg \in Watchpoints}
(* Commands queued or staged, as many as were submitted at most.             *)
QueueTyped ==
  /\ queue \in Seq(Queued)
  /\ staged \in [commands : Seq(Queued), memory : Seq(Queued), dip : Seq(Queued)]
  /\ Len(queue) + Len(staged.commands) + Len(staged.memory) + Len(staged.dip) <= submits
  /\ submits \in 0..MaxSubmits

(* A staged edit is a submission.                                            *)
LEMMA StageKeepsQueue ==
  ASSUME QueueTyped, NEW kind \in {"commands", "memory", "dip"}, NEW name, NEW arg,
         Command(name, arg) \in Queued, Stage(kind, name, arg)
  PROVE  QueueTyped'
<1> DEFINE c == Command(name, arg)
           s == Append(staged[kind], c)
<1>1. /\ queue' = queue /\ submits < MaxSubmits /\ submits' = submits + 1
      /\ staged' = [staged EXCEPT ![kind] = s]
  BY DEF Stage
<1>2. s \in Seq(Queued) /\ Len(s) = Len(staged[kind]) + 1
  BY DEF QueueTyped
<1> HIDE DEF s
<1>3. /\ queue \in Seq(Queued) /\ Len(queue) \in Nat
      /\ Len(staged.commands) \in Nat /\ Len(staged.memory) \in Nat /\ Len(staged.dip) \in Nat
  BY DEF QueueTyped
<1>4. MaxSubmits \in Nat
  BY LoopAssumption DEF LoopAssumption
<1>5. CASE kind = "commands"
  <2>1. /\ staged' \in [commands : Seq(Queued), memory : Seq(Queued), dip : Seq(Queued)]
        /\ staged'.commands = s /\ staged'.memory = staged.memory /\ staged'.dip = staged.dip
    BY <1>1, <1>2, <1>5 DEF QueueTyped
  <2> QED BY <1>1, <1>2, <1>3, <1>4, <1>5, <2>1 DEF QueueTyped
<1>6. CASE kind = "memory"
  <2>1. /\ staged' \in [commands : Seq(Queued), memory : Seq(Queued), dip : Seq(Queued)]
        /\ staged'.commands = staged.commands /\ staged'.memory = s /\ staged'.dip = staged.dip
    BY <1>1, <1>2, <1>6 DEF QueueTyped
  <2> QED BY <1>1, <1>2, <1>3, <1>4, <1>6, <2>1 DEF QueueTyped
<1>7. CASE kind = "dip"
  <2>1. /\ staged' \in [commands : Seq(Queued), memory : Seq(Queued), dip : Seq(Queued)]
        /\ staged'.commands = staged.commands /\ staged'.memory = staged.memory /\ staged'.dip = s
    BY <1>1, <1>2, <1>7 DEF QueueTyped
  <2> QED BY <1>1, <1>2, <1>3, <1>4, <1>7, <2>1 DEF QueueTyped
<1> QED BY <1>5, <1>6, <1>7

(* What the user does submits one command at most.                           *)
LEMMA QueueUser == ASSUME QueueTyped, UserStep PROVE QueueTyped'
<1> USE DEF commands, bounds
<1>1. ASSUME UNCHANGED <<queue, staged, submits>> PROVE QueueTyped'
  BY <1>1 DEF QueueTyped
<1>2. ASSUME NEW k \in Keys, NEW value \in {0, 1}, ControlMoves(k, value)
      PROVE  QueueTyped'
  BY <1>1, <1>2 DEF ControlMoves, Polling
<1>3. CASE FocusLost \/ FocusGained \/ PadRemoved \/ MouseUngrabbed \/ TogglePanel \/ Quit
  BY <1>1, <1>3 DEF FocusLost, FocusGained, PadRemoved, MouseUngrabbed, TogglePanel, Quit, Polling
<1>4. ASSUME NEW name \in Hotkeys \cap UserCommands, Hotkey(name) PROVE QueueTyped'
  <2>1. Command(name, "none") \in Queued
    BY DEF Command, Queued, Hotkeys
  <2>2. /\ queue' = Append(queue, Command(name, "none")) /\ staged' = staged
        /\ submits < MaxSubmits /\ submits' = submits + 1
    BY <1>4 DEF Hotkey, Polling
  <2>3. queue' \in Seq(Queued) /\ Len(queue') = Len(queue) + 1
    BY <2>1, <2>2 DEF QueueTyped
  <2>4. /\ queue \in Seq(Queued) /\ Len(queue) \in Nat
        /\ Len(staged.commands) \in Nat /\ Len(staged.memory) \in Nat /\ Len(staged.dip) \in Nat
        /\ MaxSubmits \in Nat
    BY LoopAssumption DEF QueueTyped, LoopAssumption
  <2> QED BY <2>2, <2>3, <2>4 DEF QueueTyped
<1>5. CASE StagePause \/ StagePoke
  <2>1. CASE StagePause
    <3>1. Command("TogglePause", "none") \in Queued
      BY <2>1 DEF StagePause, Stage, Command, Queued
    <3> QED BY <2>1, <3>1, StageKeepsQueue DEF StagePause
  <2>2. CASE StagePoke
    <3>1. Command("PokeMemory", "none") \in Queued
      BY <2>2 DEF StagePoke, Stage, Command, Queued
    <3> QED BY <2>2, <3>1, StageKeepsQueue DEF StagePoke
  <2> QED BY <1>5, <2>1, <2>2
<1>6. ASSUME NEW name \in SubFrameSteps \cup {"StepFrame"}, StageStep(name)
      PROVE  QueueTyped'
  <2>1. Command(name, "none") \in Queued
    BY <1>6 DEF StageStep, Stage, Command, Queued, SubFrameSteps
  <2> QED BY <1>6, <2>1, StageKeepsQueue DEF StageStep
<1>7. ASSUME NEW w \in Watchpoints, StageWatchpoint(w) \/ StageRemoval(w)
      PROVE  QueueTyped'
  <2>1. CASE StageWatchpoint(w)
    <3>1. Command("SetWatchpoint", w) \in Queued
      BY <2>1 DEF StageWatchpoint, Stage, Command, Queued
    <3> QED BY <2>1, <3>1, StageKeepsQueue DEF StageWatchpoint
  <2>2. CASE StageRemoval(w)
    <3>1. Command("ClearWatchpoint", w) \in Queued
      BY <2>2 DEF StageRemoval, Stage, Command, Queued
    <3> QED BY <2>2, <3>1, StageKeepsQueue DEF StageRemoval
  <2> QED BY <1>7, <2>1, <2>2
<1>8. ASSUME NEW value \in {0, 1}, StageDip(value) PROVE QueueTyped'
  <2>1. Command("SetDipOption", value) \in Queued
    BY <1>8 DEF StageDip, Stage, Command, Queued
  <2> QED BY <1>8, <2>1, StageKeepsQueue DEF StageDip
<1> QED
  BY <1>2, <1>3, <1>4, <1>5, <1>6, <1>7, <1>8 DEF UserStep

(* What the drain takes off the queue leaves it well formed.                 *)
LEMMA TailKeepsQueue ==
  ASSUME QueueTyped, queue # <<>>, queue' = Tail(queue), staged' = staged, submits' = submits
  PROVE  QueueTyped'
<1>1. queue' \in Seq(Queued) /\ Len(queue') = Len(queue) - 1 /\ Len(queue) \in Nat
  BY DEF QueueTyped
<1>2. Len(staged.commands) \in Nat /\ Len(staged.memory) \in Nat /\ Len(staged.dip) \in Nat
  BY DEF QueueTyped
<1> QED BY <1>1, <1>2 DEF QueueTyped

(* The loop drains commands and moves the staged ones to the queue.          *)
LEMMA QueueLoop == ASSUME QueueTyped, LoopTurn PROVE QueueTyped'
<1> USE DEF commands, bounds
<1>1. ASSUME UNCHANGED <<queue, staged, submits>> PROVE QueueTyped'
  BY <1>1 DEF QueueTyped
<1>2. ASSUME NEW name, Draining(name) PROVE QueueTyped'
  BY <1>2, TailKeepsQueue DEF Draining
<1>3. CASE Refuse
  BY <1>3, TailKeepsQueue DEF Refuse
<1>4. CASE EndPoll
  <2> DEFINE c == staged.commands
             m == staged.memory
             d == staged.dip
  <2>1. /\ queue' = queue \o c \o m \o d /\ staged' = NoStaged
        /\ submits' = submits
    BY <1>4 DEF EndPoll
  <2>2. queue \in Seq(Queued) /\ c \in Seq(Queued) /\ m \in Seq(Queued) /\ d \in Seq(Queued)
    BY DEF QueueTyped
  <2> HIDE DEF c, m, d
  <2>3. /\ queue' \in Seq(Queued)
        /\ Len(queue') = Len(queue) + Len(c) + Len(m) + Len(d)
    BY <2>1, <2>2
  <2>4. /\ staged' \in [commands : Seq(Queued), memory : Seq(Queued), dip : Seq(Queued)]
        /\ staged'.commands = <<>> /\ staged'.memory = <<>> /\ staged'.dip = <<>>
    BY <2>1 DEF NoStaged
  <2> QED BY <2>1, <2>2, <2>3, <2>4 DEF QueueTyped, c, m, d
<1>5. CASE ServiceHardReset \/ ServiceArm \/ BeginIteration \/ EndDrain \/ EndDraw
  BY <1>1, <1>5 DEF ServiceHardReset, ServiceArm, BeginIteration, EndDrain, EndDraw
<1>6. CASE ResetSoft \/ ResetHard \/ MovieArm \/ MovieStop \/ TogglePause
  BY <1>2, <1>6 DEF ResetSoft, ResetHard, MovieArm, MovieStop, TogglePause
<1>7. ASSUME NEW name, ArmStep(name) PROVE QueueTyped'
  BY <1>2, <1>7 DEF ArmStep
<1>8. CASE SaveState \/ LoadState \/ SetWatchpoint \/ ClearWatchpoint \/ PokeMemory \/ SetDipOption
  BY <1>2, <1>8 DEF SaveState, LoadState, SetWatchpoint, ClearWatchpoint, PokeMemory, SetDipOption
<1>9. CASE Resync \/ Deliver \/ AfterFrame \/ FinishPlayback
  BY <1>1, <1>9 DEF Resync, Deliver, AfterFrame, FinishPlayback
<1>10. ASSUME NEW m, NEW d, NEW whole, FrameEnds(m, d, whole) PROVE QueueTyped'
  BY <1>1, <1>10 DEF FrameEnds
<1>11. CASE TickShortOfBoundary
  BY <1>1, <1>11 DEF TickShortOfBoundary
<1> QED
  BY <1>3, <1>4, <1>5, <1>6, <1>7, <1>8, <1>9, <1>10, <1>11, LastTicks
     DEF LoopTurn, LoopStep, HoldClosed, RunClosed, HoldOpen, RefuseStepInTake, StepTicks, BreakAtFrame,
         RunInTake, BreakAtHit, BreakAtPc, RunTicked, StepFrameTicked

-----------------------------------------------------------------------------
(* The typing of the playback.                                               *)

-----------------------------------------------------------------------------
(* The playback.                                                             *)

(* A player of a movie, whose frames are counted past its end by one.        *)
PlaybackTyped ==
  /\ playback \in [player : {playback.player}, frame : Nat, total : Nat]
  /\ IsPlayer(playback.player)
  /\ playback.total = playback.player.movie.frames
  /\ replaying => playback.player.movie \in Movies
  /\ replaying => playback.frame <= playback.total + (IF phase = "finish" THEN 1 ELSE 0)

(* Steps that leave the playback alone may only stop the replay, and only    *)
(* finishing the frame leaves the finish phase.                              *)
LEMMA PlaybackKept ==
  ASSUME PlaybackTyped, playback' = playback, replaying' => replaying,
         phase # "finish" \/ phase' = "finish" \/ ~ replaying'
  PROVE  PlaybackTyped'
<1>1. PlaybackTyped' <=>
        /\ playback \in [player : {playback.player}, frame : Nat, total : Nat]
        /\ IsPlayer(playback.player)
        /\ playback.total = playback.player.movie.frames
        /\ replaying' => playback.player.movie \in Movies
        /\ replaying' => playback.frame <= playback.total + (IF phase' = "finish" THEN 1 ELSE 0)
  BY DEF PlaybackTyped, IsPlayer
<1>2. playback.frame \in Nat /\ playback.total \in Nat
  BY DEF PlaybackTyped
<1>3. ASSUME replaying'
      PROVE  playback.frame <= playback.total + (IF phase' = "finish" THEN 1 ELSE 0)
  <2>1. phase # "finish" \/ phase' = "finish"
    BY <1>3
  <2>2. playback.frame <= playback.total + (IF phase = "finish" THEN 1 ELSE 0)
    BY <1>3 DEF PlaybackTyped
  <2> QED BY <1>2, <2>1, <2>2
<1>4. /\ playback \in [player : {playback.player}, frame : Nat, total : Nat]
      /\ IsPlayer(playback.player)
      /\ playback.total = playback.player.movie.frames
      /\ replaying' => playback.player.movie \in Movies
  BY DEF PlaybackTyped
<1> QED BY <1>1, <1>3, <1>4

(* The user does not touch the playback.                                     *)
LEMMA PlaybackUser == ASSUME PlaybackTyped, UserStep PROVE PlaybackTyped'
<1>1. playback' = playback /\ replaying' = replaying
  BY DEF UserStep, ControlMoves, FocusLost, FocusGained, PadRemoved, MouseUngrabbed,
         TogglePanel, Hotkey, Quit, StagePause, StagePoke, StageStep, StageWatchpoint,
         StageRemoval, StageDip, Stage, Polling, movies
<1>2. phase # "finish"
  BY DEF UserStep, ControlMoves, FocusLost, FocusGained, PadRemoved, MouseUngrabbed,
         TogglePanel, Hotkey, Quit, StagePause, StagePoke, StageStep, StageWatchpoint,
         StageRemoval, StageDip, Stage, Polling
<1> QED BY <1>1, <1>2, PlaybackKept

(* Delivering a frame moves the cursor only.                                 *)
LEMMA DeliverKeepsPlayback == ASSUME PlaybackTyped, Deliver PROVE PlaybackTyped'
<1>0. phase = "deliver" /\ phase' = "frame" /\ replaying' = replaying
  BY DEF Deliver
<1>1. CASE ~ replaying
  BY <1>0, <1>1, PlaybackKept DEF Deliver
<1>2. CASE replaying
  <2> DEFINE player == playback.player
             frame == playback.frame
             end == TakeTo(player, frame)
  <2>1. playback' = [playback EXCEPT !.player = [player EXCEPT !.cursor = end]]
    BY <1>2 DEF Deliver, TakeFrame
  <2>2. IsPlayer(player) /\ frame \in Nat
    BY DEF PlaybackTyped
  <2>3. end \in 0..Len(player.movie.records)
    <3>1. player.cursor \in 0..Len(player.movie.records) /\ Len(player.movie.records) \in Nat
      BY <2>2, PlayerRecords
    <3>2. SkipTo(player, frame) \in player.cursor..Len(player.movie.records)
      BY <2>2, SkipToBounds
    <3>3. end \in SkipTo(player, frame)..Len(player.movie.records)
      BY <2>2, TakeToBounds
    <3> HIDE DEF end, player, frame
    <3> QED BY <3>1, <3>2, <3>3
  <2> HIDE DEF end
  <2> DEFINE moved == [player EXCEPT !.cursor = end]
  <2>4. moved.movie = player.movie /\ moved.ids = player.ids /\ moved.cursor = end
    BY <2>2 DEF IsPlayer
  <2>5. moved \in [movie : Movies \cup {NoMovie}, cursor : Nat,
                   ids : {BindPlayer(player.movie, ControlTable).ids}]
    BY <2>2, <2>3 DEF IsPlayer
  <2>6. IsPlayer(moved)
    <3> HIDE DEF moved, player
    <3> QED BY <2>2, <2>3, <2>4, <2>5 DEF IsPlayer
  <2>7. /\ playback'.player = moved /\ playback'.frame = playback.frame
        /\ playback'.total = playback.total
        /\ playback' \in [player : {moved}, frame : Nat, total : Nat]
    <3> HIDE DEF moved
    <3>1. playback' = [playback EXCEPT !.player = moved]
      BY <2>1 DEF moved
    <3> QED BY <3>1 DEF PlaybackTyped
  <2>8. /\ playback.total = moved.movie.frames
        /\ replaying => moved.movie \in Movies
        /\ replaying => playback.frame <= playback.total
    <3>1. playback.frame \in Nat /\ playback.total \in Nat
      BY DEF PlaybackTyped
    <3> HIDE DEF moved
    <3> QED BY <1>0, <2>4, <3>1 DEF PlaybackTyped
  <2> HIDE DEF moved
  <2>9. /\ playback'.total = playback'.player.movie.frames
        /\ replaying' => playback'.player.movie \in Movies
        /\ replaying' => playback'.frame <= playback'.total
        /\ playback'.total \in Nat
        /\ playback' \in [player : {playback'.player}, frame : Nat, total : Nat]
    BY <1>0, <2>7, <2>8 DEF PlaybackTyped
  <2>10. IsPlayer(playback.player)'
    <3>1. IsPlayer(playback.player)' <=> IsPlayer(playback'.player)
      BY DEF IsPlayer
    <3> QED BY <2>6, <2>7, <3>1
  <2> QED BY <1>0, <2>9, <2>10 DEF PlaybackTyped
<1> QED BY <1>1, <1>2

(* A frame is counted before the end, and the count checked next.            *)
LEMMA AfterFrameKeepsPlayback == ASSUME PlaybackTyped, AfterFrame PROVE PlaybackTyped'
<1>0. phase = "after" /\ phase' = "finish" /\ replaying' = replaying
  BY DEF AfterFrame
<1>1. CASE ~ (executed /\ replaying)
  BY <1>0, <1>1, PlaybackKept DEF AfterFrame
<1>2. CASE executed /\ replaying
  <2> DEFINE next == playback.frame + 1
  <2>1. playback' = [playback EXCEPT !.frame = next]
    BY <1>2 DEF AfterFrame
  <2>2. playback.frame \in Nat /\ playback.total \in Nat /\ playback.frame <= playback.total
    BY <1>0, <1>2 DEF PlaybackTyped
  <2>3. next \in Nat /\ next <= playback.total + 1
    BY <2>2
  <2> HIDE DEF next
  <2>4. /\ playback'.player = playback.player /\ playback'.frame = next
        /\ playback'.total = playback.total
        /\ playback' \in [player : {playback.player}, frame : Nat, total : Nat]
    BY <2>1, <2>3 DEF PlaybackTyped
  <2>5. IsPlayer(playback.player)'
    BY <2>4 DEF PlaybackTyped, IsPlayer
  <2> QED BY <1>0, <2>3, <2>4, <2>5 DEF PlaybackTyped
<1> QED BY <1>1, <1>2

(* A step of the loop keeps the playback typed.                              *)
LEMMA PlaybackLoop == ASSUME PlaybackTyped, LoopTurn PROVE PlaybackTyped'
<1> USE DEF movies
<1>1. CASE Deliver
  BY <1>1, DeliverKeepsPlayback
<1>2. CASE AfterFrame
  BY <1>2, AfterFrameKeepsPlayback
<1>3. CASE FinishPlayback
  <2>1. playback' = playback /\ (replaying' => replaying)
        /\ (~ replaying' \/ ~ Finished)
    BY <1>3 DEF FinishPlayback
  <2>2. CASE ~ replaying'
    BY <2>1, <2>2, PlaybackKept
  <2>3. CASE replaying'
    <3>1. ~ Finished /\ replaying' = replaying
      BY <1>3, <2>1, <2>3 DEF FinishPlayback
    <3>2. playback.frame \in Nat /\ playback.total \in Nat
      BY DEF PlaybackTyped
    <3>3. playback.frame <= playback.total
      BY <3>1, <3>2 DEF Finished
    <3>4. playback.frame <= playback.total + (IF phase' = "finish" THEN 1 ELSE 0)
      BY <3>2, <3>3
    <3>5. IsPlayer(playback.player)'
      BY <2>1 DEF PlaybackTyped, IsPlayer
    <3> QED BY <2>1, <3>1, <3>4, <3>5 DEF PlaybackTyped
  <2> QED BY <2>2, <2>3
<1>4. ASSUME NEW name, Draining(name) PROVE playback' = playback /\ replaying' = replaying /\ phase # "finish"
  BY <1>4 DEF Draining
<1>5. CASE ServiceHardReset \/ ServiceArm \/ BeginIteration \/ EndPoll \/ Refuse \/ EndDrain \/ EndDraw \/ Resync
  <2>1. playback' = playback /\ replaying' = replaying /\ phase # "finish"
    BY <1>5 DEF ServiceHardReset, ServiceArm, BeginIteration, EndPoll, Refuse, EndDrain, EndDraw, Resync
  <2> QED BY <2>1, PlaybackKept
<1>6. CASE ResetSoft \/ ResetHard \/ MovieArm \/ MovieStop \/ TogglePause
  BY <1>4, <1>6, PlaybackKept DEF ResetSoft, ResetHard, MovieArm, MovieStop, TogglePause
<1>7. ASSUME NEW name, ArmStep(name) PROVE PlaybackTyped'
  BY <1>4, <1>7, PlaybackKept DEF ArmStep
<1>8. CASE SaveState \/ LoadState \/ SetWatchpoint \/ ClearWatchpoint \/ PokeMemory \/ SetDipOption
  BY <1>4, <1>8, PlaybackKept DEF SaveState, LoadState, SetWatchpoint, ClearWatchpoint, PokeMemory, SetDipOption
<1>10. ASSUME NEW m, NEW d, NEW whole, FrameEnds(m, d, whole) PROVE PlaybackTyped'
  BY <1>10, PlaybackKept DEF FrameEnds
<1>11. CASE TickShortOfBoundary
  BY <1>11, PlaybackKept DEF TickShortOfBoundary
<1> QED
  BY <1>1, <1>2, <1>3, <1>5, <1>6, <1>7, <1>8, <1>10, <1>11, LastTicks
     DEF LoopTurn, LoopStep, HoldClosed, RunClosed, HoldOpen, RefuseStepInTake, StepTicks, BreakAtFrame,
         RunInTake, BreakAtHit, BreakAtPc, RunTicked, StepFrameTicked

-----------------------------------------------------------------------------
(* The typing of the machine, the debugger and the take.                     *)

-----------------------------------------------------------------------------
(* The debug state and the machine.                                          *)

DebugStates == [active : BOOLEAN, mode : RunModes, watch : SUBSET Watchpoints,
                dirty : BOOLEAN, suspended : BOOLEAN]

(* Updates of the debug state keep its type.                                 *)
LEMMA DebugUpdates ==
  ASSUME NEW d \in DebugStates
  PROVE  /\ \A mode \in RunModes : [d EXCEPT !.mode = mode] \in DebugStates
         /\ \A b \in BOOLEAN : [d EXCEPT !.dirty = b] \in DebugStates
         /\ \A b \in BOOLEAN, c \in BOOLEAN :
              [d EXCEPT !.suspended = b, !.dirty = c] \in DebugStates
         /\ \A b \in BOOLEAN, mode \in RunModes :
              [d EXCEPT !.active = b, !.mode = mode] \in DebugStates
         /\ \A w \in SUBSET Watchpoints, b \in BOOLEAN :
              [d EXCEPT !.watch = w, !.dirty = b] \in DebugStates
         /\ Holding(d) \in DebugStates
BY DEF DebugStates, Holding, RunModes

(* Updates of the machine keep its type.                                     *)
LEMMA MachineUpdates ==
  ASSUME NEW m \in Machines
  PROVE  /\ \A h \in SUBSET Keys : [m EXCEPT !.held = h] \in Machines
         /\ \A x \in SUBSET Watchpoints : [m EXCEPT !.hits = x] \in Machines
         /\ \A w \in SUBSET Watchpoints, x \in SUBSET Watchpoints :
              [m EXCEPT !.watch = w, !.hits = x] \in Machines
         /\ FreshMachine(m.dip) \in Machines
         /\ HitsAdded(m) \subseteq Machines
<1>1. HitsAdded(m) \subseteq Machines
  <2> SUFFICES ASSUME NEW new \in SUBSET m.watch
               PROVE  [m EXCEPT !.hits = @ \cup new] \in Machines
    BY DEF HitsAdded
  <2> DEFINE x == m.hits \cup new
  <2>1. x \in SUBSET Watchpoints
    BY DEF Machines
  <2> HIDE DEF x
  <2>2. [m EXCEPT !.hits = x] \in Machines
    BY <2>1 DEF Machines
  <2> QED BY <2>2 DEF x
<1> QED BY <1>1 DEF Machines, FreshMachine

(* Syncing the watchpoints keeps both types.                                 *)
LEMMA SyncedTyped ==
  ASSUME machine \in Machines, debug \in DebugStates
  PROVE  SyncedMachine \in Machines /\ SyncedDebug \in DebugStates
<1>1. SyncedDebug \in DebugStates
  <2> DEFINE b == debug.dirty /\ debug.suspended
  <2>1. SyncedDebug = [debug EXCEPT !.dirty = b] /\ b \in BOOLEAN
    BY DEF SyncedDebug
  <2> HIDE DEF b
  <2> QED BY <2>1, DebugUpdates
<1>2. SyncedMachine \in Machines
  <2>1. debug.watch \in SUBSET Watchpoints /\ {} \in SUBSET Watchpoints
    BY DEF DebugStates
  <2>2. [machine EXCEPT !.watch = debug.watch, !.hits = {}] \in Machines
    BY <2>1, MachineUpdates
  <2> QED BY <2>2 DEF SyncedMachine
<1> QED BY <1>1, <1>2

(* What a frame leaves.                                                      *)
LEMMA FramesTyped ==
  ASSUME machine \in Machines, debug \in DebugStates,
         HoldClosed \/ RunClosed \/ HoldOpen \/ RefuseStepInTake \/ StepTicks \/ BreakAtFrame
           \/ RunInTake \/ BreakAtHit \/ BreakAtPc \/ RunTicked \/ StepFrameTicked
           \/ TickShortOfBoundary
  PROVE  machine' \in Machines /\ debug' \in DebugStates
<1>1. SyncedMachine \in Machines /\ SyncedDebug \in DebugStates
  BY SyncedTyped
<1>2. /\ Holding(debug) \in DebugStates /\ Holding(SyncedDebug) \in DebugStates
      /\ HitsAdded(machine) \subseteq Machines /\ HitsAdded(SyncedMachine) \subseteq Machines
      /\ [SyncedMachine EXCEPT !.hits = {}] \in Machines
  BY <1>1, DebugUpdates, MachineUpdates
<1>3. ASSUME NEW m \in Machines, NEW d \in DebugStates, NEW whole, FrameEnds(m, d, whole)
      PROVE  machine' \in Machines /\ debug' \in DebugStates
  BY <1>3 DEF FrameEnds
<1>4. CASE HoldClosed
  BY <1>2, <1>3, <1>4 DEF HoldClosed
<1>5. CASE RunClosed
  <2>1. PICK m \in HitsAdded(machine) :
       FrameEnds(m, IF debug.mode = "StepFrame" THEN Holding(debug) ELSE debug, TRUE)
    BY <1>5 DEF RunClosed
  <2> QED BY <1>2, <1>3, <2>1
<1>6. CASE HoldOpen \/ RefuseStepInTake \/ BreakAtFrame \/ RunTicked
  BY <1>1, <1>2, <1>3, <1>6 DEF HoldOpen, RefuseStepInTake, BreakAtFrame, RunTicked
<1>7. CASE StepTicks \/ BreakAtHit \/ StepFrameTicked
  <2> DEFINE m == [SyncedMachine EXCEPT !.hits = {}]
  <2>1. m \in Machines
    BY <1>2
  <2>2. FrameEnds(m, Holding(SyncedDebug), FALSE) \/ FrameEnds(m, Holding(SyncedDebug), TRUE)
    BY <1>7 DEF StepTicks, BreakAtHit, StepFrameTicked
  <2> HIDE DEF m
  <2> QED BY <1>2, <1>3, <2>1, <2>2
<1>8. CASE RunInTake
  <2>1. PICK m \in HitsAdded(SyncedMachine) :
       FrameEnds(m, IF debug.mode = "StepFrame" THEN Holding(SyncedDebug)
                    ELSE SyncedDebug, TRUE)
    BY <1>8 DEF RunInTake
  <2> QED BY <1>1, <1>2, <1>3, <2>1
<1>9. CASE BreakAtPc
  <2>1. PICK m \in HitsAdded(SyncedMachine) : FrameEnds(m, Holding(SyncedDebug), FALSE)
    BY <1>9 DEF BreakAtPc
  <2> QED BY <1>1, <1>2, <1>3, <2>1
<1>10. CASE TickShortOfBoundary
  BY <1>1, <1>2, <1>10 DEF TickShortOfBoundary
<1> QED BY <1>4, <1>5, <1>6, <1>7, <1>8, <1>9, <1>10

(* What the user and the window do keeps the debug state typed.              *)
LEMMA DebugUser ==
  ASSUME debug \in DebugStates, autoPaused \in BOOLEAN, UserStep
  PROVE  debug' \in DebugStates
<1>1. CASE TogglePanel
  <2> DEFINE open == ~ debug.active
             mode == IF open THEN "Paused" ELSE IF autoPaused THEN "Running" ELSE debug.mode
  <2>1. debug' = [debug EXCEPT !.active = open, !.mode = mode]
    BY <1>1 DEF TogglePanel
  <2>2. open \in BOOLEAN /\ mode \in RunModes
    BY DEF DebugStates, RunModes
  <2> HIDE DEF open, mode
  <2> QED BY <2>1, <2>2, DebugUpdates
<1>2. CASE ~ TogglePanel
  <2>1. debug' = debug
    BY <1>2 DEF UserStep, ControlMoves, FocusLost, FocusGained, PadRemoved, MouseUngrabbed,
         Hotkey, Quit, StagePause, StagePoke, StageStep, StageWatchpoint,
         StageRemoval, StageDip, Stage, debugger
  <2> QED BY <2>1
<1> QED BY <1>1, <1>2

(* So does suspending the watchpoints.                                       *)
LEMMA SuspendTyped ==
  ASSUME machine \in Machines, debug \in DebugStates, NEW mode, SuspendFor(mode)
  PROVE  machine' \in Machines /\ debug' \in DebugStates
<1>1. CASE mode # "Live" /\ ~ debug.suspended
  <2>1. [debug EXCEPT !.suspended = TRUE] \in DebugStates
    BY DEF DebugStates
  <2>2. {} \in SUBSET Watchpoints
    OBVIOUS
  <2>3. [machine EXCEPT !.watch = {}, !.hits = {}] \in Machines
    BY <2>2, MachineUpdates
  <2> QED BY <1>1, <2>1, <2>3 DEF SuspendFor
<1>2. CASE ~ (mode # "Live" /\ ~ debug.suspended)
  <2> DEFINE s == mode # "Live"
             b == debug.dirty \/ (mode = "Live" /\ debug.suspended)
  <2>1. machine' = machine /\ debug' = [debug EXCEPT !.suspended = s, !.dirty = b]
    BY <1>2 DEF SuspendFor
  <2>2. s \in BOOLEAN /\ b \in BOOLEAN
    BY DEF DebugStates
  <2> HIDE DEF s, b
  <2> QED BY <2>1, <2>2, DebugUpdates
<1> QED BY <1>1, <1>2

(* So does editing the list of watchpoints.                                  *)
LEMMA ListTyped ==
  ASSUME debug \in DebugStates, QueueTyped, SetWatchpoint \/ ClearWatchpoint
  PROVE  debug' \in DebugStates
<1>0. Head(queue) \in Queued
  <2>1. queue # <<>> /\ queue \in Seq(Queued)
    BY DEF SetWatchpoint, ClearWatchpoint, Draining, QueueTyped
  <2> QED BY <2>1
<1> DEFINE w == Head(queue).arg
<1>1. w \in Watchpoints
  BY <1>0 DEF SetWatchpoint, ClearWatchpoint, Draining, Queued
<1>2. CASE SetWatchpoint
  <2> DEFINE watch == debug.watch \cup {w}
             b == debug.dirty \/ w \notin debug.watch
  <2>1. debug' = [debug EXCEPT !.watch = watch, !.dirty = b]
    BY <1>2 DEF SetWatchpoint
  <2>2. watch \in SUBSET Watchpoints /\ b \in BOOLEAN
    BY <1>1 DEF DebugStates
  <2> HIDE DEF watch, b
  <2> QED BY <2>1, <2>2, DebugUpdates
<1>3. CASE ClearWatchpoint
  <2> DEFINE watch == debug.watch \ {w}
  <2>1. debug' = [debug EXCEPT !.watch = watch, !.dirty = TRUE]
    BY <1>3 DEF ClearWatchpoint
  <2>2. watch \in SUBSET Watchpoints /\ TRUE \in BOOLEAN
    BY DEF DebugStates
  <2> HIDE DEF watch
  <2> QED BY <2>1, <2>2, DebugUpdates
<1> QED BY <1>2, <1>3

(* So does every step of the loop.                                           *)
LEMMA DebugLoop ==
  ASSUME machine \in Machines, debug \in DebugStates, QueueTyped, LoopTurn
  PROVE  debug' \in DebugStates
<1> USE DEF debugger
<1>1. CASE ServiceHardReset \/ ServiceArm
  <2>1. debug' = [debug EXCEPT !.dirty = TRUE]
    BY <1>1 DEF ServiceHardReset, ServiceArm
  <2> QED BY <2>1, DebugUpdates
<1>2. CASE BeginIteration
  BY <1>2, SuspendTyped DEF BeginIteration
<1>3. CASE TogglePause
  <2> DEFINE mode == IF debug.mode = "Running" THEN "Paused" ELSE "Running"
  <2>1. debug' = [debug EXCEPT !.mode = mode] /\ mode \in RunModes
    BY <1>3 DEF TogglePause, RunModes
  <2> HIDE DEF mode
  <2> QED BY <2>1, DebugUpdates
<1>4. ASSUME NEW name \in SubFrameSteps \cup {"StepFrame", "AdvanceFrame"}, ArmStep(name)
      PROVE  debug' \in DebugStates
  <2>1. debug' = [debug EXCEPT !.mode = StepMode(name)] /\ StepMode(name) \in RunModes
    BY <1>4 DEF ArmStep, StepMode, RunModes, SubFrameSteps
  <2> QED BY <2>1, DebugUpdates
<1>5. CASE SetWatchpoint \/ ClearWatchpoint
  BY <1>5, ListTyped
<1>6. CASE EndPoll \/ Refuse \/ ResetSoft \/ ResetHard \/ MovieArm \/ MovieStop \/ SaveState
           \/ LoadState \/ PokeMemory \/ SetDipOption \/ EndDrain \/ Resync \/ Deliver
           \/ AfterFrame \/ FinishPlayback \/ EndDraw
  BY <1>6 DEF EndPoll, Refuse, ResetSoft, ResetHard, MovieArm, MovieStop, SaveState,
       LoadState, PokeMemory, SetDipOption, EndDrain, Resync, Deliver, AfterFrame,
       FinishPlayback, EndDraw
<1> QED BY <1>1, <1>2, <1>3, <1>4, <1>5, <1>6, FramesTyped, LastTicks
     DEF LoopTurn, LoopStep

-----------------------------------------------------------------------------
(* The machine's controls, the recorder and the history.                     *)

LoggedCalls == [op : {"button", "releaseAll", "dip", "outside"}, id : Nat, value : {0, 1}]
Entries == [frame : Nat, call : LoggedCalls]
(* The machine, the recorder and the history of a take.                      *)
WorldTyped ==
  /\ machine \in Machines
  /\ recorder \in Recorders
  /\ log \in Seq(Entries) /\ ran \in Nat

(* Calls are logged under the frame the machine has reached.                 *)
LEMMA LogTyped ==
  ASSUME log \in Seq(Entries), ran \in Nat,
         NEW calls \in Seq(LoggedCalls),
         Log(calls)
  PROVE  log' \in Seq(Entries)
<1> DEFINE s == [i \in 1..Len(calls) |-> [frame |-> ran, call |-> calls[i]]]
<1>1. log' = log \o s \/ log' = log
  <2>1. DOMAIN calls = 1..Len(calls)
    OBVIOUS
  <2> QED BY <2>1 DEF Log
<1>2. s \in Seq(Entries)
  <2>1. Len(calls) \in Nat
    OBVIOUS
  <2>2. ASSUME NEW i \in 1..Len(calls)
        PROVE  [frame |-> ran, call |-> calls[i]] \in Entries
    <3>1. calls[i] \in LoggedCalls
      BY ElementOfSeq
    <3> QED BY <3>1 DEF Entries
  <2> HIDE DEF Entries
  <2> QED BY <2>1, <2>2
<1> HIDE DEF s
<1>3. log \o s \in Seq(Entries)
  BY <1>2, ConcatProperties
<1> QED BY <1>1, <1>3

(* Input calls are calls the log holds.                                      *)
LEMMA InputIsLogged == InputCalls \subseteq LoggedCalls
BY DEF InputCalls, LoggedCalls

(* Calls received keep the three typed.                                      *)
LEMMA ReceiveTyped ==
  ASSUME WorldTyped, NEW calls \in Seq(LiveCalls), Receive(calls), recording \in BOOLEAN
  PROVE  machine' \in Machines /\ recorder' \in Recorders /\ log' \in Seq(Entries)
<1>1. calls \in Seq(InputCalls)
  BY DEF LiveCalls
<1>2. calls \in Seq(LoggedCalls)
  BY <1>1, InputIsLogged, SeqMonotonic
<1>3. machine' \in Machines
  BY <1>1, HandleAllTyped DEF WorldTyped, Receive
<1>4. recorder' \in Recorders
  BY TapedAppends DEF WorldTyped, Receive
<1> QED BY <1>2, <1>3, <1>4, LogTyped DEF WorldTyped, Receive

(* What the loop itself makes up are calls on its keys.                      *)
LEMMA CallsAreLive ==
  /\ \A k \in Keys, value \in {0, 1} : <<Call("button", k, value)>> \in Seq(LiveCalls)
  /\ <<ReleaseAllCall>> \in Seq(LiveCalls)
  /\ \A value \in {0, 1} : <<Call("dip", 1, value)>> \in Seq(LiveCalls)
  /\ ResyncCalls \in Seq(LiveCalls)
<1>1. \A k \in Keys, value \in {0, 1} : Call("button", k, value) \in LiveCalls
  BY KeysAreNumbers DEF LiveCalls, InputCalls, Call
<1>2. ReleaseAllCall \in LiveCalls /\ \A value \in {0, 1} : Call("dip", 1, value) \in LiveCalls
  BY DEF LiveCalls, InputCalls, Call, ReleaseAllCall
<1>3. ResyncCalls \in Seq(LiveCalls)
  <2>1. DOMAIN ControlTable = 1..Len(ControlTable) /\ Len(ControlTable) \in Nat
    BY LoopAssumption DEF LoopAssumption
  <2>2. ASSUME NEW i \in 1..Len(ControlTable)
        PROVE  Call("button", ControlTable[i].id,
                    IF ControlTable[i].id \in devices.pressed THEN 1 ELSE 0) \in LiveCalls
    <3>1. ControlTable[i].id \in Keys
      BY <2>1 DEF Keys
    <3> QED BY <1>1, <3>1
  <2> HIDE DEF LiveCalls
  <2>3. ResyncCalls = [i \in 1..Len(ControlTable) |->
          Call("button", ControlTable[i].id,
               IF ControlTable[i].id \in devices.pressed THEN 1 ELSE 0)]
    BY <2>1 DEF ResyncCalls
  <2> QED BY <2>1, <2>2, <2>3
<1> QED BY <1>1, <1>2, <1>3

(* What is not input is logged as one call.                                  *)
LEMMA OutsideTyped ==
  ASSUME WorldTyped, LogOutside
  PROVE  log' \in Seq(Entries)
<1>1. <<Call("outside", 0, 0)>> \in Seq(LoggedCalls)
  BY DEF Call, LoggedCalls
<1> QED BY <1>1, LogTyped DEF WorldTyped, LogOutside

(* What the user and the window do keeps machine and take typed.             *)
LEMMA WorldUser ==
  ASSUME WorldTyped, recording \in BOOLEAN, UserStep
  PROVE  WorldTyped'
<1> USE DEF movies, history
<1>1. ASSUME UNCHANGED <<machine, recorder, log, ran>> PROVE WorldTyped'
  BY <1>1 DEF WorldTyped
<1>2. ASSUME NEW calls \in Seq(LiveCalls), Receive(calls), ran' = ran PROVE WorldTyped'
  BY <1>2, ReceiveTyped DEF WorldTyped
<1>3. ASSUME ReleaseAllInputs, ran' = ran PROVE WorldTyped'
  BY <1>1, <1>2, <1>3, CallsAreLive DEF ReleaseAllInputs
<1>4. ASSUME NEW k \in Keys, NEW value \in {0, 1}, ControlMoves(k, value)
      PROVE  WorldTyped'
  BY <1>1, <1>2, <1>4, CallsAreLive DEF ControlMoves, Polling
<1>5. CASE FocusLost \/ PadRemoved \/ MouseUngrabbed
  BY <1>3, <1>5 DEF FocusLost, PadRemoved, MouseUngrabbed, Polling
<1>6. CASE FocusGained \/ TogglePanel
  BY <1>1, <1>6 DEF FocusGained, TogglePanel, Polling
<1>7. ASSUME NEW name, Hotkey(name) PROVE WorldTyped'
  BY <1>1, <1>7 DEF Hotkey, Polling
<1>8. CASE Quit
  <2>1. machine' = machine /\ recorder' = recorder
        /\ ((log' = log /\ ran' = ran) \/ (log' = <<>> /\ ran' = 0))
    BY <1>8 DEF Quit
  <2>2. <<>> \in Seq(Entries) /\ 0 \in Nat
    OBVIOUS
  <2>3. log' \in Seq(Entries) /\ ran' \in Nat
    BY <2>1, <2>2 DEF WorldTyped
  <2> QED BY <2>1, <2>3 DEF WorldTyped
<1>9. ASSUME NEW kind, NEW name, NEW arg, Stage(kind, name, arg) PROVE WorldTyped'
  BY <1>1, <1>9 DEF Stage
<1> QED
  BY <1>4, <1>5, <1>6, <1>7, <1>8, <1>9
     DEF UserStep, StagePause, StagePoke, StageStep, StageWatchpoint, StageRemoval, StageDip

(* A recorder starts typed.                                                  *)
LEMMA NewRecorderTyped ==
  ASSUME NEW dip \in {0, 1}
  PROVE  NewRecorder(ControlTable, <<dip>>) \in Recorders
<1>1. <<dip>> \in Seq({0, 1}) /\ <<>> \in Seq(Records)
  OBVIOUS
<1> QED BY <1>1 DEF NewRecorder, Recorders

(* Draining a command keeps machine and take typed.                          *)
LEMMA WorldDrain ==
  ASSUME WorldTyped, QueueTyped, recording \in BOOLEAN,
         \/ Refuse \/ ResetSoft \/ ResetHard \/ MovieArm \/ MovieStop \/ TogglePause
         \/ \E name \in SubFrameSteps \cup {"StepFrame", "AdvanceFrame"} : ArmStep(name)
         \/ SaveState \/ LoadState \/ SetWatchpoint \/ ClearWatchpoint \/ PokeMemory
         \/ SetDipOption \/ EndDrain
  PROVE  WorldTyped'
<1> USE DEF movies, history
<1>1. ASSUME UNCHANGED <<machine, recorder, log, ran>> PROVE WorldTyped'
  BY <1>1 DEF WorldTyped
<1>2. CASE ResetSoft
  <2>1. {} \in SUBSET Keys
    OBVIOUS
  <2>2. [machine EXCEPT !.held = {}] \in Machines
    BY <2>1, MachineUpdates DEF WorldTyped
  <2>3. machine' \in Machines
    BY <1>2, <2>2 DEF ResetSoft, WorldTyped
  <2> QED BY <1>2, <2>3, OutsideTyped DEF ResetSoft, WorldTyped
<1>3. CASE MovieStop
  <2>1. machine' = machine /\ recorder' = recorder /\ log' = <<>> /\ ran' = 0
    BY <1>3 DEF MovieStop
  <2>2. <<>> \in Seq(Entries)
    OBVIOUS
  <2> QED BY <2>1, <2>2 DEF WorldTyped
<1>4. CASE LoadState
  <2>1. recorder' = recorder /\ ran' = ran
    BY <1>4 DEF LoadState
  <2>2. CASE UNCHANGED <<machine, log>>
    BY <1>1, <2>1, <2>2
  <2>3. ASSUME NEW held \in SUBSET Keys, machine' = [machine EXCEPT !.held = held], LogOutside
        PROVE  WorldTyped'
    BY <2>1, <2>3, MachineUpdates, OutsideTyped DEF WorldTyped
  <2> QED BY <1>4, <2>2, <2>3 DEF LoadState
<1>5. CASE PokeMemory
  BY <1>5, OutsideTyped DEF PokeMemory, WorldTyped
<1>6. CASE SetDipOption
  <2>1. Head(queue).arg \in {0, 1}
    <3>1. queue # <<>> /\ queue \in Seq(Queued) /\ Head(queue).name = "SetDipOption"
      BY <1>6 DEF SetDipOption, Draining, QueueTyped
    <3>2. Head(queue) \in Queued
      BY <3>1
    <3> QED BY <3>1, <3>2 DEF Queued
  <2>2. <<Call("dip", 1, Head(queue).arg)>> \in Seq(LiveCalls)
    BY <2>1, CallsAreLive
  <2> QED BY <1>6, <2>2, ReceiveTyped DEF SetDipOption, WorldTyped
<1>7. ASSUME NEW name, ArmStep(name) PROVE WorldTyped'
  BY <1>1, <1>7 DEF ArmStep
<1>8. CASE Refuse \/ ResetHard \/ MovieArm \/ TogglePause \/ SaveState
           \/ SetWatchpoint \/ ClearWatchpoint \/ EndDrain
  BY <1>1, <1>8 DEF Refuse, ResetHard, MovieArm, TogglePause, SaveState,
       SetWatchpoint, ClearWatchpoint, EndDrain
<1> QED BY <1>2, <1>3, <1>4, <1>5, <1>6, <1>7, <1>8

(* Running a frame, or part of one, keeps them typed.                        *)
LEMMA WorldFrames ==
  ASSUME WorldTyped, debug \in DebugStates,
         HoldClosed \/ RunClosed \/ HoldOpen \/ RefuseStepInTake \/ StepTicks \/ BreakAtFrame
           \/ RunInTake \/ BreakAtHit \/ BreakAtPc \/ RunTicked \/ StepFrameTicked
           \/ TickShortOfBoundary
  PROVE  WorldTyped'
<1>1. machine' \in Machines
  BY FramesTyped DEF WorldTyped
<1>2. recorder' = recorder /\ ran' = ran
  BY DEF HoldClosed, RunClosed, HoldOpen, RefuseStepInTake, StepTicks, BreakAtFrame,
         RunInTake, BreakAtHit, BreakAtPc, RunTicked, StepFrameTicked, TickShortOfBoundary, FrameEnds, movies
<1>3. log' = log \/ LogOutside
  BY DEF HoldClosed, RunClosed, HoldOpen, RefuseStepInTake, StepTicks, BreakAtFrame,
         RunInTake, BreakAtHit, BreakAtPc, RunTicked, StepFrameTicked, TickShortOfBoundary
<1> QED BY <1>1, <1>2, <1>3, OutsideTyped DEF WorldTyped

(* So does every step of the loop.                                           *)
LEMMA WorldLoop ==
  ASSUME WorldTyped, QueueTyped, PlaybackTyped, recording \in BOOLEAN, debug \in DebugStates,
         LoopTurn
  PROVE  WorldTyped'
<1> USE DEF movies, history
<1>1. ASSUME UNCHANGED <<machine, recorder, log, ran>> PROVE WorldTyped'
  BY <1>1 DEF WorldTyped
<1>2. CASE ServiceHardReset
  BY <1>2, MachineUpdates DEF ServiceHardReset, WorldTyped
<1>3. CASE ServiceArm
  <2>1. machine' \in Machines
    BY <1>3, MachineUpdates DEF ServiceArm, WorldTyped
  <2>2. recorder' \in Recorders
    <3>1. machine.dip \in {0, 1}
      BY DEF WorldTyped, Machines
    <3> QED BY <1>3, <3>1, NewRecorderTyped DEF ServiceArm
  <2>3. log' \in Seq(Entries) /\ ran' \in Nat
    BY <1>3 DEF ServiceArm
  <2> QED BY <2>1, <2>2, <2>3 DEF WorldTyped
<1>4. CASE BeginIteration
  <2>1. machine' \in Machines
    BY <1>4, SuspendTyped DEF BeginIteration, WorldTyped
  <2> QED BY <1>4, <2>1 DEF BeginIteration, WorldTyped
<1>5. CASE EndPoll \/ EndDraw
  BY <1>1, <1>5 DEF EndPoll, EndDraw
<1>6. CASE Resync
  <2>1. CASE Receive(ResyncCalls)
    BY <1>6, <2>1, CallsAreLive, ReceiveTyped DEF Resync, WorldTyped
  <2>2. CASE UNCHANGED <<machine, recorder, log>>
    BY <1>1, <1>6, <2>2 DEF Resync
  <2> QED BY <1>6, <2>1, <2>2 DEF Resync
<1>7. CASE Deliver
  <2>1. recorder' = recorder /\ ran' = ran
    BY <1>7 DEF Deliver
  <2>2. CASE ~ replaying
    BY <1>1, <1>7, <2>1, <2>2 DEF Deliver
  <2>3. CASE replaying
    <3> DEFINE calls == Delivered(playback.player, playback.frame)
    <3>1. calls \in Seq(InputCalls)
      BY <2>3, DeliveredTyped DEF PlaybackTyped
    <3>2. machine' = HandleAll(machine, calls) /\ Log(calls)
      BY <1>7, <2>3 DEF Deliver
    <3> HIDE DEF calls
    <3>3. calls \in Seq(LoggedCalls)
      BY <3>1, InputIsLogged, SeqMonotonic
    <3> QED BY <2>1, <3>1, <3>2, <3>3, HandleAllTyped, LogTyped DEF WorldTyped
  <2> QED BY <2>2, <2>3
<1>8. CASE AfterFrame
  <2>1. AdvanceFrame(recorder) \in Recorders
    BY DEF WorldTyped, AdvanceFrame, Recorders
  <2>2. recorder' \in Recorders /\ ran' \in Nat
    BY <1>8, <2>1 DEF AfterFrame, WorldTyped
  <2> QED BY <1>8, <2>2 DEF AfterFrame, WorldTyped
<1>9. CASE FinishPlayback
  <2>1. CASE replaying /\ Finished
    BY <1>9, <2>1, CallsAreLive, ReceiveTyped DEF FinishPlayback, WorldTyped
  <2>2. CASE ~ (replaying /\ Finished)
    BY <1>1, <1>9, <2>2 DEF FinishPlayback
  <2> QED BY <2>1, <2>2
<1> QED
  BY <1>2, <1>3, <1>4, <1>5, <1>6, <1>7, <1>8, <1>9, WorldDrain, WorldFrames, LastTicks
     DEF LoopTurn, LoopStep

-----------------------------------------------------------------------------
(* The typing of the whole state.                                            *)

(* The typing of the whole state.                                            *)
TypeInv ==
  ModesTyped /\ debug \in DebugStates /\ QueueTyped /\ PlaybackTyped /\ WorldTyped

(* A player bound to a movie that binds, or to none, starts at its beginning. *)
LEMMA BoundPlayer ==
  ASSUME NEW movie \in Movies \cup {NoMovie}
  PROVE  /\ IsPlayer(BindPlayer(movie, ControlTable))
         /\ BindPlayer(movie, ControlTable).movie = movie
         /\ BindPlayer(movie, ControlTable).cursor = 0
         /\ movie.frames \in Nat /\ movie.dip[1] \in {0, 1}
         /\ Len(movie.records) \in Nat
<1>1. movie.frames \in Nat /\ movie.dip[1] \in {0, 1} /\ Len(movie.records) \in Nat
  <2>1. CASE movie \in Movies
    <3>1. movie.frames \in Nat /\ movie.dip \in Seq({0, 1}) /\ movie.dip # <<>>
          /\ movie.records \in Seq(Records)
      BY <2>1, MovieFacts
    <3>2. 1 \in 1..Len(movie.dip)
      BY <3>1
    <3>3. movie.dip[1] \in {0, 1}
      BY <3>1, <3>2, ElementOfSeq
    <3> QED BY <3>1, <3>3
  <2>2. CASE movie = NoMovie
    BY <2>2 DEF NoMovie
  <2> QED BY <2>1, <2>2
<1> DEFINE p == BindPlayer(movie, ControlTable)
<1>2. p.movie = movie /\ p.cursor = 0
  BY DEF BindPlayer
<1>3. p \in [movie : Movies \cup {NoMovie}, cursor : Nat, ids : {p.ids}]
  BY DEF BindPlayer
<1>4. IsPlayer(p)
  <2> HIDE DEF p
  <2>1. BindPlayer(p.movie, ControlTable).ids = p.ids
    BY <1>2 DEF p
  <2> QED BY <1>1, <1>2, <1>3, <2>1 DEF IsPlayer
<1> QED BY <1>1, <1>2, <1>4

(* The loop starts typed.                                                    *)
LEMMA InitTyped == Init => TypeInv
<1> SUFFICES ASSUME Init PROVE TypeInv
  OBVIOUS
<1>1. PICK movie \in Movies \cup {NoMovie}, record \in StartRecording :
       /\ ~ (record /\ movie # NoMovie)
       /\ replaying = (movie # NoMovie)
       /\ playback = [player |-> BindPlayer(movie, ControlTable),
                      frame |-> 0, total |-> movie.frames]
       /\ machine = FreshMachine(movie.dip[1])
       /\ request = [hardReset |-> FALSE, arm |-> IF record THEN "cli" ELSE "none",
                     pendingResync |-> FALSE, needsResync |-> FALSE]
       /\ disk \in [output : {record}, saveFile : BOOLEAN, armedBy : {"none"},
                    writtenBy : {"none"}]
  BY DEF Init
<1>2. /\ IsPlayer(BindPlayer(movie, ControlTable))
      /\ BindPlayer(movie, ControlTable).movie = movie
      /\ movie.frames \in Nat /\ movie.dip[1] \in {0, 1}
  BY BoundPlayer
<1>3. ModesTyped
  <2>1. record \in BOOLEAN
    BY LoopAssumption DEF LoopAssumption
  <2>2. /\ request \in [hardReset : BOOLEAN, arm : {"none", "cli", "hotkey"},
                        pendingResync : BOOLEAN, needsResync : BOOLEAN]
    BY <1>1
  <2>3. disk \in [output : BOOLEAN, saveFile : BOOLEAN,
               armedBy : {"none", "cli", "hotkey"}, writtenBy : {"none", "cli", "hotkey"}]
    BY <1>1, <2>1
  <2>4. devices \in [pressed : SUBSET Keys, focused : BOOLEAN]
    BY DEF Init
  <2>5. replaying \in BOOLEAN
    BY <1>1
  <2>6. /\ phase \in Phases /\ autoPaused \in BOOLEAN /\ recording \in BOOLEAN
        /\ take \in {"Live", "Recording", "Replaying"} /\ bound \in BOOLEAN
        /\ executed \in BOOLEAN
    BY DEF Init, Phases
  <2> QED BY <2>2, <2>3, <2>4, <2>5, <2>6 DEF ModesTyped
<1>4. debug \in DebugStates
  <2>1. PICK paused \in StartPaused :
          debug = [active |-> paused, mode |-> IF paused THEN "Paused" ELSE "Running",
                   watch |-> {}, dirty |-> FALSE, suspended |-> FALSE]
    BY DEF Init
  <2>2. paused \in BOOLEAN
    BY LoopAssumption DEF LoopAssumption
  <2> QED BY <2>1, <2>2 DEF DebugStates, RunModes
<1>5. QueueTyped
  <2>1. queue = <<>> /\ submits = 0 /\ staged = NoStaged /\ MaxSubmits \in Nat
    BY LoopAssumption DEF Init, LoopAssumption
  <2> QED BY <2>1 DEF QueueTyped, NoStaged
<1>6. PlaybackTyped
  <2>1. /\ playback.player = BindPlayer(movie, ControlTable)
        /\ playback.frame = 0 /\ playback.total = movie.frames
        /\ playback \in [player : {playback.player}, frame : Nat, total : Nat]
    BY <1>1, <1>2
  <2>2. replaying => movie \in Movies
    BY <1>1
  <2>3. 0 <= playback.total /\ 0 <= playback.total + (IF phase = "finish" THEN 1 ELSE 0)
    BY <1>2, <2>1
  <2> QED BY <1>2, <2>1, <2>2, <2>3 DEF PlaybackTyped
<1>7. WorldTyped
  <2>1. machine \in Machines
    BY <1>1, <1>2 DEF FreshMachine, Machines
  <2>2. recorder \in Recorders
    BY NewRecorderTyped DEF Init
  <2>3. log \in Seq(Entries) /\ ran \in Nat
    BY DEF Init
  <2> QED BY <2>1, <2>2, <2>3 DEF WorldTyped
<1> QED BY <1>3, <1>4, <1>5, <1>6, <1>7 DEF TypeInv

(* Every step keeps the state typed.                                         *)
LEMMA TypeInductive == TypeInv /\ [Next]_vars => TypeInv'
<1> SUFFICES ASSUME TypeInv, [Next]_vars PROVE TypeInv'
  OBVIOUS
<1>0. /\ ModesTyped /\ debug \in DebugStates /\ QueueTyped /\ PlaybackTyped /\ WorldTyped
      /\ autoPaused \in BOOLEAN /\ recording \in BOOLEAN /\ machine \in Machines
  BY DEF TypeInv, ModesTyped, WorldTyped
<1>1. CASE UserStep
  BY <1>0, <1>1, ModesUser, DebugUser, QueueUser, PlaybackUser, WorldUser DEF TypeInv
<1>2. CASE LoopTurn
  BY <1>0, <1>2, ModesLoop, DebugLoop, QueueLoop, PlaybackLoop, WorldLoop DEF TypeInv
<1>3. CASE UNCHANGED vars
  <2> USE <1>3 DEF vars, debugger, commands, movies, iteration, outside, bounds, history
  <2>1. ModesTyped' BY <1>0 DEF ModesTyped
  <2>2. QueueTyped' BY <1>0 DEF QueueTyped
  <2>3. PlaybackTyped' BY <1>0 DEF PlaybackTyped, IsPlayer
  <2>4. WorldTyped' BY <1>0 DEF WorldTyped
  <2>5. debug' \in DebugStates BY <1>0
  <2> QED BY <2>1, <2>2, <2>3, <2>4, <2>5 DEF TypeInv
<1> QED BY <1>1, <1>2, <1>3 DEF Next, LoopTurn

(* The state of the loop keeps its type.                                     *)
THEOREM LoopTyped == Spec => []TypeInv
BY InitTyped, TypeInductive, PTL DEF Spec

(* So it keeps the shape the runs check (TypeOK).                            *)
THEOREM LoopStateTyped == Spec => []TypeOK
<1>1. TypeInv => TypeOK
  <2> SUFFICES ASSUME TypeInv PROVE TypeOK
    OBVIOUS
  <2>1. /\ Len(queue) <= MaxSubmits /\ \A i \in DOMAIN queue : queue[i].name \in Commands
    <3>1. /\ queue \in Seq(Queued) /\ Len(queue) \in Nat
          /\ Len(staged.commands) \in Nat /\ Len(staged.memory) \in Nat /\ Len(staged.dip) \in Nat
      BY DEF TypeInv, QueueTyped
    <3>2. Len(queue) <= MaxSubmits
      BY <3>1, LoopAssumption DEF TypeInv, QueueTyped, LoopAssumption
    <3>3. ASSUME NEW i \in DOMAIN queue PROVE queue[i].name \in Commands
      <4>1. i \in 1..Len(queue)
        BY <3>1
      <4>2. queue[i] \in Queued
        BY <3>1, <4>1, ElementOfSeq
      <4> QED BY <4>2, LoopAssumption DEF Queued, LoopAssumption
    <3> QED BY <3>2, <3>3
  <2>2. replaying => playback.frame <= playback.total + 1
    <3>1. playback.frame \in Nat /\ playback.total \in Nat
      BY DEF TypeInv, PlaybackTyped
    <3> QED BY <3>1 DEF TypeInv, PlaybackTyped
  <2>3. devices.pressed \subseteq Keys
    BY DEF TypeInv, ModesTyped
  <2> QED BY <2>1, <2>2, <2>3 DEF TypeInv, ModesTyped, WorldTyped, Machines, DebugStates, TypeOK
<1> QED BY <1>1, LoopTyped, PTL

-----------------------------------------------------------------------------
(* Recordings are faithful.                                                  *)

(* Which take is in progress.                                                *)
TakeKind ==
  /\ recording /\ phase # "rebuild" => take = "Recording"
  /\ ~ (recording /\ replaying)
  /\ request.arm # "none" => ~ replaying
  /\ phase # "rebuild" /\ replaying => bound
  /\ phase \notin {"rebuild", "draw", "exit"} => (bound <=> replaying)

(* Nothing that may not be recorded runs while a recorder does.              *)
LEMMA OutsideRefused ==
  ASSUME TypeInv, TakeKind,
         \/ ResetSoft \/ LoadState \/ PokeMemory \/ StepTicks \/ BreakAtHit \/ BreakAtPc
         \/ RunTicked \/ StepFrameTicked \/ TickShortOfBoundary
  PROVE  ~ recording
<1>1. CASE ResetSoft \/ LoadState \/ PokeMemory
  <2> SUFFICES ASSUME recording PROVE FALSE
    OBVIOUS
  <2>1. MovieMode(recording, bound) = "Recording"
    BY DEF MovieMode
  <2> QED BY <1>1, <2>1 DEF ResetSoft, LoadState, PokeMemory, Draining, EnabledNow, Enabled,
             RefusedByTake, OutsideInput
<1>2. CASE StepTicks \/ BreakAtHit \/ BreakAtPc \/ RunTicked \/ StepFrameTicked
           \/ TickShortOfBoundary
  BY <1>2 DEF TakeKind, StepTicks, BreakAtHit, BreakAtPc, RunTicked, StepFrameTicked,
              TickShortOfBoundary, AwaitsBoundary, MovieTake, FrameEnds
<1> QED BY <1>1, <1>2

(* What the user and the window do leaves the kind of take alone.            *)
LEMMA KindUser == ASSUME TypeInv, TakeKind, UserStep PROVE TakeKind'
<1>1. UNCHANGED <<replaying, take, bound>>
  BY DEF UserStep, ControlMoves, FocusLost, FocusGained, PadRemoved, MouseUngrabbed,
         TogglePanel, Hotkey, Quit, StagePause, StagePoke, StageStep, StageWatchpoint,
         StageRemoval, StageDip, Stage, Polling, movies, iteration
<1>2. request'.arm = request.arm
  <2>1. request \in [hardReset : BOOLEAN, arm : {"none", "cli", "hotkey"},
                     pendingResync : BOOLEAN, needsResync : BOOLEAN]
    BY DEF TypeInv, ModesTyped
  <2> DEFINE f == ~ bound
             g == request.needsResync \/ ~ bound
  <2>2. \/ request' = request
        \/ request' = [request EXCEPT !.needsResync = f]
        \/ request' = [request EXCEPT !.needsResync = g]
    BY DEF UserStep, ControlMoves, FocusLost, FocusGained, PadRemoved, MouseUngrabbed,
         TogglePanel, Hotkey, Quit, StagePause, StagePoke, StageStep, StageWatchpoint,
         StageRemoval, StageDip, Stage, Polling, movies, iteration
  <2> HIDE DEF f, g
  <2> QED BY <2>1, <2>2
<1>3. CASE Quit
  <2>1. (recording' => recording) /\ phase = "poll" /\ phase' = "exit"
    BY <1>3 DEF Quit
  <2> QED BY <1>1, <1>2, <2>1 DEF TakeKind
<1>4. CASE ~ Quit
  <2>1. recording' = recording /\ phase' = phase
    BY <1>4 DEF UserStep, ControlMoves, FocusLost, FocusGained, PadRemoved, MouseUngrabbed,
         TogglePanel, Hotkey, StagePause, StagePoke, StageStep, StageWatchpoint,
         StageRemoval, StageDip, Stage, Polling, movies
  <2> QED BY <1>1, <1>2, <2>1 DEF TakeKind
<1> QED BY <1>3, <1>4

(* The request and the phase in the drain.                                   *)
LEMMA KindDrain ==
  ASSUME TypeInv, TakeKind,
         \/ Refuse \/ ResetSoft \/ ResetHard \/ MovieArm \/ MovieStop \/ TogglePause
         \/ \E name \in SubFrameSteps \cup {"StepFrame", "AdvanceFrame"} : ArmStep(name)
         \/ SaveState \/ LoadState \/ SetWatchpoint \/ ClearWatchpoint \/ PokeMemory
         \/ SetDipOption \/ EndDrain
  PROVE  TakeKind'
<1>0. request \in [hardReset : BOOLEAN, arm : {"none", "cli", "hotkey"},
                   pendingResync : BOOLEAN, needsResync : BOOLEAN]
  BY DEF TypeInv, ModesTyped
<1>1. phase = "drain" /\ phase' \in {"drain", "resync"}
  BY DEF Refuse, ResetSoft, ResetHard, MovieArm, MovieStop, TogglePause, ArmStep,
         SaveState, LoadState, SetWatchpoint, ClearWatchpoint, PokeMemory, SetDipOption,
         EndDrain, Draining
<1>2. UNCHANGED <<replaying, take, bound>> /\ (recording' => recording)
  BY DEF Refuse, ResetSoft, ResetHard, MovieArm, MovieStop, TogglePause, ArmStep,
         SaveState, LoadState, SetWatchpoint, ClearWatchpoint, PokeMemory, SetDipOption,
         EndDrain, Draining, movies, iteration
<1>3. request'.arm # "none" => ~ replaying
  <2>1. CASE MovieArm
    <3>1. MovieMode(recording, bound) # "Replaying"
      BY <2>1 DEF MovieArm, Draining, EnabledNow, Enabled, RefusedByTake
    <3>2. ~ bound
      BY <2>1, <3>1 DEF MovieArm, MovieMode
    <3> QED BY <1>1, <3>2 DEF TakeKind
  <2>2. CASE ~ MovieArm
    <3>1. \/ request' = request
          \/ request' = [request EXCEPT !.needsResync = TRUE]
          \/ request' = [request EXCEPT !.hardReset = TRUE]
      BY <2>2 DEF Refuse, ResetSoft, ResetHard, MovieStop, TogglePause, ArmStep,
         SaveState, LoadState, SetWatchpoint, ClearWatchpoint, PokeMemory, SetDipOption,
         EndDrain, iteration
    <3>2. request'.arm = request.arm
      BY <1>0, <3>1
    <3> QED BY <3>2 DEF TakeKind
  <2> QED BY <2>1, <2>2
<1> QED BY <1>1, <1>2, <1>3 DEF TakeKind

(* Every step of the loop keeps the kind of take.                            *)
LEMMA KindLoop == ASSUME TypeInv, TakeKind, LoopTurn PROVE TakeKind'
<1> USE DEF movies, iteration
<1>0. request \in [hardReset : BOOLEAN, arm : {"none", "cli", "hotkey"},
                   pendingResync : BOOLEAN, needsResync : BOOLEAN]
  BY DEF TypeInv, ModesTyped
<1>1. CASE ServiceHardReset
  <2>1. request'.arm = request.arm
    BY <1>0, <1>1 DEF ServiceHardReset
  <2> QED BY <1>1, <2>1 DEF ServiceHardReset, TakeKind
<1>2. CASE ServiceArm
  <2>1. request'.arm = "none"
    BY <1>0, <1>2 DEF ServiceArm
  <2> QED BY <1>2, <2>1 DEF ServiceArm, TakeKind
<1>3. CASE BeginIteration
  <2>1. request'.arm = request.arm
    BY <1>0, <1>3 DEF BeginIteration
  <2>2. recording => take' = "Recording"
    BY <1>3 DEF BeginIteration, MovieMode
  <2>3. bound' = replaying
    BY <1>3 DEF BeginIteration
  <2> QED BY <1>3, <2>1, <2>2, <2>3 DEF BeginIteration, TakeKind
<1>4. CASE EndPoll \/ EndDraw
  <2>1. UNCHANGED <<recording, replaying, request, take, bound>>
    BY <1>4 DEF EndPoll, EndDraw
  <2>2. (phase = "poll" /\ phase' = "drain") \/ (phase = "draw" /\ phase' = "rebuild")
    BY <1>4 DEF EndPoll, EndDraw
  <2> QED BY <2>1, <2>2 DEF TakeKind
<1>5. CASE Resync
  <2>1. request'.arm = request.arm
    BY <1>0, <1>5 DEF Resync
  <2> QED BY <1>5, <2>1 DEF Resync, TakeKind
<1>6. CASE Deliver \/ AfterFrame
  BY <1>6 DEF Deliver, AfterFrame, TakeKind
<1>7. CASE FinishPlayback
  <2>1. request'.arm = request.arm
    BY <1>0, <1>7 DEF FinishPlayback
  <2>2. phase = "finish" /\ phase' = "draw" /\ (replaying' => replaying)
        /\ UNCHANGED <<recording, take, bound>>
    BY <1>7 DEF FinishPlayback
  <2> QED BY <2>1, <2>2 DEF TakeKind
<1>8. ASSUME NEW m, NEW d, NEW whole, FrameEnds(m, d, whole) PROVE TakeKind'
  BY <1>8 DEF FrameEnds, TakeKind
<1>9. CASE HoldClosed \/ RunClosed \/ HoldOpen \/ RefuseStepInTake \/ StepTicks \/ BreakAtFrame
           \/ RunInTake \/ BreakAtHit \/ BreakAtPc \/ RunTicked \/ StepFrameTicked
  BY <1>8, <1>9 DEF HoldClosed, RunClosed, HoldOpen, RefuseStepInTake, StepTicks, BreakAtFrame,
         RunInTake, BreakAtHit, BreakAtPc, RunTicked, StepFrameTicked
<1>10. CASE TickShortOfBoundary
  BY <1>10 DEF TickShortOfBoundary, TakeKind
<1> QED
  BY <1>1, <1>2, <1>3, <1>4, <1>5, <1>6, <1>7, <1>9, <1>10, KindDrain, LastTicks
     DEF LoopTurn, LoopStep

(* It starts in no take.                                                     *)
LEMMA InitKind == Init => TakeKind
<1> SUFFICES ASSUME Init PROVE TakeKind
  OBVIOUS
<1>1. recording = FALSE /\ phase = "rebuild"
  BY DEF Init
<1>2. request.arm # "none" => ~ replaying
  <2>1. PICK movie \in Movies \cup {NoMovie}, record \in StartRecording :
          /\ ~ (record /\ movie # NoMovie)
          /\ replaying = (movie # NoMovie)
          /\ request = [hardReset |-> FALSE, arm |-> IF record THEN "cli" ELSE "none",
                        pendingResync |-> FALSE, needsResync |-> FALSE]
    BY DEF Init
  <2>2. request.arm # "none" => record
    BY <2>1
  <2> QED BY <2>1, <2>2
<1> QED BY <1>1, <1>2 DEF TakeKind

-----------------------------------------------------------------------------
(* Calls received while recording are logged and taped alike.                *)
LEMMA ReceiveFaithful ==
  ASSUME TypeInv, TakeFaithful, NEW calls \in Seq(LiveCalls), Receive(calls),
         recording' = recording, ran' = ran
  PROVE  TakeFaithful'
<1> SUFFICES ASSUME recording
             PROVE  /\ recorder'.frame = ran
                    /\ recorder'.records = [i \in DOMAIN log' |-> RecordOf(log'[i])]
  BY DEF TakeFaithful
<1> DEFINE n == Len(calls)
           E(i) == [frame |-> ran, call |-> calls[i]]
           s == [i \in 1..n |-> E(i)]
<1>1. recorder \in Recorders /\ log \in Seq(Entries) /\ ran \in Nat
  BY DEF TypeInv, WorldTyped
<1>2. recorder.frame = ran /\ recorder.records = [i \in DOMAIN log |-> RecordOf(log[i])]
  BY DEF TakeFaithful
<1>3. recorder' = Taped(recorder, calls)
  BY DEF Receive
<1>4. /\ recorder'.frame = ran
      /\ recorder'.records = recorder.records \o [i \in 1..n |-> RecordOf(E(i))]
  BY <1>1, <1>2, <1>3, TapedAppends
<1>5. log' = log \o s
  <2>1. DOMAIN calls = 1..n
    OBVIOUS
  <2> QED BY <2>1 DEF Receive, Log, Taking
<1>6. s \in Seq(Entries) /\ Len(s) = n /\ n \in Nat
  <2>1. n \in Nat
    OBVIOUS
  <2>2. ASSUME NEW i \in 1..n PROVE E(i) \in Entries
    <3>1. calls[i] \in LiveCalls
      BY ElementOfSeq
    <3>2. calls[i] \in LoggedCalls
      BY <3>1, InputIsLogged DEF LiveCalls
    <3> QED BY <1>1, <3>2 DEF Entries
  <2> HIDE DEF Entries, E, n
  <2> QED BY <2>1, <2>2
<1>7. \A i \in 1..n : s[i] = E(i)
  OBVIOUS
<1> HIDE DEF s, n, E
<1>8. /\ log' \in Seq(Entries) /\ Len(log') = Len(log) + n /\ Len(log) \in Nat
      /\ \A i \in 1..Len(log) + n : log'[i] = IF i <= Len(log) THEN log[i] ELSE s[i - Len(log)]
  <2>1. Len(log) \in Nat
    BY <1>1
  <2>2. /\ log \o s \in Seq(Entries) /\ Len(log \o s) = Len(log) + Len(s)
        /\ \A i \in 1..Len(log) + Len(s) :
             (log \o s)[i] = IF i <= Len(log) THEN log[i] ELSE s[i - Len(log)]
    BY <1>1, <1>6, ConcatProperties
  <2> QED BY <1>5, <1>6, <2>1, <2>2
<1> DEFINE a == [i \in 1..Len(log) |-> RecordOf(log[i])]
           b == [i \in 1..n |-> RecordOf(E(i))]
           c == [i \in 1..Len(log') |-> RecordOf(log'[i])]
<1>9. recorder.records = a /\ recorder'.records = a \o b
  <2>1. DOMAIN log = 1..Len(log)
    BY <1>1
  <2> QED BY <1>2, <1>4, <2>1
<1>10. a \o b = c
  <2>1. a \o b = [i \in 1..Len(a) + Len(b) |-> IF i <= Len(a) THEN a[i] ELSE b[i - Len(a)]]
    BY <1>6, <1>8
  <2>2. Len(a) = Len(log) /\ Len(b) = n
    BY <1>6, <1>8
  <2>3. ASSUME NEW i \in 1..Len(log) + n
        PROVE  (IF i <= Len(log) THEN a[i] ELSE b[i - Len(log)]) = RecordOf(log'[i])
    <3>1. CASE i <= Len(log)
      <4>1. i \in 1..Len(log)
        BY <1>8, <3>1
      <4> QED BY <1>8, <3>1, <4>1
    <3>2. CASE ~ (i <= Len(log))
      <4>1. i - Len(log) \in 1..n
        BY <1>6, <1>8, <3>2
      <4> QED BY <1>7, <1>8, <3>2, <4>1
    <3> QED BY <3>1, <3>2
  <2> HIDE DEF a, b
  <2> QED BY <1>8, <2>1, <2>2, <2>3
<1>11. DOMAIN log' = 1..Len(log')
  BY <1>8
<1> HIDE DEF a, b
<1> QED BY <1>4, <1>9, <1>10, <1>11

(* A step that leaves recording, tape, log and frames alone, or stops recording. *)
LEMMA FaithfulKept ==
  ASSUME TakeFaithful, recorder' = recorder, log' = log, ran' = ran, recording' => recording
  PROVE  TakeFaithful'
BY DEF TakeFaithful

(* Whatever the user and the window send is taped as it is received.         *)
LEMMA FaithfulUser == ASSUME TypeInv, TakeFaithful, UserStep PROVE TakeFaithful'
<1> USE DEF movies, history
<1>1. ASSUME ReleaseAllInputs, ran' = ran, recording' = recording PROVE TakeFaithful'
  BY <1>1, FaithfulKept, ReceiveFaithful, CallsAreLive DEF ReleaseAllInputs
<1>2. ASSUME NEW k \in Keys, NEW value \in {0, 1}, ControlMoves(k, value)
      PROVE  TakeFaithful'
  BY <1>2, FaithfulKept, ReceiveFaithful, CallsAreLive DEF ControlMoves, Polling
<1>3. CASE FocusLost \/ PadRemoved \/ MouseUngrabbed
  BY <1>1, <1>3 DEF FocusLost, PadRemoved, MouseUngrabbed, Polling
<1>4. CASE FocusGained \/ TogglePanel
  BY <1>4, FaithfulKept DEF FocusGained, TogglePanel, Polling
<1>5. ASSUME NEW name, Hotkey(name) PROVE TakeFaithful'
  BY <1>5, FaithfulKept DEF Hotkey, Polling
<1>6. CASE Quit
  <2>1. CASE recording
    BY <1>6, <2>1 DEF Quit, TakeFaithful
  <2>2. CASE ~ recording
    BY <1>6, <2>2, FaithfulKept DEF Quit
  <2> QED BY <2>1, <2>2
<1>7. ASSUME NEW kind, NEW name, NEW arg, Stage(kind, name, arg) PROVE TakeFaithful'
  BY <1>7, FaithfulKept DEF Stage
<1> QED
  BY <1>2, <1>3, <1>4, <1>5, <1>6, <1>7
     DEF UserStep, StagePause, StagePoke, StageStep, StageWatchpoint, StageRemoval, StageDip

(* So is whatever the loop sends; the rest is refused.                       *)
LEMMA FaithfulLoop == ASSUME TypeInv, TakeKind, TakeFaithful, LoopTurn PROVE TakeFaithful'
<1> USE DEF movies, history
<1>1. ASSUME ~ recording, recording' = recording PROVE TakeFaithful'
  BY <1>1 DEF TakeFaithful
<1>2. CASE ServiceArm
  <2>1. /\ recorder' = NewRecorder(ControlTable, <<machine.dip>>)
        /\ log' = <<>> /\ ran' = 0
    BY <1>2 DEF ServiceArm
  <2>2. recorder'.frame = 0 /\ recorder'.records = <<>>
    BY <2>1 DEF NewRecorder
  <2>3. [i \in DOMAIN log' |-> RecordOf(log'[i])] = <<>>
    BY <2>1
  <2> QED BY <2>1, <2>2, <2>3 DEF TakeFaithful
<1>3. CASE ServiceHardReset \/ BeginIteration \/ EndPoll \/ EndDraw \/ Refuse \/ EndDrain
  <2>1. UNCHANGED <<recording, recorder, log, ran>>
    BY <1>3 DEF ServiceHardReset, BeginIteration, EndPoll, EndDraw, Refuse, EndDrain
  <2> QED BY <2>1, FaithfulKept
<1>4. CASE ResetSoft \/ LoadState \/ PokeMemory
  BY <1>1, <1>4, OutsideRefused DEF ResetSoft, LoadState, PokeMemory
<1>5. CASE ResetHard \/ MovieArm \/ TogglePause \/ SaveState \/ SetWatchpoint \/ ClearWatchpoint
  BY <1>5, FaithfulKept DEF ResetHard, MovieArm, TogglePause, SaveState, SetWatchpoint, ClearWatchpoint
<1>6. CASE MovieStop
  BY <1>6 DEF MovieStop, TakeFaithful
<1>7. ASSUME NEW name, ArmStep(name) PROVE TakeFaithful'
  BY <1>7, FaithfulKept DEF ArmStep
<1>8. CASE SetDipOption
  <2>1. Head(queue).arg \in {0, 1}
    <3>1. queue # <<>> /\ queue \in Seq(Queued) /\ Head(queue).name = "SetDipOption"
      BY <1>8 DEF SetDipOption, Draining, TypeInv, QueueTyped
    <3>2. Head(queue) \in Queued
      BY <3>1
    <3> QED BY <3>1, <3>2 DEF Queued
  <2> QED BY <1>8, <2>1, CallsAreLive, ReceiveFaithful DEF SetDipOption
<1>9. CASE Resync
  BY <1>9, CallsAreLive, ReceiveFaithful, FaithfulKept DEF Resync
<1>10. CASE Deliver
  <2>1. CASE replaying
    BY <1>1, <1>10, <2>1 DEF Deliver, TakeKind
  <2>2. CASE ~ replaying
    BY <1>10, <2>2, FaithfulKept DEF Deliver
  <2> QED BY <2>1, <2>2
<1>11. CASE FinishPlayback
  BY <1>11, CallsAreLive, ReceiveFaithful, FaithfulKept DEF FinishPlayback
<1>12. CASE AfterFrame
  <2>1. CASE executed /\ recording
    <3>1. recorder' = AdvanceFrame(recorder) /\ ran' = ran + 1 /\ log' = log
      BY <1>12, <2>1 DEF AfterFrame, Taking
    <3>2. recorder'.frame = recorder.frame + 1 /\ recorder'.records = recorder.records
      BY <3>1 DEF AdvanceFrame, TypeInv, WorldTyped, Recorders
    <3> QED BY <3>1, <3>2, <2>1 DEF TakeFaithful
  <2>2. CASE ~ executed
    BY <1>12, <2>2, FaithfulKept DEF AfterFrame
  <2>3. CASE ~ recording
    BY <1>1, <1>12, <2>3 DEF AfterFrame
  <2> QED BY <2>1, <2>2, <2>3
<1>13. CASE HoldClosed \/ RunClosed \/ HoldOpen \/ RefuseStepInTake \/ BreakAtFrame \/ RunInTake
  BY <1>13, FaithfulKept DEF HoldClosed, RunClosed, HoldOpen, RefuseStepInTake, BreakAtFrame,
         RunInTake, FrameEnds
<1>14. CASE StepTicks \/ BreakAtHit \/ BreakAtPc \/ RunTicked \/ StepFrameTicked
  BY <1>1, <1>14, OutsideRefused
     DEF StepTicks, BreakAtHit, BreakAtPc, RunTicked, StepFrameTicked, FrameEnds
<1>15. CASE TickShortOfBoundary
  BY <1>1, <1>15, OutsideRefused DEF TickShortOfBoundary
<1> QED
  BY <1>2, <1>3, <1>4, <1>5, <1>6, <1>7, <1>8, <1>9, <1>10, <1>11, <1>12, <1>13, <1>14, <1>15,
     LastTicks
     DEF LoopTurn, LoopStep

(* Every step keeps the kind of take and the tape.                           *)
LEMMA TakeInductive ==
  TypeInv /\ TakeKind /\ TakeFaithful /\ [Next]_vars => (TakeKind /\ TakeFaithful)'
<1> SUFFICES ASSUME TypeInv, TakeKind, TakeFaithful, [Next]_vars PROVE (TakeKind /\ TakeFaithful)'
  OBVIOUS
<1>1. CASE UserStep
  BY <1>1, KindUser, FaithfulUser
<1>2. CASE LoopTurn
  BY <1>2, KindLoop, FaithfulLoop
<1>3. CASE UNCHANGED vars
  BY <1>3, FaithfulKept DEF vars, movies, iteration, history, TakeKind
<1> QED BY <1>1, <1>2, <1>3 DEF Next, LoopTurn

(* Recording and replay exclude each other, and the take is what it is said to be. *)
THEOREM TakeKinds == Spec => [](TakeKind /\ TakeFaithful)
<1>1. Init => TakeFaithful
  BY DEF Init, TakeFaithful
<1> QED BY <1>1, InitKind, TakeInductive, LoopTyped, PTL DEF Spec

(* A recording holds exactly what reached the machine, each call under its   *)
(* frame, through every path input takes (Recording in movie.rs, emulator.rs). *)
THEOREM RecordingIsFaithful == Spec => []TakeFaithful
BY TakeKinds, PTL

-----------------------------------------------------------------------------
(* Replays receive their movie.                                              *)

(* Where the cursor stands: past every record of the frames before this one, *)
(* past none of a later frame, and past this frame's once it was delivered.  *)
CursorOrder(player, frame, delivered) ==
  LET records == player.movie.records IN
  \A i \in 1..Len(records) :
    /\ records[i].frame < frame => i <= player.cursor
    /\ i <= player.cursor => records[i].frame <= frame
    /\ delivered /\ records[i].frame <= frame => i <= player.cursor
(* What a player has handed out up to its cursor.                            *)
HandedOut(player) ==
  [i \in 1..player.cursor |-> [frame |-> player.movie.records[i].frame,
                               call |-> ToCall(player, player.movie.records[i])]]
(* A replay has delivered what its player handed out and nothing else, under *)
(* the movie's frames; the take is one while it lasts.                       *)
ReplayInv ==
  /\ replaying => CursorOrder(playback.player, playback.frame, phase \in {"frame", "after"})
  /\ replaying /\ ~ Finished =>
       ran = playback.frame /\ log = HandedOut(playback.player)
  /\ replaying /\ ~ Finished /\ phase # "rebuild" => take = "Replaying"

(* Frames of records are numbers.                                            *)
LEMMA RecordFrames ==
  ASSUME NEW player, IsPlayer(player)
  PROVE  /\ Len(player.movie.records) \in Nat
         /\ player.cursor \in 0..Len(player.movie.records)
         /\ \A i \in 1..Len(player.movie.records) : player.movie.records[i].frame \in Nat
<1>1. player.movie.records \in Seq(Records) /\ player.cursor \in 0..Len(player.movie.records)
  BY PlayerRecords
<1>2. \A i \in 1..Len(player.movie.records) : player.movie.records[i] \in Records
  BY <1>1
<1> QED BY <1>1, <1>2 DEF Records

(* Steps that neither play nor log.                                          *)
LEMMA ReplayKept ==
  ASSUME ReplayInv, playback' = playback, replaying' => replaying,
         replaying /\ ~ Finished => log' = log /\ ran' = ran /\ take' = take,
         phase' \in {"frame", "after"} => phase \in {"frame", "after"},
         phase' = "rebuild" \/ phase # "rebuild"
  PROVE  ReplayInv'
<1>1. Finished' = Finished
  BY DEF Finished
<1>2. replaying' => CursorOrder(playback.player, playback.frame, phase' \in {"frame", "after"})
  BY DEF ReplayInv, CursorOrder
<1>3. replaying' => CursorOrder(playback'.player, playback'.frame, phase' \in {"frame", "after"})
  BY <1>2
<1>4. (replaying => CursorOrder(playback.player, playback.frame, phase \in {"frame", "after"}))' <=>
      (replaying' => CursorOrder(playback'.player, playback'.frame, phase' \in {"frame", "after"}))
  BY DEF CursorOrder
<1>5. (replaying /\ ~ Finished =>
         ran = playback.frame /\ log = HandedOut(playback.player))'
  BY <1>1 DEF ReplayInv, HandedOut, ToCall
<1> QED BY <1>1, <1>3, <1>4, <1>5 DEF ReplayInv

(* While a replay is bound what the user does reaches no machine.            *)
LEMMA ReplayUser == ASSUME TypeInv, TakeKind, ReplayInv, UserStep PROVE ReplayInv'
<1> USE DEF movies, history, iteration
<1>1. UNCHANGED <<playback, replaying, take>>
  BY DEF UserStep, ControlMoves, FocusLost, FocusGained, PadRemoved, MouseUngrabbed,
         TogglePanel, Hotkey, Quit, StagePause, StagePoke, StageStep, StageWatchpoint,
         StageRemoval, StageDip, Stage, Polling
<1>2. phase \in {"poll", "draw"} /\ phase' \in {phase, "exit"}
  BY DEF UserStep, ControlMoves, FocusLost, FocusGained, PadRemoved, MouseUngrabbed,
         TogglePanel, Hotkey, Quit, StagePause, StagePoke, StageStep, StageWatchpoint,
         StageRemoval, StageDip, Stage, Polling
<1>3. replaying => bound /\ ~ recording
  BY <1>2 DEF TakeKind
<1>4. replaying => log' = log /\ ran' = ran
  BY <1>3 DEF UserStep, ControlMoves, FocusLost, FocusGained, PadRemoved, MouseUngrabbed,
         TogglePanel, Hotkey, Quit, StagePause, StagePoke, StageStep, StageWatchpoint,
         StageRemoval, StageDip, Stage, Polling, ReleaseAllInputs
<1> QED BY <1>1, <1>2, <1>4, ReplayKept

(* Delivering: the cursor stands at the frame's first record, and what it    *)
(* passes is the frame's.                                                    *)
LEMMA DeliveryOrder ==
  ASSUME NEW player, IsPlayer(player), player.movie \in Movies, NEW frame \in Nat,
         CursorOrder(player, frame, FALSE)
  PROVE  LET end == TakeTo(player, frame) IN
         /\ end \in player.cursor..Len(player.movie.records)
         /\ SkipTo(player, frame) = player.cursor
         /\ \A i \in player.cursor + 1..end : player.movie.records[i].frame = frame
         /\ CursorOrder([player EXCEPT !.cursor = end], frame, TRUE)
<1> DEFINE records == player.movie.records
           n == Len(records)
           cursor == player.cursor
           skip == SkipTo(player, frame)
           end == TakeTo(player, frame)
<1>1. n \in Nat /\ cursor \in 0..n /\ \A i \in 1..n : records[i].frame \in Nat
  BY RecordFrames
<1>2. /\ skip \in cursor..n
      /\ \A i \in cursor + 1..n : i <= skip => records[i].frame < frame
  BY SkipToBounds
<1>3. \A i \in 1..n : /\ records[i].frame < frame => i <= cursor
                      /\ i <= cursor => records[i].frame <= frame
  BY DEF CursorOrder
<1> HIDE DEF skip
<1>4. skip = cursor
  <2> SUFFICES ASSUME skip # cursor PROVE FALSE
    OBVIOUS
  <2> HIDE DEF cursor, n, records
  <2>1. cursor + 1 \in cursor + 1..n /\ cursor + 1 \in 1..n /\ cursor + 1 <= skip
    BY <1>1, <1>2
  <2> QED BY <1>1, <1>2, <1>3, <2>1
<1>5. /\ end \in skip..n
      /\ \A i \in skip + 1..n : i <= end => records[i].frame = frame
      /\ end < n => records[end + 1].frame # frame
  BY TakeToBounds DEF skip
<1>6. \A i \in 1..n, j \in 1..n : i < j => records[i].frame <= records[j].frame
  <2>1. FramesMonotonic(player.movie)
    BY MovieFacts DEF Valid
  <2>2. DOMAIN records = 1..n
    BY PlayerRecords
  <2> QED BY <2>1, <2>2 DEF FramesMonotonic
<1> HIDE DEF end
<1>7. CursorOrder([player EXCEPT !.cursor = end], frame, TRUE)
  <2> DEFINE moved == [player EXCEPT !.cursor = end]
  <2>1. moved.movie = player.movie /\ moved.cursor = end
    BY DEF IsPlayer
  <2> HIDE DEF moved
  <2>2. ASSUME NEW i \in 1..n
        PROVE  /\ records[i].frame < frame => i <= end
               /\ i <= end => records[i].frame <= frame
               /\ records[i].frame <= frame => i <= end
    <3> HIDE DEF n, records, cursor
    <3>1. i <= end => records[i].frame <= frame
      <4>1. CASE i <= cursor
        BY <1>3, <4>1
      <4>2. CASE ~ (i <= cursor)
        <5>1. i \in skip + 1..n
          BY <1>1, <1>4, <4>2
        <5> QED BY <1>1, <1>5, <5>1
      <4> QED BY <4>1, <4>2
    <3>2. records[i].frame <= frame => i <= end
      <4> SUFFICES ASSUME ~ (i <= end) PROVE frame < records[i].frame
        BY <1>1
      <4>1. end + 1 \in 1..n /\ end < n /\ ~ (end + 1 <= cursor)
        BY <1>1, <1>4, <1>5
      <4>2. frame < records[end + 1].frame
        BY <1>1, <1>3, <1>5, <4>1
      <4>3. CASE i = end + 1
        BY <4>2, <4>3
      <4>4. CASE i # end + 1
        <5>1. end + 1 < i
          BY <1>1, <1>4, <1>5, <4>4
        <5>2. records[end + 1].frame <= records[i].frame
          BY <1>6, <4>1, <5>1
        <5> QED BY <1>1, <4>1, <4>2, <5>2
      <4> QED BY <4>3, <4>4
    <3> QED BY <1>1, <3>1, <3>2
  <2> QED BY <2>1, <2>2 DEF CursorOrder, moved
<1>8. end \in cursor..n /\ \A i \in cursor + 1..end : records[i].frame = frame
  <2> HIDE DEF n, records, cursor
  <2>1. \A i \in cursor + 1..end : i \in skip + 1..n /\ i <= end
    BY <1>1, <1>4, <1>5
  <2> QED BY <1>1, <1>4, <1>5, <2>1
<1> QED BY <1>4, <1>7, <1>8 DEF end, skip

(* What a delivery logs is what the cursor passes over.                      *)
LEMMA DeliveryLog ==
  ASSUME NEW player, IsPlayer(player), player.movie \in Movies, NEW frame \in Nat,
         CursorOrder(player, frame, FALSE)
  PROVE  LET calls == Delivered(player, frame)
             end == TakeTo(player, frame) IN
         HandedOut(player) \o [i \in DOMAIN calls |-> [frame |-> frame, call |-> calls[i]]]
           = HandedOut([player EXCEPT !.cursor = end])
<1> DEFINE records == player.movie.records
           n == Len(records)
           cursor == player.cursor
           end == TakeTo(player, frame)
           moved == [player EXCEPT !.cursor = end]
           E(i) == [frame |-> records[i].frame, call |-> ToCall(player, records[i])]
           calls == Delivered(player, frame)
           taken == SubSeq(records, cursor + 1, end)
           s == [i \in DOMAIN calls |-> [frame |-> frame, call |-> calls[i]]]
<1>1. n \in Nat /\ cursor \in 0..n /\ records \in Seq(Records)
  BY RecordFrames, PlayerRecords
<1>2. end \in cursor..n /\ SkipTo(player, frame) = cursor
      /\ \A i \in cursor + 1..end : records[i].frame = frame
  BY DeliveryOrder
<1>3. calls = [i \in DOMAIN taken |-> ToCall(player, taken[i])]
  BY <1>2 DEF Delivered
<1> HIDE DEF end
<1>4. moved.movie = player.movie /\ moved.ids = player.ids /\ moved.cursor = end
  BY DEF IsPlayer
<1>5. HandedOut(moved) = [i \in 1..end |-> E(i)]
  <2> HIDE DEF moved
  <2> QED BY <1>4 DEF HandedOut, ToCall
<1>6. HandedOut(player) = [i \in 1..cursor |-> E(i)]
  BY DEF HandedOut
<1>7. taken \in Seq(Records) /\ Len(taken) = end - cursor /\ DOMAIN taken = 1..end - cursor
      /\ \A i \in 1..end - cursor : taken[i] = records[cursor + i]
  <2> DEFINE first == cursor + 1
  <2> HIDE DEF n, cursor, records
  <2>1. first \in Int /\ end \in Int /\ end - first + 1 = end - cursor /\ end - cursor \in Nat
    BY <1>1, <1>2
  <2>2. \A i \in first..end : records[i] \in Records
    <3>1. \A i \in first..end : i \in 1..n
      BY <1>1, <1>2
    <3>2. n = Len(records)
      BY DEF n, records
    <3> QED BY <1>1, <3>1, <3>2, ElementOfSeq
  <2>3. \A i \in 1..end - cursor : first + i - 1 = cursor + i
    BY <1>1
  <2>4. taken = SubSeq(records, first, end)
    OBVIOUS
  <2>5. first <= end <=> end - cursor > 0
    BY <1>1, <1>2
  <2> HIDE DEF first, taken
  <2>6. /\ taken \in Seq(Records)
        /\ Len(taken) = IF first <= end THEN end - first + 1 ELSE 0
        /\ \A i \in 1..end - first + 1 : taken[i] = records[first + i - 1]
    BY <2>1, <2>2, <2>4, SubSeqProperties
  <2>7. Len(taken) = end - cursor
    BY <2>1, <2>5, <2>6
  <2> QED BY <2>1, <2>3, <2>6, <2>7, LenProperties
<1> HIDE DEF taken
<1>8. s = [i \in 1..end - cursor |-> E(cursor + i)]
  <2>1. DOMAIN calls = 1..end - cursor
    BY <1>3, <1>7
  <2>2. ASSUME NEW i \in 1..end - cursor
        PROVE  [frame |-> frame, call |-> calls[i]] = E(cursor + i)
    <3>1. calls[i] = ToCall(player, records[cursor + i])
      BY <1>3, <1>7
    <3>2. cursor + i \in cursor + 1..end
      BY <1>1, <1>2
    <3>3. records[cursor + i].frame = frame
      BY <1>2, <3>2
    <3> HIDE DEF calls, records
    <3> QED BY <3>1, <3>3
  <2> HIDE DEF calls, E
  <2> QED BY <2>1, <2>2
<1> HIDE DEF moved, E, calls, n, cursor, records
<1> DEFINE a == [i \in 1..cursor |-> E(i)]
           b == [i \in 1..end - cursor |-> E(cursor + i)]
           V == {E(i) : i \in 1..end}
<1>9. a \o b = [i \in 1..end |-> E(i)]
  <2>0. cursor \in Nat /\ end \in Nat /\ end - cursor \in Nat
    BY <1>1, <1>2
  <2>1. a \in Seq(V) /\ b \in Seq(V) /\ Len(a) = cursor /\ Len(b) = end - cursor
    <3>1. \A i \in 1..cursor : E(i) \in V
      BY <2>0, <1>2
    <3>2. \A i \in 1..end - cursor : E(cursor + i) \in V
      BY <2>0, <1>2
    <3> HIDE DEF V
    <3> QED BY <2>0, <3>1, <3>2
  <2>2. /\ a \o b \in Seq(V) /\ Len(a \o b) = end
        /\ \A i \in 1..end : (a \o b)[i] = IF i <= cursor THEN a[i] ELSE b[i - cursor]
    <3> HIDE DEF a, b, V
    <3>1. cursor + (end - cursor) = end
      BY <2>0
    <3> QED BY <2>0, <2>1, <3>1, ConcatProperties
  <2>3. ASSUME NEW i \in 1..end PROVE (a \o b)[i] = E(i)
    <3>1. CASE i <= cursor
      <4>1. i \in 1..cursor
        BY <2>0, <3>1
      <4>2. a[i] = E(i)
        BY <4>1
      <4> HIDE DEF a, b
      <4> QED BY <2>2, <3>1, <4>2
    <3>2. CASE ~ (i <= cursor)
      <4>1. i - cursor \in 1..end - cursor /\ cursor + (i - cursor) = i
        BY <2>0, <3>2
      <4>2. b[i - cursor] = E(i)
        BY <4>1
      <4> HIDE DEF a, b
      <4> QED BY <2>2, <3>2, <4>2
    <3> QED BY <3>1, <3>2
  <2>4. a \o b \in [1..end -> V]
    <3> HIDE DEF a, b, V
    <3> QED BY <2>2, LenProperties
  <2>5. a \o b = [i \in 1..end |-> (a \o b)[i]]
    <3> DEFINE c == a \o b
    <3>1. c \in [1..end -> V]
      BY <2>4
    <3> HIDE DEF a, b, c, V
    <3>2. c = [i \in 1..end |-> c[i]]
      BY <3>1
    <3> QED BY <3>2 DEF c
  <2> HIDE DEF a, b, V
  <2> QED BY <2>3, <2>5
<1> QED BY <1>5, <1>6, <1>8, <1>9 DEF moved, calls, end, cursor

(* Delivering the movie's input keeps the replay.                            *)
LEMMA DeliverReplays ==
  ASSUME TypeInv, ReplayInv, TakeKind, Deliver
  PROVE  ReplayInv'
<1>0. phase = "deliver" /\ phase' = "frame" /\ replaying' = replaying /\ ran' = ran /\ take' = take
  BY DEF Deliver, iteration
<1>1. CASE ~ replaying
  BY <1>0, <1>1 DEF ReplayInv
<1>2. CASE replaying
  <2> DEFINE player == playback.player
             frame == playback.frame
             calls == Delivered(player, frame)
             moved == [player EXCEPT !.cursor = TakeTo(player, frame)]
  <2>1. IsPlayer(player) /\ player.movie \in Movies /\ frame \in Nat
    BY <1>2 DEF TypeInv, PlaybackTyped
  <2>2. CursorOrder(player, frame, FALSE)
    BY <1>0, <1>2 DEF ReplayInv, CursorOrder
  <2>3. /\ Log(calls) /\ playback' = [playback EXCEPT !.player = TakeFrame(@, playback.frame)]
    BY <1>2 DEF Deliver
  <2>31. playback' = [playback EXCEPT !.player = moved]
    BY <2>3 DEF TakeFrame
  <2>4. CursorOrder(moved, frame, TRUE)
    BY <2>1, <2>2, DeliveryOrder
  <2>5. HandedOut(player) \o [i \in DOMAIN calls |-> [frame |-> frame, call |-> calls[i]]]
          = HandedOut(moved)
    BY <2>1, <2>2, DeliveryLog
  <2> HIDE DEF calls
  <2>6. playback'.player = moved /\ playback'.frame = frame /\ Finished' = Finished
    <3> HIDE DEF moved
    <3> QED BY <2>31 DEF TypeInv, PlaybackTyped, Finished
  <2> HIDE DEF moved
  <2>7. ASSUME ~ Finished
        PROVE  ran' = playback'.frame /\ log' = HandedOut(playback'.player)
    <3>1. ran = frame /\ log = HandedOut(player)
      BY <1>2, <2>7 DEF ReplayInv
    <3>2. log' = log \o [i \in DOMAIN calls |-> [frame |-> ran, call |-> calls[i]]]
      BY <1>2, <2>3, <2>7 DEF Log, Taking
    <3> HIDE DEF player, frame
    <3>3. log' = HandedOut(moved)
      BY <2>5, <3>1, <3>2
    <3> QED BY <1>0, <2>6, <3>1, <3>3
  <2>8. CursorOrder(playback'.player, playback'.frame, phase' \in {"frame", "after"})
    <3> HIDE DEF player, frame
    <3>1. CursorOrder(moved, frame, phase' \in {"frame", "after"})
      BY <1>0, <2>4
    <3> QED BY <2>6, <3>1
  <2>9. take' = "Replaying" \/ Finished
    BY <1>0, <1>2 DEF ReplayInv
  <2>10. (replaying => CursorOrder(playback.player, playback.frame, phase \in {"frame", "after"}))'
    BY <2>8 DEF CursorOrder
  <2>11. (replaying /\ ~ Finished => ran = playback.frame /\ log = HandedOut(playback.player))'
    BY <2>6, <2>7 DEF HandedOut, ToCall
  <2>12. (replaying /\ ~ Finished /\ phase # "rebuild" => take = "Replaying")'
    BY <2>6, <2>9
  <2> QED BY <2>10, <2>11, <2>12 DEF ReplayInv
<1> QED BY <1>1, <1>2

(* So does counting a frame.                                                 *)
LEMMA AfterFrameReplays ==
  ASSUME TypeInv, ReplayInv, TakeKind, AfterFrame
  PROVE  ReplayInv'
<1>0. phase = "after" /\ phase' = "finish" /\ replaying' = replaying /\ log' = log /\ take' = take
  BY DEF AfterFrame, iteration
<1>1. CASE ~ (executed /\ replaying)
  <2>1. playback' = playback /\ (replaying => ran' = ran)
    BY <1>1 DEF AfterFrame
  <2> QED BY <1>0, <2>1, ReplayKept
<1>2. CASE executed /\ replaying
  <2> DEFINE next == playback.frame + 1
             player == playback.player
  <2>1. playback.frame \in Nat /\ playback.total \in Nat /\ IsPlayer(player)
    BY DEF TypeInv, PlaybackTyped
  <2>2. playback' = [playback EXCEPT !.frame = next]
    BY <1>2 DEF AfterFrame
  <2>3. playback'.player = player /\ playback'.frame = next /\ playback'.total = playback.total
    <3> HIDE DEF next
    <3> QED BY <2>2 DEF TypeInv, PlaybackTyped
  <2>4. Finished => Finished'
    BY <2>1, <2>3 DEF Finished
  <2>5. ~ Finished => ran' = ran + 1
    BY <1>2 DEF AfterFrame, Taking
  <2>6. CursorOrder(player, playback.frame, TRUE)
    BY <1>0, <1>2 DEF ReplayInv, CursorOrder
  <2>7. CursorOrder(player, next, FALSE)
    <3>1. \A i \in 1..Len(player.movie.records) : player.movie.records[i].frame \in Nat
      BY <2>1, RecordFrames
    <3> QED BY <2>1, <2>6, <3>1 DEF CursorOrder
  <2>8. (replaying => CursorOrder(playback.player, playback.frame, phase \in {"frame", "after"}))'
    BY <1>0, <2>3, <2>7 DEF CursorOrder
  <2>9. (replaying /\ ~ Finished => ran = playback.frame /\ log = HandedOut(playback.player))'
    BY <1>0, <1>2, <2>3, <2>4, <2>5 DEF ReplayInv, HandedOut, ToCall
  <2>10. (replaying /\ ~ Finished /\ phase # "rebuild" => take = "Replaying")'
    BY <1>0, <1>2, <2>4 DEF ReplayInv
  <2> QED BY <2>8, <2>9, <2>10 DEF ReplayInv
<1> QED BY <1>1, <1>2

(* Nothing but input runs in a replay that has not finished.                 *)
LEMMA ReplayRefused ==
  ASSUME TakeKind, ReplayInv, replaying,
         \/ ResetSoft \/ LoadState \/ PokeMemory \/ SetDipOption \/ StepTicks \/ BreakAtHit
         \/ BreakAtPc \/ RunTicked \/ StepFrameTicked \/ TickShortOfBoundary
  PROVE  Finished /\ ~ (ResetSoft \/ LoadState \/ PokeMemory \/ SetDipOption)
<1>1. ~ recording
  BY DEF TakeKind
<1>2. ~ (ResetSoft \/ LoadState \/ PokeMemory \/ SetDipOption)
  <2> SUFFICES ASSUME ResetSoft \/ LoadState \/ PokeMemory \/ SetDipOption PROVE FALSE
    OBVIOUS
  <2>1. phase = "drain"
    BY DEF ResetSoft, LoadState, PokeMemory, SetDipOption, Draining
  <2>2. MovieMode(recording, bound) = "Replaying"
    BY <1>1, <2>1 DEF TakeKind, MovieMode
  <2> QED BY <2>2 DEF ResetSoft, LoadState, PokeMemory, SetDipOption, Draining, EnabledNow,
         Enabled, RefusedByTake, OutsideInput
<1>3. phase = "frame" /\ take = "Live"
  BY <1>2 DEF StepTicks, BreakAtHit, BreakAtPc, RunTicked, StepFrameTicked,
       TickShortOfBoundary, AwaitsBoundary, MovieTake, FrameEnds
<1> QED BY <1>2, <1>3 DEF ReplayInv

(* Every step of the loop keeps the replay.                                  *)
LEMMA ReplayLoop == ASSUME TypeInv, TakeKind, ReplayInv, LoopTurn PROVE ReplayInv'
<1> USE DEF movies, history, iteration
<1>1. CASE ServiceHardReset \/ ServiceArm \/ EndPoll \/ EndDraw \/ Refuse \/ EndDrain
  <2>1. UNCHANGED <<playback, replaying, take>> /\ (replaying => log' = log /\ ran' = ran)
    BY <1>1 DEF ServiceHardReset, ServiceArm, EndPoll, EndDraw, Refuse, EndDrain, TakeKind
  <2>2. phase' \notin {"frame", "after"} /\ (phase' = "rebuild" \/ phase # "rebuild")
    BY <1>1 DEF ServiceHardReset, ServiceArm, EndPoll, EndDraw, Refuse, EndDrain
  <2> QED BY <2>1, <2>2, ReplayKept
<1>2. CASE BeginIteration
  <2>1. UNCHANGED <<playback, replaying, log, ran>> /\ phase' = "poll"
        /\ take' = MovieMode(recording, replaying /\ ~ Finished)
    BY <1>2 DEF BeginIteration
  <2>2. replaying /\ ~ Finished => take' = "Replaying"
    BY <2>1 DEF MovieMode, TakeKind
  <2>3. Finished' = Finished
    BY <2>1 DEF Finished
  <2>4. (replaying => CursorOrder(playback.player, playback.frame, phase \in {"frame", "after"}))'
    BY <2>1 DEF ReplayInv, CursorOrder
  <2>5. (replaying /\ ~ Finished => ran = playback.frame /\ log = HandedOut(playback.player))'
    BY <2>1, <2>3 DEF ReplayInv, HandedOut, ToCall
  <2>6. (replaying /\ ~ Finished /\ phase # "rebuild" => take = "Replaying")'
    BY <2>1, <2>2, <2>3
  <2> QED BY <2>4, <2>5, <2>6 DEF ReplayInv
<1>3. CASE Deliver
  BY <1>3, DeliverReplays
<1>4. CASE AfterFrame
  BY <1>4, AfterFrameReplays
<1>5. CASE FinishPlayback
  <2>1. UNCHANGED <<playback, take>> /\ (replaying' => replaying) /\ phase' = "draw"
        /\ phase = "finish" /\ (replaying /\ ~ Finished => log' = log /\ ran' = ran)
    BY <1>5 DEF FinishPlayback
  <2> QED BY <2>1, ReplayKept
<1>6. CASE Resync
  <2>1. UNCHANGED <<playback, take, replaying, ran>> /\ phase = "resync" /\ phase' = "deliver"
    BY <1>6 DEF Resync
  <2>2. replaying => bound
    BY <2>1 DEF TakeKind
  <2>3. replaying => log' = log
    BY <1>6, <2>2 DEF Resync
  <2> QED BY <2>1, <2>3, ReplayKept
<1>7. ASSUME NEW name, Draining(name)
      PROVE  UNCHANGED <<playback, take, replaying>> /\ phase = "drain"
  BY <1>7 DEF Draining
<1>8. CASE ResetHard \/ MovieArm \/ MovieStop \/ TogglePause \/ SaveState \/ SetWatchpoint
           \/ ClearWatchpoint
  <2>1. UNCHANGED <<playback, take, replaying>> /\ phase = "drain" /\ phase' \in {"drain", "resync"}
    BY <1>7, <1>8 DEF ResetHard, MovieArm, MovieStop, TogglePause, SaveState, SetWatchpoint,
         ClearWatchpoint
  <2>2. replaying => log' = log /\ ran' = ran
    BY <1>8 DEF ResetHard, MovieArm, MovieStop, TogglePause, SaveState, SetWatchpoint,
         ClearWatchpoint, TakeKind
  <2> QED BY <2>1, <2>2, ReplayKept
<1>9. ASSUME NEW name, ArmStep(name) PROVE ReplayInv'
  BY <1>7, <1>9, ReplayKept DEF ArmStep
<1>10. CASE ResetSoft \/ LoadState \/ PokeMemory \/ SetDipOption
  <2>1. UNCHANGED <<playback, take, replaying>> /\ phase = "drain" /\ phase' = "drain"
    BY <1>7, <1>10 DEF ResetSoft, LoadState, PokeMemory, SetDipOption
  <2>2. ~ replaying
    BY <1>10, ReplayRefused
  <2> QED BY <2>1, <2>2, ReplayKept
<1>11. CASE HoldClosed \/ RunClosed \/ HoldOpen \/ RefuseStepInTake \/ StepTicks \/ BreakAtFrame
            \/ RunInTake \/ BreakAtHit \/ BreakAtPc \/ RunTicked \/ StepFrameTicked
  <2>1. UNCHANGED <<playback, take, replaying, ran>> /\ phase = "frame" /\ phase' = "after"
    BY <1>11 DEF HoldClosed, RunClosed, HoldOpen, RefuseStepInTake, StepTicks, BreakAtFrame,
         RunInTake, BreakAtHit, BreakAtPc, RunTicked, StepFrameTicked, FrameEnds
  <2>2. replaying /\ ~ Finished => log' = log
    BY <1>11, ReplayRefused DEF HoldClosed, RunClosed, HoldOpen, RefuseStepInTake, BreakAtFrame,
         RunInTake
  <2> QED BY <2>1, <2>2, ReplayKept
<1>12. CASE TickShortOfBoundary
  <2>1. /\ UNCHANGED <<playback, take, replaying, ran>>
        /\ phase = "frame" /\ phase' = "frame"
    BY <1>12 DEF TickShortOfBoundary, AwaitsBoundary
  <2>2. ~ (replaying /\ ~ Finished)
    BY <1>12, ReplayRefused
  <2> QED BY <2>1, <2>2, ReplayKept
<1> QED
  BY <1>1, <1>2, <1>3, <1>4, <1>5, <1>6, <1>8, <1>9, <1>10, <1>11, <1>12,
     LastTicks
     DEF LoopTurn, LoopStep

(* A movie starts at its beginning.                                          *)
LEMMA InitReplays == Init => ReplayInv
<1> SUFFICES ASSUME Init PROVE ReplayInv
  OBVIOUS
<1>1. PICK movie \in Movies \cup {NoMovie} :
       playback = [player |-> BindPlayer(movie, ControlTable),
                   frame |-> 0, total |-> movie.frames]
  BY DEF Init
<1>2. IsPlayer(playback.player) /\ playback.player.cursor = 0 /\ playback.frame = 0
  BY <1>1, BoundPlayer
<1>3. phase = "rebuild" /\ ran = 0 /\ log = <<>>
  BY DEF Init
<1>4. CursorOrder(playback.player, 0, FALSE)
  <2>1. \A i \in 1..Len(playback.player.movie.records) : playback.player.movie.records[i].frame \in Nat
    BY <1>2, RecordFrames
  <2> QED BY <1>2, <2>1 DEF CursorOrder
<1>5. HandedOut(playback.player) = <<>>
  BY <1>2 DEF HandedOut
<1> QED BY <1>2, <1>3, <1>4, <1>5 DEF ReplayInv, CursorOrder

(* A replay delivers the movie and nothing else.                             *)
THEOREM Replays == Spec => []ReplayInv
<1>1. TypeInv /\ TakeKind /\ ReplayInv /\ [Next]_vars => ReplayInv'
  <2> SUFFICES ASSUME TypeInv, TakeKind, ReplayInv, [Next]_vars PROVE ReplayInv'
    OBVIOUS
  <2>1. CASE UNCHANGED vars
    BY <2>1, ReplayKept DEF vars, movies, iteration, history
  <2> QED BY <2>1, ReplayUser, ReplayLoop DEF Next, LoopTurn
<1> QED BY <1>1, InitReplays, LoopTyped, TakeKinds, PTL DEF Spec

(* During a replay the machine receives the movie's records, under its frames, *)
(* each before its frame runs and nothing else (Player in movie.rs).         *)
THEOREM ReplayReceivesTheMovie == Spec => []ReplayIsolated
<1>1. TypeInv /\ ReplayInv => ReplayIsolated
  <2> SUFFICES ASSUME TypeInv, ReplayInv, replaying, ~ Finished
               PROVE  LET records == playback.player.movie.records IN
                      /\ ran = playback.frame
                      /\ log = HandedOut(playback.player)
                      /\ phase = "frame" => \A i \in DOMAIN records :
                           records[i].frame <= playback.frame => i <= playback.player.cursor
    BY DEF ReplayIsolated, HandedOut
  <2>1. DOMAIN playback.player.movie.records = 1..Len(playback.player.movie.records)
    BY PlayerRecords DEF TypeInv, PlaybackTyped
  <2> QED BY <2>1 DEF ReplayInv, CursorOrder
<1> QED BY <1>1, LoopTyped, Replays, PTL

-----------------------------------------------------------------------------
(* The machine believes held what is.                                        *)

(* The user lets go of the mouse never, arms no recording from the keyboard, *)
(* and no load fails half way.                                               *)
DevicesTracked ==
  "ungrab" \notin WindowEvents /\ ~ PartialLoads /\ "MovieRecordToggle" \notin UserCommands

(* Reading the devices again is asked for whenever the machine's controls    *)
(* may have parted from them.                                                *)
ResyncAsked ==
  /\ request.pendingResync => phase \in {"rebuild", "draw"}
  /\ request.needsResync => phase \in {"poll", "drain", "resync", "exit"}
  /\ bound /\ ~ replaying /\ phase \in {"draw", "rebuild"} => request.pendingResync
  /\ request.arm # "none" => phase = "rebuild" /\ devices.pressed = {}
(* Otherwise the machine believes held what is.                              *)
HeldInv ==
  ~ bound /\ devices.focused /\ ~ request.needsResync /\ ~ request.pendingResync =>
    machine.held = devices.pressed

(* One call is one step.                                                     *)
LEMMA SingleCall ==
  ASSUME NEW m \in Machines, NEW call \in InputCalls
  PROVE  HandleAll(m, <<call>>).held = Handle([held |-> m.held, dip |-> m.dip], call).held
<1> DEFINE calls == <<call>>
<1>0. calls \in Seq(InputCalls) /\ Len(calls) = 1 /\ calls[1] = call
  OBVIOUS
<1>1. m.held \subseteq Keys /\ m.dip \in {0, 1}
  BY DEF Machines
<1> HIDE DEF calls
<1>2. PICK p \in PortsSteps(m, calls) : TRUE
  BY <1>0, <1>1, PortsRecursion
<1>3. /\ p[0] = [held |-> m.held, dip |-> m.dip]
      /\ \A i \in 1..1 : p[i] = Handle(p[i - 1], calls[i])
      /\ Ports(m, calls) = p[1]
  BY <1>0, <1>2 DEF PortsSteps
<1>4. Ports(m, calls) = Handle([held |-> m.held, dip |-> m.dip], call)
  <2>1. 1 \in 1..1 /\ 1 - 1 = 0
    OBVIOUS
  <2>2. p[1] = Handle(p[1 - 1], calls[1])
    BY <1>3, <2>1
  <2> QED BY <1>0, <1>3, <2>1, <2>2
<1> DEFINE h == Ports(m, calls).held
           d == Ports(m, calls).dip
<1>5. HandleAll(m, calls) = [m EXCEPT !.held = h, !.dip = d]
  BY DEF HandleAll
<1> HIDE DEF h, d
<1>6. HandleAll(m, calls).held = h
  BY <1>5 DEF Machines
<1> QED BY <1>4, <1>6 DEF h, calls

(* A press or a release of one control.                                      *)
LEMMA PressMatches ==
  ASSUME NEW m \in Machines, NEW k \in Keys, NEW value \in {0, 1}
  PROVE  HandleAll(m, <<Call("button", k, value)>>).held =
           IF value = 1 THEN m.held \cup {k} ELSE m.held \ {k}
<1> DEFINE call == Call("button", k, value)
<1>1. call \in InputCalls /\ call.op = "button" /\ call.id = k /\ call.value = value
  BY KeysAreNumbers DEF InputCalls, Call
<1> HIDE DEF call
<1> DEFINE ports == [held |-> m.held, dip |-> m.dip]
<1>2. HandleAll(m, <<call>>).held = Handle(ports, call).held
  BY <1>1, SingleCall
<1>3. Handle(ports, call).held = IF value = 1 THEN m.held \cup {k} ELSE m.held \ {k}
  <2>1. CASE value = 1
    BY <1>1, <2>1 DEF Handle
  <2>2. CASE value = 0
    BY <1>1, <2>2 DEF Handle
  <2> QED BY <2>1, <2>2
<1> HIDE DEF ports
<1> QED BY <1>2, <1>3 DEF call

(* A DIP edit is no control.                                                 *)
LEMMA DipKeepsHeld ==
  ASSUME NEW m \in Machines, NEW value \in {0, 1}
  PROVE  HandleAll(m, <<Call("dip", 1, value)>>).held = m.held
<1> DEFINE call == Call("dip", 1, value)
<1>1. call \in InputCalls /\ call.op = "dip" /\ call.value = value
  BY DEF InputCalls, Call
<1> HIDE DEF call
<1> DEFINE ports == [held |-> m.held, dip |-> m.dip]
<1>2. HandleAll(m, <<call>>).held = Handle(ports, call).held
  BY <1>1, SingleCall
<1>3. Handle(ports, call).held = m.held
  BY <1>1 DEF Handle
<1> HIDE DEF ports
<1> QED BY <1>2, <1>3 DEF call

(* Reading every control again leaves the machine with the ones pressed.     *)
LEMMA ResyncMatches ==
  ASSUME NEW m \in Machines, devices.pressed \subseteq Keys
  PROVE  HandleAll(m, ResyncCalls).held = devices.pressed
<1> DEFINE n == Len(ControlTable)
           calls == ResyncCalls
           Read(p, i) == \A j \in 1..i : ControlTable[j].id \in p.held <=>
                                         ControlTable[j].id \in devices.pressed
<1>0. n \in Nat /\ DOMAIN ControlTable = 1..n
  BY LoopAssumption DEF LoopAssumption
<1>1. calls \in Seq(InputCalls) /\ Len(calls) = n
      /\ \A i \in 1..n : calls[i] = Call("button", ControlTable[i].id,
           IF ControlTable[i].id \in devices.pressed THEN 1 ELSE 0)
  <2>1. calls \in Seq(InputCalls)
    BY CallsAreLive DEF LiveCalls
  <2>2. calls = [i \in 1..n |-> Call("button", ControlTable[i].id,
           IF ControlTable[i].id \in devices.pressed THEN 1 ELSE 0)]
    BY <1>0 DEF ResyncCalls
  <2> HIDE DEF calls, n
  <2>3. DOMAIN calls = 1..n /\ DOMAIN calls = 1..Len(calls) /\ Len(calls) \in Nat
    BY <2>1, <2>2, LenProperties
  <2> QED BY <1>0, <2>1, <2>2, <2>3
<1>2. m.held \subseteq Keys /\ m.dip \in {0, 1}
  BY DEF Machines
<1> HIDE DEF calls, n
<1>3. PICK p \in PortsSteps(m, calls) : TRUE
  BY <1>1, <1>2, PortsRecursion
<1>4. /\ p \in [0..n -> PortStates]
      /\ \A i \in 1..n : p[i] = Handle(p[i - 1], calls[i])
      /\ Ports(m, calls) = p[n]
  BY <1>1, <1>3 DEF PortsSteps
<1> DEFINE S == {i \in 0..n : Read(p[i], i)}
<1>5. 0 \in S
  BY <1>0
<1>6. ASSUME NEW i \in 1..n, i - 1 \in S PROVE i \in S
  <2> DEFINE k == ControlTable[i].id
             call == calls[i]
  <2>1. i - 1 \in 0..n /\ i \in 0..n /\ p[i - 1] \in PortStates /\ Read(p[i - 1], i - 1)
    BY <1>0, <1>4, <1>6
  <2>2. /\ call.op = "button" /\ call.id = k
        /\ call.value = IF k \in devices.pressed THEN 1 ELSE 0
    BY <1>1 DEF Call
  <2>3. p[i] = Handle(p[i - 1], call)
    BY <1>4
  <2> HIDE DEF call, S
  <2>4. p[i].held = IF k \in devices.pressed THEN p[i - 1].held \cup {k} ELSE p[i - 1].held \ {k}
    <3>1. CASE k \in devices.pressed
      <4>1. p[i] = [p[i - 1] EXCEPT !.held = @ \cup {k}]
        BY <2>2, <2>3, <3>1 DEF Handle
      <4> QED BY <2>1, <3>1, <4>1 DEF PortStates
    <3>2. CASE k \notin devices.pressed
      <4>1. p[i] = [p[i - 1] EXCEPT !.held = @ \ {k}]
        BY <2>2, <2>3, <3>2 DEF Handle
      <4> QED BY <2>1, <3>2, <4>1 DEF PortStates
    <3> QED BY <3>1, <3>2
  <2>5. Read(p[i], i)
    <3> SUFFICES ASSUME NEW j \in 1..i
                 PROVE  ControlTable[j].id \in p[i].held <=> ControlTable[j].id \in devices.pressed
      OBVIOUS
    <3>1. CASE j = i
      BY <2>4, <3>1
    <3>2. CASE j # i
      <4>1. j \in 1..(i - 1)
        BY <1>0, <3>2
      <4>2. ControlTable[j].id \in p[i - 1].held <=> ControlTable[j].id \in devices.pressed
        BY <2>1, <4>1
      <4> QED BY <2>4, <4>2
    <3> QED BY <3>1, <3>2
  <2> QED BY <2>1, <2>5 DEF S
<1> HIDE DEF S
<1>7. n \in S
  <2>1. \A i \in 0..n : i \in S
    BY <1>0, <1>5, <1>6, BoundedInduction
  <2> QED BY <1>0, <2>1
<1>8. p[n] \in PortStates /\ Read(p[n], n)
  BY <1>0, <1>4, <1>7 DEF S
<1>9. p[n].held = devices.pressed
  <2>1. \A k \in Keys : k \in p[n].held <=> k \in devices.pressed
    BY <1>0, <1>8, KeysAreNumbers
  <2>2. p[n].held \subseteq Keys
    BY <1>8 DEF PortStates
  <2> QED BY <2>1, <2>2
<1> DEFINE h == Ports(m, calls).held
           d == Ports(m, calls).dip
<1>10. HandleAll(m, calls) = [m EXCEPT !.held = h, !.dip = d]
  BY DEF HandleAll
<1> HIDE DEF h, d
<1>11. HandleAll(m, calls).held = h
  BY <1>10 DEF Machines
<1> QED BY <1>4, <1>9, <1>11 DEF h, calls

(* Running a frame, or part of one, holds and releases nothing.              *)
LEMMA FramesKeepHeld ==
  ASSUME machine \in Machines,
         HoldClosed \/ RunClosed \/ HoldOpen \/ RefuseStepInTake \/ StepTicks \/ BreakAtFrame
           \/ RunInTake \/ BreakAtHit \/ BreakAtPc \/ RunTicked \/ StepFrameTicked
           \/ TickShortOfBoundary
  PROVE  machine'.held = machine.held
<1>1. SyncedMachine.held = machine.held
  <2>1. [machine EXCEPT !.watch = debug.watch, !.hits = {}].held = machine.held
    <3> DEFINE w == debug.watch
    <3> HIDE DEF w
    <3>1. [machine EXCEPT !.watch = w, !.hits = {}].held = machine.held
      BY DEF Machines
    <3> QED BY <3>1 DEF w
  <2> QED BY <2>1 DEF SyncedMachine
<1>2. SyncedMachine \in [held : {SyncedMachine.held}, dip : {SyncedMachine.dip},
                         watch : {SyncedMachine.watch}, hits : {SyncedMachine.hits}]
  <2> DEFINE w == debug.watch
  <2>1. [machine EXCEPT !.watch = w, !.hits = {}] \in [held : {machine.held}, dip : {machine.dip},
                         watch : {w}, hits : {{}}]
    <3> HIDE DEF w
    <3> QED BY DEF Machines
  <2>2. machine \in [held : {machine.held}, dip : {machine.dip},
                         watch : {machine.watch}, hits : {machine.hits}]
    BY DEF Machines
  <2> QED BY <2>1, <2>2 DEF SyncedMachine
<1>3. ASSUME NEW m, m \in [held : {m.held}, dip : {m.dip}, watch : {m.watch}, hits : {m.hits}],
             NEW x
      PROVE  [m EXCEPT !.hits = x].held = m.held
  BY <1>3
<1>4. machine \in [held : {machine.held}, dip : {machine.dip},
                   watch : {machine.watch}, hits : {machine.hits}]
  BY DEF Machines
<1>5. CASE HoldClosed
  BY <1>5 DEF HoldClosed, FrameEnds
<1>6. CASE RunClosed
  <2>1. PICK m \in HitsAdded(machine) : machine' = m
    BY <1>6 DEF RunClosed, FrameEnds
  <2>2. PICK new \in SUBSET machine.watch : m = [machine EXCEPT !.hits = machine.hits \cup new]
    BY DEF HitsAdded
  <2> QED BY <1>3, <1>4, <2>1, <2>2
<1>7. CASE HoldOpen \/ RefuseStepInTake \/ BreakAtFrame \/ RunTicked
  BY <1>1, <1>7 DEF HoldOpen, RefuseStepInTake, BreakAtFrame, RunTicked, FrameEnds
<1>8. CASE StepTicks \/ BreakAtHit \/ StepFrameTicked \/ TickShortOfBoundary
  <2>1. machine' = [SyncedMachine EXCEPT !.hits = {}]
    BY <1>8 DEF StepTicks, BreakAtHit, StepFrameTicked, TickShortOfBoundary,
         FrameEnds
  <2> QED BY <1>1, <1>2, <1>3, <2>1
<1>9. CASE RunInTake \/ BreakAtPc
  <2>1. PICK m \in HitsAdded(SyncedMachine) : machine' = m
    BY <1>9 DEF RunInTake, BreakAtPc, FrameEnds
  <2>2. PICK new \in SUBSET SyncedMachine.watch :
          m = [SyncedMachine EXCEPT !.hits = SyncedMachine.hits \cup new]
    BY DEF HitsAdded
  <2> QED BY <1>1, <1>2, <1>3, <2>1, <2>2
<1> QED BY <1>5, <1>6, <1>7, <1>8, <1>9

(* What the loop's flags hold.                                               *)
Requests == [hardReset : BOOLEAN, arm : {"none", "cli", "hotkey"},
             pendingResync : BOOLEAN, needsResync : BOOLEAN]

(* A step that leaves the controls, the devices and the requests alone, and  *)
(* does not start or end an iteration.                                       *)
LEMMA HeldKept ==
  ASSUME ResyncAsked, HeldInv, machine'.held = machine.held,
         UNCHANGED <<devices, request, replaying, bound>>,
         phase' = phase \/ (phase = "draw" /\ phase' = "rebuild")
           \/ (phase \notin {"rebuild", "draw"} /\ phase' \notin {"rebuild", "draw"}
               /\ (request.needsResync => phase' \in {"poll", "drain", "resync", "exit"}))
  PROVE  ResyncAsked' /\ HeldInv'
BY DEF ResyncAsked, HeldInv

(* What the user and the window do is followed, or read again later.         *)
LEMMA HeldUser ==
  ASSUME DevicesTracked, TypeInv, TakeKind, ResyncAsked, HeldInv, UserStep
  PROVE  ResyncAsked' /\ HeldInv'
<1>0. /\ request \in Requests /\ machine \in Machines
      /\ devices \in [pressed : SUBSET Keys, focused : BOOLEAN] /\ bound \in BOOLEAN
  BY DEF TypeInv, ModesTyped, WorldTyped, Requests
<1>1. CASE \E k \in Keys, value \in {0, 1} : ControlMoves(k, value)
  <2>1. PICK k \in Keys, value \in {0, 1} : ControlMoves(k, value)
    BY <1>1
  <2> DEFINE now == IF value = 1 THEN devices.pressed \cup {k} ELSE devices.pressed \ {k}
  <2>2. /\ phase = "poll" /\ UNCHANGED <<phase, replaying, bound, request>>
        /\ devices' = [devices EXCEPT !.pressed = now]
        /\ ~ (devices.focused /\ ~ bound) => machine' = machine
        /\ devices.focused /\ ~ bound => machine' = HandleAll(machine, <<Call("button", k, value)>>)
    BY <2>1 DEF ControlMoves, Polling, Receive
  <2>3. devices'.pressed = now /\ devices'.focused = devices.focused
    <3> HIDE DEF now
    <3> QED BY <1>0, <2>2
  <2>4. devices.focused /\ ~ bound => machine'.held =
           IF value = 1 THEN machine.held \cup {k} ELSE machine.held \ {k}
    <3>1. machine \in Machines
      BY <1>0
    <3>2. HandleAll(machine, <<Call("button", k, value)>>).held =
            IF value = 1 THEN machine.held \cup {k} ELSE machine.held \ {k}
      BY <3>1, PressMatches
    <3> QED BY <2>2, <3>2
  <2>5. ResyncAsked'
    BY <2>2 DEF ResyncAsked
  <2>6. HeldInv'
    BY <2>2, <2>3, <2>4 DEF HeldInv
  <2> QED BY <2>5, <2>6
<1>2. CASE FocusLost
  <2>1. /\ phase = "poll" /\ UNCHANGED <<phase, replaying, bound, request>>
        /\ devices' = [devices EXCEPT !.focused = FALSE]
    BY <1>2 DEF FocusLost, Polling
  <2>2. ~ devices'.focused
    BY <1>0, <2>1
  <2> QED BY <2>1, <2>2 DEF ResyncAsked, HeldInv
<1>3. CASE FocusGained
  <2> DEFINE f == ~ bound
  <2>1. /\ phase = "poll" /\ UNCHANGED <<phase, replaying, bound>>
        /\ request' = [request EXCEPT !.needsResync = f]
    BY <1>3 DEF FocusGained, Polling
  <2>2. request'.needsResync = f /\ request'.pendingResync = request.pendingResync
        /\ request'.arm = request.arm
    <3> HIDE DEF f
    <3> QED BY <1>0, <2>1 DEF Requests
  <2> QED BY <2>1, <2>2 DEF ResyncAsked, HeldInv
<1>4. CASE PadRemoved
  <2> DEFINE f == request.needsResync \/ ~ bound
  <2>1. /\ phase = "poll" /\ UNCHANGED <<phase, replaying, bound>>
        /\ request' = [request EXCEPT !.needsResync = f]
    BY <1>4 DEF PadRemoved, Polling
  <2>2. request'.needsResync = f /\ request'.pendingResync = request.pendingResync
        /\ request'.arm = request.arm
    <3> HIDE DEF f
    <3> QED BY <1>0, <2>1 DEF Requests
  <2> QED BY <2>1, <2>2 DEF ResyncAsked, HeldInv
<1>5. CASE TogglePanel \/ Quit \/ StagePause \/ StagePoke
           \/ (\E name \in Hotkeys \cap UserCommands : Hotkey(name))
           \/ (\E name \in SubFrameSteps \cup {"StepFrame"} : StageStep(name))
           \/ (\E w \in Watchpoints : StageWatchpoint(w) \/ StageRemoval(w))
           \/ (\E value \in {0, 1} : StageDip(value))
  <2>1. UNCHANGED <<machine, devices, request, replaying, bound>>
    BY <1>5 DEF TogglePanel, Hotkey, Quit, StagePause, StagePoke, StageStep, StageWatchpoint,
         StageRemoval, StageDip, Stage, Polling, movies, iteration, outside
  <2>2. phase' = phase \/ (phase = "poll" /\ phase' = "exit")
    BY <1>5 DEF TogglePanel, Hotkey, Quit, StagePause, StagePoke, StageStep, StageWatchpoint,
         StageRemoval, StageDip, Stage, Polling
  <2> QED BY <2>1, <2>2, HeldKept
<1>6. ~ MouseUngrabbed
  BY DEF DevicesTracked, MouseUngrabbed
<1> QED BY <1>1, <1>2, <1>3, <1>4, <1>5, <1>6 DEF UserStep

(* So is what a command does to the machine.                                 *)
LEMMA HeldDrain ==
  ASSUME DevicesTracked, TypeInv, TakeKind, ResyncAsked, HeldInv,
         \/ Refuse \/ ResetSoft \/ ResetHard \/ MovieArm \/ MovieStop \/ TogglePause
         \/ \E name \in SubFrameSteps \cup {"StepFrame", "AdvanceFrame"} : ArmStep(name)
         \/ SaveState \/ LoadState \/ SetWatchpoint \/ ClearWatchpoint \/ PokeMemory
         \/ SetDipOption \/ EndDrain
  PROVE  ResyncAsked' /\ HeldInv'
<1> USE DEF movies, iteration, outside
<1>0. request \in Requests /\ machine \in Machines
  BY DEF TypeInv, ModesTyped, WorldTyped, Requests
<1>1. UNCHANGED <<devices, replaying, bound>> /\ phase = "drain" /\ phase' \in {"drain", "resync"}
  BY DEF Refuse, ResetSoft, ResetHard, MovieArm, MovieStop, TogglePause, ArmStep, SaveState,
         LoadState, SetWatchpoint, ClearWatchpoint, PokeMemory, SetDipOption, EndDrain, Draining
<1>2. CASE Refuse \/ MovieStop \/ TogglePause \/ SaveState \/ SetWatchpoint \/ ClearWatchpoint
           \/ PokeMemory \/ EndDrain
           \/ (\E name \in SubFrameSteps \cup {"StepFrame", "AdvanceFrame"} : ArmStep(name))
  <2>1. UNCHANGED <<machine, request>>
    BY <1>2 DEF Refuse, MovieStop, TogglePause, ArmStep, SaveState, SetWatchpoint,
         ClearWatchpoint, PokeMemory, EndDrain
  <2> QED BY <1>1, <2>1, HeldKept
<1>3. ASSUME request' = [request EXCEPT !.needsResync = TRUE]
      PROVE  ResyncAsked' /\ HeldInv'
  <2>1. request'.needsResync /\ request'.pendingResync = request.pendingResync
        /\ request'.arm = request.arm
    BY <1>0, <1>3 DEF Requests
  <2> QED BY <1>1, <2>1 DEF ResyncAsked, HeldInv
<1>4. CASE ResetSoft
  BY <1>3, <1>4 DEF ResetSoft
<1>5. CASE LoadState
  BY <1>1, <1>3, <1>5, HeldKept DEF LoadState, DevicesTracked
<1>6. CASE ResetHard
  <2>1. request' = [request EXCEPT !.hardReset = TRUE] /\ machine' = machine
    BY <1>6 DEF ResetHard
  <2>2. /\ request'.needsResync = request.needsResync
        /\ request'.pendingResync = request.pendingResync /\ request'.arm = request.arm
    BY <1>0, <2>1 DEF Requests
  <2> QED BY <1>1, <2>1, <2>2 DEF ResyncAsked, HeldInv
<1>7. ASSUME queue # <<>> PROVE Head(queue) \in Queued
  <2>1. queue \in Seq(Queued)
    BY DEF TypeInv, QueueTyped
  <2> QED BY <1>7, <2>1
<1>8. ~ MovieArm
  <2> SUFFICES ASSUME MovieArm PROVE FALSE
    OBVIOUS
  <2>1. queue # <<>> /\ Head(queue).name = "MovieRecordToggle"
    BY DEF MovieArm, Draining
  <2> QED BY <1>7, <2>1 DEF DevicesTracked, Queued
<1>9. CASE SetDipOption
  <2>1. /\ queue # <<>> /\ Head(queue).name = "SetDipOption" /\ request' = request
        /\ machine' = HandleAll(machine, <<Call("dip", 1, Head(queue).arg)>>)
    BY <1>9 DEF SetDipOption, Draining, Receive
  <2>2. Head(queue).arg \in {0, 1}
    BY <1>7, <2>1 DEF Queued
  <2>3. machine'.held = machine.held
    BY <1>0, <2>1, <2>2, DipKeepsHeld
  <2> QED BY <1>1, <2>1, <2>3, HeldKept
<1> QED BY <1>2, <1>4, <1>5, <1>6, <1>8, <1>9

(* Every step of the loop follows the devices, or asks to read them again.   *)
LEMMA HeldLoop ==
  ASSUME DevicesTracked, TypeInv, TakeKind, ResyncAsked, HeldInv, LoopTurn
  PROVE  ResyncAsked' /\ HeldInv'
<1> USE DEF movies, iteration, outside
<1>0. /\ request \in Requests /\ machine \in Machines
      /\ devices \in [pressed : SUBSET Keys, focused : BOOLEAN]
      /\ bound \in BOOLEAN /\ replaying \in BOOLEAN
  BY DEF TypeInv, ModesTyped, WorldTyped, Requests
<1>1. CASE ServiceHardReset
  <2>1. /\ request' = [request EXCEPT !.hardReset = FALSE, !.pendingResync = TRUE]
        /\ phase = "rebuild" /\ UNCHANGED <<phase, devices, replaying, bound>>
    BY <1>1 DEF ServiceHardReset
  <2>2. /\ request'.needsResync = request.needsResync
        /\ request'.pendingResync /\ request'.arm = request.arm
    BY <1>0, <2>1 DEF Requests
  <2> QED BY <2>1, <2>2 DEF ResyncAsked, HeldInv
<1>2. CASE ServiceArm
  <2>1. /\ request' = [request EXCEPT !.arm = "none"] /\ request.arm # "none"
        /\ machine' = FreshMachine(machine.dip)
        /\ phase = "rebuild" /\ UNCHANGED <<phase, devices, replaying, bound>>
    BY <1>2 DEF ServiceArm
  <2>2. /\ request'.needsResync = request.needsResync
        /\ request'.pendingResync = request.pendingResync /\ request'.arm = "none"
    BY <1>0, <2>1 DEF Requests
  <2>3. machine'.held = {} /\ devices.pressed = {}
    BY <2>1 DEF FreshMachine, ResyncAsked
  <2> QED BY <2>1, <2>2, <2>3 DEF ResyncAsked, HeldInv
<1>3. CASE BeginIteration
  <2>1. /\ request' = [request EXCEPT !.needsResync = request.pendingResync,
                                      !.pendingResync = FALSE]
        /\ phase = "rebuild" /\ request.arm = "none" /\ bound' = replaying /\ phase' = "poll"
        /\ UNCHANGED <<devices, replaying>> /\ SuspendFor(take')
    BY <1>3 DEF BeginIteration
  <2>2. /\ request'.needsResync = request.pendingResync
        /\ ~ request'.pendingResync /\ request'.arm = "none"
    <3> DEFINE f == request.pendingResync
    <3>1. request' = [request EXCEPT !.needsResync = f, !.pendingResync = FALSE]
      BY <2>1
    <3> HIDE DEF f
    <3>2. request'.needsResync = f /\ ~ request'.pendingResync /\ request'.arm = request.arm
      BY <1>0, <3>1 DEF Requests
    <3> QED BY <2>1, <3>2 DEF f
  <2>3. machine'.held = machine.held
    BY <1>0, <2>1 DEF SuspendFor, Machines
  <2>4. ~ request.needsResync
    BY <2>1 DEF ResyncAsked
  <2>5. bound /\ ~ replaying => request.pendingResync
    BY <2>1 DEF ResyncAsked
  <2>6. ResyncAsked'
    BY <2>1, <2>2 DEF ResyncAsked
  <2>7. HeldInv'
    BY <2>1, <2>2, <2>3, <2>4, <2>5 DEF HeldInv
  <2> QED BY <2>6, <2>7
<1>4. CASE EndPoll \/ EndDraw \/ AfterFrame
  <2>1. UNCHANGED <<machine, devices, request, replaying, bound>>
    BY <1>4 DEF EndPoll, EndDraw, AfterFrame
  <2>2. \/ phase = "poll" /\ phase' = "drain"
        \/ phase = "draw" /\ phase' = "rebuild"
        \/ phase = "after" /\ phase' = "finish"
    BY <1>4 DEF EndPoll, EndDraw, AfterFrame
  <2>3. phase = "after" => ~ request.needsResync
    BY DEF ResyncAsked
  <2> QED BY <2>1, <2>2, <2>3, HeldKept
<1>5. CASE Resync
  <2>1. /\ request' = [request EXCEPT !.needsResync = FALSE]
        /\ phase = "resync" /\ phase' = "deliver" /\ UNCHANGED <<devices, replaying, bound>>
        /\ ~ (request.needsResync /\ ~ bound) => machine' = machine
        /\ request.needsResync /\ ~ bound => machine' = HandleAll(machine, ResyncCalls)
    BY <1>5 DEF Resync, Receive
  <2>2. ~ request'.needsResync /\ request'.pendingResync = request.pendingResync
        /\ request'.arm = request.arm
    BY <1>0, <2>1 DEF Requests
  <2>3. request.needsResync /\ ~ bound => machine'.held = devices.pressed
    BY <1>0, <2>1, ResyncMatches
  <2>4. ResyncAsked'
    BY <2>1, <2>2 DEF ResyncAsked
  <2>5. HeldInv'
    BY <2>1, <2>2, <2>3 DEF HeldInv
  <2> QED BY <2>4, <2>5
<1>6. CASE Deliver
  <2>1. /\ phase = "deliver" /\ phase' = "frame" /\ UNCHANGED <<devices, request, replaying, bound>>
        /\ ~ replaying => machine' = machine
    BY <1>6 DEF Deliver
  <2>2. bound <=> replaying
    BY <2>1 DEF TakeKind
  <2>3. ~ request.needsResync
    BY <2>1 DEF ResyncAsked
  <2>4. ResyncAsked'
    BY <2>1, <2>3 DEF ResyncAsked
  <2>5. HeldInv'
    BY <2>1, <2>2 DEF HeldInv
  <2> QED BY <2>4, <2>5
<1>7. CASE HoldClosed \/ RunClosed \/ HoldOpen \/ RefuseStepInTake \/ StepTicks \/ BreakAtFrame
           \/ RunInTake \/ BreakAtHit \/ BreakAtPc \/ RunTicked \/ StepFrameTicked
  <2>1. UNCHANGED <<devices, request, replaying, bound>> /\ phase = "frame" /\ phase' = "after"
    BY <1>7 DEF HoldClosed, RunClosed, HoldOpen, RefuseStepInTake, StepTicks, BreakAtFrame,
         RunInTake, BreakAtHit, BreakAtPc, RunTicked, StepFrameTicked, FrameEnds
  <2>2. machine'.held = machine.held
    BY <1>0, <1>7, FramesKeepHeld
  <2>3. ~ request.needsResync
    BY <2>1 DEF ResyncAsked
  <2> QED BY <2>1, <2>2, <2>3, HeldKept
<1>8. CASE FinishPlayback
  <2>1. phase = "finish" /\ phase' = "draw" /\ UNCHANGED <<devices, bound>>
    BY <1>8 DEF FinishPlayback
  <2>2. (bound <=> replaying) /\ ~ request.needsResync
    BY <2>1 DEF TakeKind, ResyncAsked
  <2>3. CASE replaying /\ Finished
    <3>1. request' = [request EXCEPT !.pendingResync = TRUE] /\ replaying' = FALSE
      BY <1>8, <2>3 DEF FinishPlayback
    <3>2. request'.needsResync = request.needsResync /\ request'.pendingResync
          /\ request'.arm = request.arm
      BY <1>0, <3>1 DEF Requests
    <3> QED BY <2>1, <2>2, <3>1, <3>2 DEF ResyncAsked, HeldInv
  <2>4. CASE ~ (replaying /\ Finished)
    <3>1. UNCHANGED <<replaying, machine, request>>
      BY <1>8, <2>4 DEF FinishPlayback
    <3> QED BY <2>1, <2>2, <3>1 DEF ResyncAsked, HeldInv
  <2> QED BY <2>3, <2>4
<1>9. CASE TickShortOfBoundary
  <2>1. UNCHANGED <<devices, request, replaying, bound, phase>>
    BY <1>9 DEF TickShortOfBoundary
  <2>2. machine'.held = machine.held
    BY <1>0, <1>9, FramesKeepHeld
  <2> QED BY <2>1, <2>2, HeldKept
<1> QED
  BY <1>1, <1>2, <1>3, <1>4, <1>5, <1>6, <1>7, <1>8, <1>9, HeldDrain, LastTicks
     DEF LoopTurn, LoopStep

(* It starts with nothing held.                                              *)
LEMMA InitHeld == Init => ResyncAsked /\ HeldInv
<1> SUFFICES ASSUME Init PROVE ResyncAsked /\ HeldInv
  OBVIOUS
<1>1. PICK record \in StartRecording :
       request = [hardReset |-> FALSE, arm |-> IF record THEN "cli" ELSE "none",
                  pendingResync |-> FALSE, needsResync |-> FALSE]
  BY DEF Init
<1>2. PICK dip : machine = FreshMachine(dip)
  BY DEF Init
<1>3. phase = "rebuild" /\ bound = FALSE /\ devices = [pressed |-> {}, focused |-> TRUE]
  BY DEF Init
<1> QED BY <1>1, <1>2, <1>3 DEF ResyncAsked, HeldInv, FreshMachine

(* With the window focused and no replay bound, the machine runs a frame with *)
(* the controls held that are: resets, loads, focus changes, unplugged pads and *)
(* the end of a replay each lead to a resync in time (resync_held_inputs).  The *)
(* hypothesis leaves out the ways the code does lose track, each a run or a  *)
(* hazard of its own.                                                        *)
THEOREM HeldControlsMatch ==
  ASSUME DevicesTracked
  PROVE  Spec => []HeldMatchesDevices
<1>1. TypeInv /\ TakeKind /\ ResyncAsked /\ HeldInv /\ [Next]_vars => ResyncAsked' /\ HeldInv'
  <2> SUFFICES ASSUME TypeInv, TakeKind, ResyncAsked, HeldInv, [Next]_vars
               PROVE  ResyncAsked' /\ HeldInv'
    OBVIOUS
  <2>1. CASE UNCHANGED vars
    BY <2>1, HeldKept DEF vars, movies, iteration, outside
  <2> QED BY <2>1, HeldUser, HeldLoop DEF Next, LoopTurn
<1>2. TakeKind /\ ResyncAsked /\ HeldInv => HeldMatchesDevices
  BY DEF TakeKind, ResyncAsked, HeldInv, HeldMatchesDevices
<1> QED BY <1>1, <1>2, InitHeld, LoopTyped, TakeKinds, PTL DEF Spec
=============================================================================
